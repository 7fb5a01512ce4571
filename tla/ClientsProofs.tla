---------------------------- MODULE ClientsProofs ----------------------------
(***************************************************************************)
(* Theorems about the processes on one configuration file, for all files,  *)
(* drafts and targets and any number of changes.                           *)
(***************************************************************************)
EXTENDS Clients, ConfigSchemaProofs

-----------------------------------------------------------------------------
(* Configurations. *)

\* A configuration that may be in force.
Good(c) == c \in Docs /\ c.version = CurrentVersion /\ Valid(c)

\* A file that is there is neither missing nor garbage.
LEMMA DocIsThere == ASSUME NEW c \in Docs PROVE c \notin {NoFile, Garbage}
  BY DEF NoFile, Garbage, Docs

\* The defaults leave a configuration in form, and alone but for its resolvers if it is good.
LEMMA DefaultsInForm ==
  ASSUME NEW c \in Docs
  PROVE  ApplyDefaults(c) \in Docs /\ ApplyDefaults(c).version = CurrentVersion
<1> DEFINE ds == [i \in DOMAIN c.tunnels |-> Completed(c.tunnels[i], i)]
<1>1. c.tunnels \in Seq(TunnelSet)
  BY DEF Docs
<1>2. ASSUME NEW i \in DOMAIN c.tunnels PROVE Completed(c.tunnels[i], i) \in TunnelSet
  <2>1. c.tunnels[i] \in TunnelSet /\ i \in Nat \ {0}
    BY <1>1
  <2>2. "manual" \in Text /\ AutoTable + i - 1 \in Nat
    BY <2>1, TextAssumption, TableAssumption DEF Kinds
  <2> QED
    BY <2>1, <2>2 DEF Completed, TunnelSet
<1>3. ds \in Seq(TunnelSet)
  BY <1>1, <1>2
<1>4. ApplyDefaults(c) = Doc(CurrentVersion, ds, c.rule, c.via, Filled(c.fallback))
  BY DEF ApplyDefaults
<1>5. Filled(c.fallback) \in Resolvers
  BY ResolversAssumption DEF Filled, Docs
<1> HIDE DEF ds, Filled
<1> QED
  BY <1>3, <1>4, <1>5 DEF Docs, Doc, CurrentVersion

LEMMA DefaultsKeep ==
  ASSUME NEW c, Good(c)
  PROVE  ApplyDefaults(c) = Refilled(c)
<1> DEFINE ds == [i \in DOMAIN c.tunnels |-> Completed(c.tunnels[i], i)]
<1>1. c \in Docs /\ c.tunnels \in Seq(TunnelSet) /\ c.version = CurrentVersion
  BY DEF Good, Docs
<1>2. ASSUME NEW i \in DOMAIN c.tunnels PROVE Completed(c.tunnels[i], i) = c.tunnels[i]
  <2>1. c.tunnels[i].kind # None /\ c.tunnels[i].table # 0
    BY TextAssumption, TableAssumption DEF Good, Valid
  <2>2. c.tunnels[i] \in TunnelSet
    BY <1>1
  <2> QED
    BY <2>1, <2>2 DEF Completed, TunnelSet
<1>3. ds = c.tunnels
  BY <1>1, <1>2
<1>4. ApplyDefaults(c) = Doc(CurrentVersion, ds, c.rule, c.via, Filled(c.fallback))
  BY DEF ApplyDefaults
<1> HIDE DEF ds
<1> QED
  BY <1>1, <1>3, <1>4 DEF Docs, Doc, Refilled

\* What may be in force is read back as it is, but for its resolvers.
LEMMA GoodReadsBack ==
  ASSUME NEW c, Good(c)
  PROVE  Parse(c) = c /\ Read(c) = Refilled(c) /\ Loads(c) /\ Read(c).tunnels = c.tunnels
<1>1. Parse(c) = c
  BY DEF Good, Parse, Migrated, CurrentVersion
<1>2. Valid(Refilled(c)) /\ Refilled(c).tunnels = c.tunnels
  BY RefilledFacts, RefilledIsValid DEF Good
<1> QED
  BY <1>1, <1>2, DefaultsKeep, DocIsThere DEF Read, Loads, Good

\* What has been read once is not filled in a second time.
LEMMA ReadIsFilled ==
  ASSUME NEW f \in Files, Loads(f)
  PROVE  Refilled(Read(f)) = Read(f)
<1>1. Read(f) \in Docs /\ Read(f).fallback = Filled(Parse(f).fallback)
  BY ParseInForm, DefaultsInForm DEF Loads, Read, ApplyDefaults, Doc
<1>2. Filled(Read(f).fallback) = Read(f).fallback
  BY <1>1, ResolversAssumption DEF Filled
<1> QED
  BY <1>1, <1>2 DEF Refilled, Docs

\* What Load returns may be in force.
LEMMA LoadedIsGood ==
  ASSUME NEW f \in Files, Loads(f)
  PROVE  Good(Read(f))
BY ParseInForm, DefaultsInForm DEF Good, Loads, Read

-----------------------------------------------------------------------------
(* Edits leave a configuration in form; a full set of tables only Validate tells. *)

LEMMA UpsertedInForm ==
  ASSUME NEW c \in Docs, NEW t \in TunnelSet, Valid(Upserted(c, t))
  PROVE  Upserted(c, t) \in Docs /\ Upserted(c, t).version = c.version
<1>1. c.tunnels \in Seq(TunnelSet)
  BY DEF Docs
<1>2. ASSUME NEW table \in Nat PROVE Placed(t, table) \in TunnelSet
  BY DEF Placed, TunnelSet
<1>3. CASE t.name \in Names(c)
  <2> DEFINE i == At(c, t.name)
             new == [c.tunnels EXCEPT ![i] = Placed(t, c.tunnels[i].table)]
  <2>1. i \in DOMAIN c.tunnels
    BY <1>3 DEF Names, At
  <2>2. c.tunnels[i].table \in Nat
    <3> HIDE DEF i
    <3>1. c.tunnels[i] \in TunnelSet
      BY <1>1, <2>1
    <3> QED BY <3>1 DEF TunnelSet
  <2>3. new \in Seq(TunnelSet)
    <3> HIDE DEF i
    <3> QED BY <1>1, <1>2, <2>1, <2>2
  <2>4. Upserted(c, t) = [c EXCEPT !.tunnels = new]
    BY <1>3 DEF Upserted, Docs
  <2> HIDE DEF new
  <2> QED
    BY <2>3, <2>4 DEF Docs
<1>4. CASE t.name \notin Names(c)
  <2> DEFINE u == Placed(t, FreeTableID(c))
             new == Append(c.tunnels, u)
  <2>1. Upserted(c, t) = [c EXCEPT !.tunnels = new]
    BY <1>4 DEF Upserted
  <2>2. Upserted(c, t).tunnels = new
    <3> HIDE DEF new
    <3> QED BY <2>1 DEF Docs
  <2>3. u.table \in Nat
    <3>1. Len(new) \in DOMAIN new /\ new[Len(new)] = u
      <4> HIDE DEF u
      <4> QED BY <1>1
    <3> HIDE DEF u, new
    <3> QED BY <2>2, <3>1, TableAssumption DEF Valid
  <2>4. u \in TunnelSet
    BY <2>3 DEF Placed, TunnelSet
  <2>5. new \in Seq(TunnelSet)
    <3> HIDE DEF u
    <3> QED BY <1>1, <2>4
  <2> HIDE DEF new
  <2> QED
    BY <2>1, <2>5 DEF Docs
<1> QED
  BY <1>3, <1>4

LEMMA WithoutInForm ==
  ASSUME NEW c \in Docs, NEW n \in Names(c)
  PROVE  Without(c, n) \in Docs /\ Without(c, n).version = c.version
<1> DEFINE i == At(c, n)
           new == RemoveAt(c.tunnels, i)
<1>1. c.tunnels \in Seq(TunnelSet) /\ i \in DOMAIN c.tunnels
  BY DEF Docs, Names, At
<1>2. new \in Seq(TunnelSet)
  <2> HIDE DEF i
  <2> QED BY <1>1 DEF RemoveAt
<1>3. Without(c, n) = [c EXCEPT !.tunnels = new]
  BY DEF Without
<1> HIDE DEF new
<1> QED
  BY <1>2, <1>3 DEF Docs

LEMMA RetargetedInForm ==
  ASSUME NEW c \in Docs, NEW n \in Text
  PROVE  [c EXCEPT !.rule = n] \in Docs /\ [c EXCEPT !.rule = n].version = c.version
BY DEF Docs

LEMMA ResolversInForm ==
  ASSUME NEW c \in Docs, NEW list \in Resolvers
  PROVE  /\ [c EXCEPT !.fallback = list] \in Docs
         /\ [c EXCEPT !.fallback = list].version = c.version
BY DEF Docs

-----------------------------------------------------------------------------
(* The inductive invariant. *)

ProcType ==
  [pc : Saving \cup {"out", "stat", "marker", "idle", "done"}, fresh : BOOLEAN,
   cfg : Docs, old : Docs, temp : {"none", "part", "full"}, active : BOOLEAN,
   erred : BOOLEAN]

TypeInv ==
  /\ file \in Files
  /\ marker \in BOOLEAN /\ raced \in BOOLEAN /\ edited \in BOOLEAN
  /\ socket \in {"none", "live", "stale"}
  /\ proc \in [Process -> ProcType]

\* Only what is valid is saved or in force, and only whole files are renamed.
ProcInv(p) ==
  /\ Good(proc[p].cfg) /\ Good(proc[p].old)
  /\ proc[p].pc \notin Saving => proc[p].cfg = proc[p].old /\ proc[p].temp = "none"
  /\ proc[p].pc = "rename" => proc[p].temp = "full"
  /\ proc[p].pc \in {"out", "stat", "marker"} => proc[p].fresh
  /\ proc[p].pc \in {"idle", "done"} => ~proc[p].fresh

DaemonInv ==
  /\ proc[Daemon].pc \notin {"stat", "done"}
  /\ socket = "live" => ~proc[Daemon].fresh

\* From the moment New has read the file, unless a command is under way by itself, nobody
\* but the daemon touches the marker; and unless a person edits, or the file either.
SyncInv ==
  ~raced /\ (proc[Daemon].pc = "marker" \/ ~proc[Daemon].fresh) =>
    /\ proc[Cli].pc # "out" => edited /\ ~proc[Cli].fresh /\ proc[Cli].pc # "idle"
    /\ ~proc[Daemon].fresh => proc[Daemon].erred \/ proc[Daemon].active = marker
    /\ ~edited => Loads(file) /\ Read(file) = Refilled(InForce(Daemon))

Inv == TypeInv /\ (\A p \in Process : ProcInv(p)) /\ DaemonInv /\ SyncInv

\* A step of one process leaves the other as it is.
LEMMA OneMoves ==
  ASSUME TypeInv, NEW p \in Process, NEW new \in ProcType, Set(p, new)
  PROVE  /\ proc'[p] = new
         /\ proc' \in [Process -> ProcType]
         /\ \A q \in Process \ {p} : proc'[q] = proc[q]
BY DEF TypeInv, Set

LEMMA EmptyIsGood == Good(Empty)
<1>1. Empty.tunnels = <<>> /\ Empty.rule = None /\ Empty.via = None
      /\ Empty.version = CurrentVersion
  BY DEF Empty, Doc
<1>2. Empty \in Docs
  BY TextAssumption, ResolversAssumption DEF Empty, Doc, Docs, CurrentVersion
<1>3. Valid(Empty)
  BY <1>1 DEF Valid
<1> QED
  BY <1>1, <1>2, <1>3 DEF Good

LEMMA OutIsTyped ==
  ASSUME NEW c, Good(c)
  PROVE  Out(c) \in ProcType
BY DEF Out, ProcType, Good

LEMMA InitInv == Init => Inv
<1> SUFFICES ASSUME Init PROVE Inv
  OBVIOUS
<1>1. Out(Empty) \in ProcType /\ Good(Empty)
  BY EmptyIsGood, OutIsTyped
<1>2. \A p \in Process : proc[p] = Out(Empty)
  BY DEF Init
<1>3. TypeInv
  BY <1>1, FileAssumption DEF Init, TypeInv
<1>4. Daemon \in Process /\ Cli \in Process
  BY DEF Process
<1> QED
  BY <1>1, <1>2, <1>3, <1>4
  DEF Init, Inv, ProcInv, DaemonInv, SyncInv, Out, Saving

-----------------------------------------------------------------------------
(* Every step preserves it. *)

LEMMA ProcessFacts ==
  /\ Daemon \in Process /\ Cli \in Process /\ Daemon # Cli
  /\ \A p \in Process : p # Daemon => p = Cli
BY ProcessAssumption DEF Process

\* What holds of a process of a known state.
LEMMA ProcFields ==
  ASSUME TypeInv, NEW p \in Process
  PROVE  /\ proc[p] \in ProcType
         /\ proc[p].pc \in Saving \cup {"out", "stat", "marker", "idle", "done"}
         /\ proc[p].fresh \in BOOLEAN /\ proc[p].active \in BOOLEAN
         /\ proc[p].cfg \in Docs /\ proc[p].old \in Docs
BY DEF TypeInv, ProcType

LEMMA CreateTempInv ==
  ASSUME Inv, NEW p \in Process, NEW ok \in BOOLEAN, CreateTemp(p, ok)
  PROVE  Inv'
<1> DEFINE new == [proc[p] EXCEPT !.pc = IF ok THEN "write" ELSE "remove",
                                  !.temp = IF ok THEN "part" ELSE "none"]
<1>1. new \in ProcType /\ new.fresh = proc[p].fresh /\ new.cfg = proc[p].cfg
      /\ new.old = proc[p].old /\ new.pc \in {"write", "remove"}
      /\ new.active = proc[p].active /\ new.erred = proc[p].erred
  BY DEF Inv, TypeInv, ProcType, Saving
<1>2. /\ proc'[p] = new
      /\ proc' \in [Process -> ProcType]
      /\ \A q \in Process \ {p} : proc'[q] = proc[q]
  <2> HIDE DEF new
  <2> QED BY <1>1, OneMoves DEF CreateTemp, Inv, new
<1> HIDE DEF new
<1> QED
  BY <1>1, <1>2, ProcessFacts
  DEF CreateTemp, Inv, TypeInv, ProcInv, DaemonInv, SyncInv, InForce, Saving

LEMMA WriteTempInv ==
  ASSUME Inv, NEW p \in Process, NEW ok \in BOOLEAN, WriteTemp(p, ok)
  PROVE  Inv'
<1> DEFINE new == [proc[p] EXCEPT !.pc = IF ok THEN "rename" ELSE "remove",
                                  !.temp = IF ok THEN "full" ELSE "part"]
<1>1. new \in ProcType /\ new.fresh = proc[p].fresh /\ new.cfg = proc[p].cfg
      /\ new.old = proc[p].old /\ new.pc \in {"rename", "remove"}
      /\ (new.pc = "rename" => new.temp = "full")
      /\ new.active = proc[p].active /\ new.erred = proc[p].erred
  BY DEF Inv, TypeInv, ProcType, Saving
<1>2. /\ proc'[p] = new
      /\ proc' \in [Process -> ProcType]
      /\ \A q \in Process \ {p} : proc'[q] = proc[q]
  <2> HIDE DEF new
  <2> QED BY <1>1, OneMoves DEF WriteTemp, Inv, new
<1> HIDE DEF new
<1> QED
  BY <1>1, <1>2, ProcessFacts
  DEF WriteTemp, Inv, TypeInv, ProcInv, DaemonInv, SyncInv, InForce, Saving

LEMMA GotoSets ==
  ASSUME TypeInv, NEW p \in Process, NEW pc, Goto(p, pc)
  PROVE  Set(p, [proc[p] EXCEPT !.pc = pc])
BY DEF TypeInv, ProcType, Goto, Set

\* A step that leaves the file, the marker and the socket alone, and what is in force.
LEMMA OwnStepInv ==
  ASSUME Inv, NEW p \in Process, NEW new \in ProcType, Set(p, new),
         UNCHANGED <<file, marker, socket, raced, edited>>,
         Good(new.cfg), Good(new.old),
         new.pc \notin Saving => new.cfg = new.old /\ new.temp = "none",
         new.pc = "rename" => new.temp = "full",
         new.pc \in Saving \cup {Returned(p)},
         new.fresh = proc[p].fresh, new.pc \notin Saving => ~new.fresh,
         new.active = proc[p].active, new.erred = proc[p].erred,
         proc[p].pc # "out", 
         InForce(p)' = InForce(p)
  PROVE  Inv'
<1>1. /\ proc'[p] = new
      /\ proc' \in [Process -> ProcType]
      /\ \A q \in Process \ {p} : proc'[q] = proc[q]
  BY OneMoves DEF Inv
<1>2. TypeInv'
  BY <1>1 DEF Inv, TypeInv
<1>3. \A q \in Process : ProcInv(q)'
  BY <1>1 DEF Inv, ProcInv, Saving, Returned
<1>4. DaemonInv'
  BY <1>1, ProcessFacts DEF Inv, DaemonInv, Saving, Returned
<1>5. InForce(Daemon)' = InForce(Daemon)
  BY <1>1, ProcessFacts DEF InForce
<1>6. SyncInv'
  BY <1>1, <1>5, ProcessFacts DEF Inv, SyncInv, ProcInv, Returned, Saving
<1> QED
  BY <1>2, <1>3, <1>4, <1>6 DEF Inv

LEMMA SaveInv ==
  ASSUME Inv, NEW p \in Process, NEW c, Save(p, c), Valid(c) => Good(c),
         proc[p].pc = "idle"
  PROVE  Inv'
<1>1. proc[p] \in ProcType /\ Good(proc[p].cfg) /\ ~proc[p].fresh
      /\ proc[p].cfg = proc[p].old /\ proc[p].temp = "none"
  BY DEF Inv, TypeInv, ProcInv, Saving
<1>2. CASE Valid(c)
  <2> DEFINE new == [proc[p] EXCEPT !.pc = "create", !.cfg = c]
  <2>1. Good(c)
    BY <1>2
  <2>2. new \in ProcType /\ new.cfg = c /\ new.old = proc[p].old /\ new.pc = "create"
        /\ new.fresh = proc[p].fresh /\ new.active = proc[p].active
        /\ new.erred = proc[p].erred
    BY <1>1, <2>1 DEF ProcType, Saving, Good
  <2>3. Set(p, new)
    BY <1>2 DEF Save
  <2>4. proc'[p] = new
    <3> HIDE DEF new
    <3> QED BY <2>2, <2>3, OneMoves DEF Inv
  <2> HIDE DEF new
  <2>5. InForce(p)' = InForce(p)
    BY <1>1, <2>2, <2>4 DEF InForce, Saving
  <2> QED
    BY <1>1, <2>1, <2>2, <2>3, <2>5, OwnStepInv DEF Save, Saving
<1>3. CASE ~Valid(c)
  <2> DEFINE new == [proc[p] EXCEPT !.pc = Returned(p)]
  <2>1. new \in ProcType /\ new.cfg = proc[p].cfg /\ new.old = proc[p].old
        /\ new.pc = Returned(p) /\ new.temp = "none"
        /\ new.fresh = proc[p].fresh /\ new.active = proc[p].active
        /\ new.erred = proc[p].erred
    BY <1>1 DEF ProcType, Returned
  <2>2. Set(p, new)
    BY <1>3, GotoSets DEF Save, Inv
  <2>3. proc'[p] = new
    <3> HIDE DEF new
    <3> QED BY <2>1, <2>2, OneMoves DEF Inv
  <2> HIDE DEF new
  <2>4. InForce(p)' = InForce(p)
    BY <1>1, <2>1, <2>3 DEF InForce, Saving, Returned
  <2>5. new.pc \notin Saving
    BY <2>1 DEF Saving, Returned
  <2> QED
    BY <1>1, <2>1, <2>2, <2>4, <2>5, OwnStepInv DEF Save, Saving
<1> QED
  BY <1>2, <1>3

\* A process that leaves.  The one that left is not under way any more.
LEMMA GoneInv ==
  ASSUME Inv, NEW p \in Process, NEW c, Good(c), Set(p, Out(c)),
         UNCHANGED <<file, marker, raced, edited>>,
         socket' = socket \/ socket' \in {"none", "stale"},
         p = Daemon => socket' \in {"none", "stale"}
  PROVE  Inv'
<1>1. Out(c) \in ProcType
  BY OutIsTyped
<1>2. /\ proc'[p] = Out(c)
      /\ proc' \in [Process -> ProcType]
      /\ \A q \in Process \ {p} : proc'[q] = proc[q]
  BY <1>1, OneMoves DEF Inv
<1>3. /\ Out(c).pc = "out" /\ Out(c).fresh = TRUE /\ Out(c).cfg = c /\ Out(c).old = c
      /\ Out(c).temp = "none"
  BY DEF Out
<1>4. TypeInv'
  BY <1>2 DEF Inv, TypeInv
<1>5. \A q \in Process : ProcInv(q)'
  BY <1>2, <1>3 DEF Inv, ProcInv, Saving
<1>6. DaemonInv'
  BY <1>2, <1>3, ProcessFacts DEF Inv, DaemonInv
<1>7. SyncInv'
  BY <1>2, <1>3, ProcessFacts DEF Inv, SyncInv, InForce
<1> QED
  BY <1>4, <1>5, <1>6, <1>7 DEF Inv

\* Nobody listens while New runs.
LEMMA FreshIsDeaf ==
  ASSUME Inv, proc[Daemon].fresh
  PROVE  socket \in {"none", "stale"}
BY DEF Inv, DaemonInv, TypeInv

LEMMA RemoveTempInv ==
  ASSUME Inv, NEW p \in Process, RemoveTemp(p)
  PROVE  Inv'
<1>1. proc[p] \in ProcType /\ Good(proc[p].old) /\ proc[p].pc = "remove"
  BY DEF Inv, TypeInv, ProcInv, RemoveTemp
<1>2. CASE proc[p].fresh
  <2>1. p = Daemon => socket \in {"none", "stale"}
    BY <1>2, FreshIsDeaf
  <2> QED
    BY <1>1, <1>2, <2>1, GoneInv DEF RemoveTemp
<1>3. CASE ~proc[p].fresh
  <2> DEFINE new == [proc[p] EXCEPT !.pc = Returned(p), !.cfg = proc[p].old,
                                    !.temp = "none"]
  <2>1. new \in ProcType /\ new.cfg = proc[p].old /\ new.old = proc[p].old
        /\ new.pc = Returned(p) /\ new.temp = "none" /\ ~new.fresh
        /\ new.fresh = proc[p].fresh /\ new.active = proc[p].active
        /\ new.erred = proc[p].erred
    BY <1>1, <1>3 DEF ProcType, Returned
  <2>2. Set(p, new)
    BY <1>3 DEF RemoveTemp
  <2>3. proc'[p] = new
    <3> HIDE DEF new
    <3> QED BY <2>1, <2>2, OneMoves DEF Inv
  <2> HIDE DEF new
  <2>4. InForce(p)' = InForce(p)
    BY <1>1, <2>1, <2>3 DEF InForce, Saving, Returned
  <2>5. new.pc \notin Saving
    BY <2>1 DEF Saving, Returned
  <2> QED
    BY <1>1, <1>3, <2>1, <2>2, <2>4, <2>5, OwnStepInv DEF RemoveTemp, Saving
<1> QED
  BY <1>2, <1>3

LEMMA RenameTempInv ==
  ASSUME Inv, NEW p \in Process, NEW ok \in BOOLEAN, RenameTemp(p, ok)
  PROVE  Inv'
<1> USE DEF Saving
<1>1. proc[p] \in ProcType /\ Good(proc[p].cfg) /\ Good(proc[p].old)
      /\ proc[p].pc = "rename" /\ proc[p].temp = "full"
  BY DEF Inv, TypeInv, ProcInv, RenameTemp
<1>2. CASE ok
  <2> DEFINE new == [proc[p] EXCEPT !.pc = IF proc[p].fresh THEN "marker" ELSE Returned(p),
                                    !.old = proc[p].cfg, !.temp = "none"]
  <2>1. new \in ProcType /\ new.cfg = proc[p].cfg /\ new.old = proc[p].cfg
        /\ new.pc = (IF proc[p].fresh THEN "marker" ELSE Returned(p)) /\ new.temp = "none"
        /\ new.fresh = proc[p].fresh /\ new.active = proc[p].active
        /\ new.erred = proc[p].erred
    BY <1>1 DEF ProcType, Returned, Good
  <2>2. Set(p, new) /\ file' = proc[p].cfg /\ Taken(p) /\ UNCHANGED <<marker, socket>>
    BY <1>1, <1>2 DEF RenameTemp
  <2> HIDE DEF new
  <2>3. /\ proc'[p] = new
        /\ proc' \in [Process -> ProcType]
        /\ \A q \in Process \ {p} : proc'[q] = proc[q]
    BY <2>1, <2>2, OneMoves DEF Inv
  <2>4. Loads(file') /\ Read(file') = Refilled(proc[p].cfg) /\ file' \in Files
    BY <1>1, <2>2, GoodReadsBack DEF Good, Files
  <2>5. new.fresh \in BOOLEAN /\ new.pc \in {"marker", "idle", "done"}
    BY <1>1, <2>1 DEF ProcType, Returned
  <2>6. TypeInv'
    BY <2>2, <2>3, <2>4 DEF Inv, TypeInv, Taken
  <2>7. \A q \in Process : ProcInv(q)'
    BY <1>1, <2>1, <2>3, <2>5 DEF Inv, ProcInv, Returned
  <2>8. DaemonInv'
    BY <2>1, <2>2, <2>3, ProcessFacts DEF Inv, DaemonInv, Returned
  <2>9. SyncInv'
    <3>1. CASE p = Daemon
      <4>1. InForce(Daemon)' = proc[p].cfg
        BY <2>1, <2>3, <2>5, <3>1 DEF InForce
      <4>2. raced' = (proc[Cli].pc # "out" \/ (raced /\ ~proc[p].fresh))
        BY <2>2, <3>1 DEF Taken
      <4>3. proc'[Cli] = proc[Cli]
        BY <2>3, <3>1, ProcessFacts
      <4> QED
        BY <2>1, <2>2, <2>3, <2>4, <3>1, <4>1, <4>2, <4>3 DEF Inv, SyncInv
    <3>2. CASE p = Cli
      <4>1. UNCHANGED <<raced, edited>> /\ proc'[Daemon] = proc[Daemon]
        BY <2>2, <2>3, <3>2, ProcessFacts DEF Taken
      <4> QED
        BY <1>1, <2>1, <2>2, <2>3, <3>2, <4>1, ProcessFacts
        DEF Inv, SyncInv, Returned
    <3> QED
      BY <3>1, <3>2, ProcessFacts
  <2> QED
    BY <2>6, <2>7, <2>8, <2>9 DEF Inv
<1>3. CASE ~ok
  <2> DEFINE new == [proc[p] EXCEPT !.pc = "remove"]
  <2>1. new \in ProcType /\ new.cfg = proc[p].cfg /\ new.old = proc[p].old
        /\ new.pc = "remove"
        /\ new.fresh = proc[p].fresh /\ new.active = proc[p].active
        /\ new.erred = proc[p].erred
    BY <1>1 DEF ProcType
  <2>2. Set(p, new)
    BY <1>3, GotoSets DEF RenameTemp, Inv
  <2> HIDE DEF new
  <2>3. proc'[p] = new
    BY <2>1, <2>2, OneMoves DEF Inv
  <2>4. InForce(p)' = InForce(p)
    BY <1>1, <2>1, <2>3 DEF InForce
  <2> QED
    BY <1>1, <1>3, <2>1, <2>2, <2>4, OwnStepInv DEF RenameTemp
<1> QED
  BY <1>2, <1>3

LEMMA NewInv ==
  ASSUME Inv, NEW p \in Process, New(p),
         IF p = Daemon THEN proc[p].pc = "out" ELSE proc[p].pc = "stat"
  PROVE  Inv'
<1> USE DEF Saving
<1>1. proc[p] \in ProcType /\ Good(proc[p].cfg) /\ Good(proc[p].old)
      /\ proc[p].fresh /\ proc[p].temp = "none"
  BY DEF Inv, TypeInv, ProcInv
<1>2. p = Daemon => socket \in {"none", "stale"}
  BY <1>1, FreshIsDeaf
<1>3. CASE ~Loads(file)
  BY <1>1, <1>2, <1>3, GoneInv DEF New
<1>4. ASSUME Loads(file)
      PROVE  /\ Good(Read(file)) /\ Read(file) \in Docs
             /\ Refilled(Read(file)) = Read(file)
  BY <1>4, LoadedIsGood, ReadIsFilled DEF Loads, Inv, TypeInv, Good
<1>5. CASE Loads(file) /\ Migrated(file)
  <2> DEFINE new == [proc[p] EXCEPT !.pc = "create", !.cfg = Read(file)]
  <2>1. new \in ProcType /\ new.cfg = Read(file) /\ new.old = proc[p].old
        /\ new.pc = "create" /\ new.fresh
    BY <1>1, <1>4, <1>5 DEF ProcType
  <2>2. Set(p, new) /\ UNCHANGED <<file, marker, socket, raced, edited>>
    BY <1>5 DEF New
  <2> HIDE DEF new
  <2>3. /\ proc'[p] = new
        /\ proc' \in [Process -> ProcType]
        /\ \A q \in Process \ {p} : proc'[q] = proc[q]
    BY <2>1, <2>2, OneMoves DEF Inv
  <2>4. TypeInv'
    BY <2>2, <2>3 DEF Inv, TypeInv
  <2>5. \A q \in Process : ProcInv(q)'
    BY <1>1, <1>4, <1>5, <2>1, <2>3 DEF Inv, ProcInv
  <2>6. DaemonInv'
    BY <1>2, <2>1, <2>2, <2>3, ProcessFacts DEF Inv, DaemonInv
  <2>7. SyncInv'
    BY <1>1, <2>1, <2>2, <2>3, ProcessFacts DEF Inv, SyncInv, InForce
  <2> QED
    BY <2>4, <2>5, <2>6, <2>7 DEF Inv
<1>6. CASE Loads(file) /\ ~Migrated(file)
  <2> DEFINE new == [proc[p] EXCEPT !.pc = "marker", !.cfg = Read(file), !.old = Read(file)]
  <2>1. new \in ProcType /\ new.cfg = Read(file) /\ new.old = Read(file)
        /\ new.pc = "marker" /\ new.fresh /\ new.temp = "none"
    BY <1>1, <1>4, <1>6 DEF ProcType
  <2>2. Set(p, new) /\ UNCHANGED <<file, marker, socket>> /\ Taken(p)
    BY <1>6 DEF New
  <2> HIDE DEF new
  <2>3. /\ proc'[p] = new
        /\ proc' \in [Process -> ProcType]
        /\ \A q \in Process \ {p} : proc'[q] = proc[q]
    BY <2>1, <2>2, OneMoves DEF Inv
  <2>4. TypeInv'
    BY <2>2, <2>3 DEF Inv, TypeInv, Taken
  <2>5. \A q \in Process : ProcInv(q)'
    BY <1>4, <1>6, <2>1, <2>3 DEF Inv, ProcInv
  <2>6. DaemonInv'
    BY <1>2, <2>1, <2>2, <2>3, ProcessFacts DEF Inv, DaemonInv
  <2>7. SyncInv'
    <3>1. CASE p = Daemon
      <4>1. InForce(Daemon)' = Read(file) /\ proc'[Daemon].fresh
        BY <2>1, <2>3, <3>1 DEF InForce
      <4>2. raced' = (proc'[Cli].pc # "out")
        BY <1>1, <2>2, <2>3, <3>1, ProcessFacts DEF Taken
      <4> QED
        BY <1>4, <1>6, <2>2, <4>1, <4>2 DEF SyncInv
    <3>2. CASE p = Cli
      <4>1. UNCHANGED <<raced, edited>> /\ proc'[Daemon] = proc[Daemon]
            /\ proc[Cli].pc # "out" /\ proc[Cli].fresh
        BY <1>1, <2>2, <2>3, <3>2, ProcessFacts DEF Taken
      <4> QED
        BY <4>1 DEF Inv, SyncInv
    <3> QED
      BY <3>1, <3>2, ProcessFacts
  <2> QED
    BY <2>4, <2>5, <2>6, <2>7 DEF Inv
<1> QED
  BY <1>3, <1>5, <1>6

LEMMA StatMarkerInv ==
  ASSUME Inv, NEW p \in Process, StatMarker(p)
  PROVE  Inv'
<1> USE DEF Saving
<1> DEFINE new == [proc[p] EXCEPT !.pc = "idle", !.fresh = FALSE, !.active = marker]
<1>1. proc[p] \in ProcType /\ proc[p].pc = "marker" /\ marker \in BOOLEAN
      /\ proc[p].fresh /\ proc[p].cfg = proc[p].old /\ proc[p].temp = "none"
  BY DEF Inv, TypeInv, ProcInv, StatMarker
<1>2. new \in ProcType /\ new.cfg = proc[p].cfg /\ new.old = proc[p].old
      /\ new.pc = "idle" /\ ~new.fresh /\ new.temp = proc[p].temp
      /\ new.active = marker
  BY <1>1 DEF ProcType
<1>3. Set(p, new) /\ UNCHANGED <<file, marker, socket, raced, edited>>
  BY DEF StatMarker
<1> HIDE DEF new
<1>4. /\ proc'[p] = new
      /\ proc' \in [Process -> ProcType]
      /\ \A q \in Process \ {p} : proc'[q] = proc[q]
  BY <1>2, <1>3, OneMoves DEF Inv
<1>5. TypeInv'
  BY <1>3, <1>4 DEF Inv, TypeInv
<1>6. \A q \in Process : ProcInv(q)'
  BY <1>1, <1>2, <1>4 DEF Inv, ProcInv
<1>7. DaemonInv'
  BY <1>2, <1>3, <1>4, ProcessFacts DEF Inv, DaemonInv
<1>8. SyncInv'
  BY <1>1, <1>2, <1>3, <1>4, ProcessFacts DEF Inv, SyncInv, InForce
<1> QED
  BY <1>5, <1>6, <1>7, <1>8 DEF Inv

LEMMA SetActiveInv ==
  ASSUME Inv, NEW p \in Process, NEW on \in BOOLEAN, NEW ok \in BOOLEAN,
         SetActive(p, on, ok), proc[p].pc = "idle"
  PROVE  Inv'
<1> USE DEF Saving
<1> DEFINE new == [proc[p] EXCEPT !.pc = Returned(p), !.active = on, !.erred = ~ok]
<1>1. proc[p] \in ProcType /\ ~proc[p].fresh
      /\ proc[p].cfg = proc[p].old /\ proc[p].temp = "none"
  BY DEF Inv, TypeInv, ProcInv
<1>2. new \in ProcType /\ new.cfg = proc[p].cfg /\ new.old = proc[p].old
      /\ new.pc = Returned(p) /\ ~new.fresh /\ new.temp = proc[p].temp
      /\ new.active = on /\ new.erred = ~ok
  BY <1>1 DEF ProcType, Returned
<1>3. Set(p, new) /\ UNCHANGED <<file, socket, raced, edited>>
      /\ marker' \in BOOLEAN /\ (ok => marker' = on)
  BY DEF SetActive, Inv, TypeInv
<1> HIDE DEF new
<1>4. /\ proc'[p] = new
      /\ proc' \in [Process -> ProcType]
      /\ \A q \in Process \ {p} : proc'[q] = proc[q]
  BY <1>2, <1>3, OneMoves DEF Inv
<1>5. TypeInv'
  BY <1>3, <1>4 DEF Inv, TypeInv
<1>6. \A q \in Process : ProcInv(q)'
  BY <1>1, <1>2, <1>4 DEF Inv, ProcInv, Returned
<1>7. DaemonInv'
  BY <1>2, <1>3, <1>4, ProcessFacts DEF Inv, DaemonInv, Returned
<1>8. SyncInv'
  <2>1. InForce(Daemon)' = InForce(Daemon)
    BY <1>1, <1>2, <1>4, ProcessFacts DEF InForce, Returned
  <2>2. CASE p = Daemon
    BY <1>1, <1>2, <1>3, <1>4, <2>1, <2>2, ProcessFacts DEF Inv, SyncInv, Returned
  <2>3. CASE p = Cli
    BY <1>1, <1>2, <1>3, <1>4, <2>1, <2>3, ProcessFacts DEF Inv, SyncInv, Returned
  <2> QED
    BY <2>2, <2>3, ProcessFacts
<1> QED
  BY <1>5, <1>6, <1>7, <1>8 DEF Inv

LEMMA ListenInv ==
  ASSUME Inv, NEW ok \in BOOLEAN, Listen(ok)
  PROVE  Inv'
<1>1. Daemon \in Process /\ proc[Daemon].pc = "idle" /\ ~proc[Daemon].fresh
      /\ Good(proc[Daemon].cfg) /\ socket \in {"none", "stale"}
  BY ProcessFacts DEF Inv, TypeInv, ProcInv, Listen
<1>2. CASE ok
  <2>1. socket' = "live" /\ UNCHANGED <<file, marker, proc, raced, edited>>
    BY <1>2 DEF Listen
  <2> QED
    BY <1>1, <2>1 DEF Inv, TypeInv, ProcInv, DaemonInv, SyncInv, InForce
<1>3. CASE ~ok
  BY <1>1, <1>3, GoneInv DEF Listen
<1> QED
  BY <1>2, <1>3

LEMMA ExitInv == ASSUME Inv, Exit PROVE Inv'
<1>1. Daemon \in Process /\ Good(InForce(Daemon))
  BY ProcessFacts DEF Inv, ProcInv, InForce
<1>2. socket' \in {"none", "stale"}
  BY DEF Inv, TypeInv, Exit
<1> QED
  BY <1>1, <1>2, GoneInv DEF Exit

LEMMA LeaveInv == ASSUME Inv, Leave PROVE Inv'
BY EmptyIsGood, GoneInv, ProcessFacts DEF Leave

LEMMA ReloadInv == ASSUME Inv, Reload PROVE Inv'
<1> USE DEF Saving
<1> DEFINE new == [proc[Daemon] EXCEPT !.cfg = Read(file), !.old = Read(file)]
<1>1. Daemon \in Process /\ proc[Daemon] \in ProcType /\ proc[Daemon].pc = "idle"
      /\ ~proc[Daemon].fresh /\ proc[Daemon].temp = "none"
  BY ProcessFacts DEF Inv, TypeInv, ProcInv, Reload, Served
<1>2. /\ Loads(file) /\ Good(Read(file)) /\ Read(file) \in Docs
      /\ Refilled(Read(file)) = Read(file)
  BY LoadedIsGood, ReadIsFilled DEF Reload, Loads, Inv, TypeInv, Good
<1>3. new \in ProcType /\ new.cfg = Read(file) /\ new.old = Read(file)
      /\ new.pc = "idle" /\ ~new.fresh /\ new.temp = "none"
      /\ new.active = proc[Daemon].active /\ new.erred = proc[Daemon].erred
  BY <1>1, <1>2 DEF ProcType
<1>4. Set(Daemon, new) /\ UNCHANGED <<file, marker, socket>> /\ Taken(Daemon)
  BY DEF Reload
<1> HIDE DEF new
<1>5. /\ proc'[Daemon] = new
      /\ proc' \in [Process -> ProcType]
      /\ \A q \in Process \ {Daemon} : proc'[q] = proc[q]
  BY <1>1, <1>3, <1>4, OneMoves DEF Inv
<1>6. TypeInv'
  BY <1>4, <1>5 DEF Inv, TypeInv, Taken
<1>7. \A q \in Process : ProcInv(q)'
  BY <1>2, <1>3, <1>5 DEF Inv, ProcInv
<1>8. DaemonInv'
  BY <1>3, <1>4, <1>5, ProcessFacts DEF Inv, DaemonInv
<1>9. SyncInv'
  <2>1. InForce(Daemon)' = Read(file)
    BY <1>3, <1>5 DEF InForce
  <2>2. raced' = (proc[Cli].pc # "out" \/ (raced /\ ~proc[Daemon].fresh))
    BY <1>4 DEF Taken
  <2>3. proc'[Cli] = proc[Cli]
    BY <1>5, ProcessFacts
  <2> QED
    BY <1>1, <1>2, <1>3, <1>4, <1>5, <2>1, <2>2, <2>3 DEF Inv, SyncInv
<1> QED
  BY <1>6, <1>7, <1>8, <1>9 DEF Inv

LEMMA ConnectInv == ASSUME Inv, Connect PROVE Inv'
<1> DEFINE new == [proc[Cli] EXCEPT !.pc = "stat"]
<1>1. Cli \in Process /\ proc[Cli] \in ProcType /\ proc[Cli].pc = "out"
      /\ proc[Cli].fresh /\ proc[Cli].cfg = proc[Cli].old /\ proc[Cli].temp = "none"
      /\ Good(proc[Cli].cfg)
  BY ProcessFacts DEF Inv, TypeInv, ProcInv, Connect, Saving
<1>2. new \in ProcType /\ new.cfg = proc[Cli].cfg /\ new.old = proc[Cli].old
      /\ new.pc = "stat" /\ new.fresh /\ new.temp = "none"
  BY <1>1 DEF ProcType
<1>3. Set(Cli, new) /\ UNCHANGED <<file, marker, socket, edited>>
      /\ raced' = (raced \/ proc[Daemon].pc # "out")
  BY <1>1, GotoSets DEF Connect, Inv
<1> HIDE DEF new
<1>4. /\ proc'[Cli] = new
      /\ proc' \in [Process -> ProcType]
      /\ \A q \in Process \ {Cli} : proc'[q] = proc[q]
  BY <1>1, <1>2, <1>3, OneMoves DEF Inv
<1>5. TypeInv'
  BY <1>3, <1>4 DEF Inv, TypeInv
<1>6. \A q \in Process : ProcInv(q)'
  BY <1>1, <1>2, <1>4 DEF Inv, ProcInv, Saving
<1>7. DaemonInv'
  BY <1>3, <1>4, ProcessFacts DEF Inv, DaemonInv
<1>8. SyncInv'
  BY <1>3, <1>4, ProcessFacts DEF Inv, SyncInv, ProcInv
<1> QED
  BY <1>5, <1>6, <1>7, <1>8 DEF Inv

LEMMA WriteDefaultInv == ASSUME Inv, WriteDefault PROVE Inv'
<1> DEFINE new == [Out(Empty) EXCEPT !.pc = "create", !.fresh = FALSE, !.cfg = DefaultConfig]
<1>1. Cli \in Process /\ Good(DefaultConfig) /\ DefaultConfig \in Docs /\ Good(Empty)
      /\ Out(Empty) \in ProcType
  BY ProcessFacts, FileAssumption, EmptyIsGood, OutIsTyped
  DEF Good, DefaultConfig, Doc
<1>2. new \in ProcType /\ new.cfg = DefaultConfig /\ new.old = Empty
      /\ new.pc = "create" /\ ~new.fresh
  BY <1>1 DEF ProcType, Out, Saving
<1>3. Set(Cli, new) /\ UNCHANGED <<file, marker, socket, raced, edited>> /\ file = NoFile
  BY DEF WriteDefault
<1> HIDE DEF new
<1>4. /\ proc'[Cli] = new
      /\ proc' \in [Process -> ProcType]
      /\ \A q \in Process \ {Cli} : proc'[q] = proc[q]
  BY <1>1, <1>2, <1>3, OneMoves DEF Inv
<1>5. TypeInv'
  BY <1>3, <1>4 DEF Inv, TypeInv
<1>6. \A q \in Process : ProcInv(q)'
  BY <1>1, <1>2, <1>4 DEF Inv, ProcInv, Saving
<1>7. DaemonInv'
  BY <1>3, <1>4, ProcessFacts DEF Inv, DaemonInv
<1>8. SyncInv'
  <2>1. proc'[Daemon] = proc[Daemon] /\ InForce(Daemon)' = InForce(Daemon)
    BY <1>4, ProcessFacts DEF InForce
  <2>2. ~Loads(file)
    BY <1>3 DEF Loads
  <2> QED
    BY <1>2, <1>3, <1>4, <2>1, <2>2 DEF Inv, SyncInv
<1> QED
  BY <1>5, <1>6, <1>7, <1>8 DEF Inv

LEMMA HandEditInv == ASSUME Inv, HandEdit PROVE Inv'
BY FileAssumption DEF HandEdit, Inv, TypeInv, ProcInv, DaemonInv, SyncInv, InForce

LEMMA CommandInv == ASSUME Inv, Command PROVE Inv'
<1>1. Cli \in Process /\ Good(proc[Cli].cfg) /\ proc[Cli].pc = "idle"
  BY ProcessFacts DEF Inv, ProcInv, Command
<1>2. ASSUME NEW n \in Targets, Save(Cli, [proc[Cli].cfg EXCEPT !.rule = n])
      PROVE  Inv'
  <2>1. n \in Text
    BY FileAssumption
  <2>2. Valid([proc[Cli].cfg EXCEPT !.rule = n]) => Good([proc[Cli].cfg EXCEPT !.rule = n])
    BY <1>1, <2>1, RetargetedInForm DEF Good
  <2> QED
    BY <1>1, <1>2, <2>2, SaveInv
<1>3. ASSUME NEW on \in BOOLEAN, NEW ok \in BOOLEAN, SetActive(Cli, on, ok)
      PROVE  Inv'
  BY <1>1, <1>3, SetActiveInv
<1> QED
  BY <1>2, <1>3 DEF Command

LEMMA RequestInv == ASSUME Inv, Request PROVE Inv'
<1>1. Daemon \in Process /\ Good(Cfg)
  BY ProcessFacts DEF Inv, ProcInv, Cfg
<1>2. ASSUME NEW c, Edit(c), Valid(c) => Good(c) PROVE Inv'
  BY <1>1, <1>2, SaveInv DEF Edit, Served
<1>3. ASSUME NEW t \in Drafts, Edit(Upserted(Cfg, t)) PROVE Inv'
  <2>1. t \in TunnelSet
    BY FileAssumption
  <2>2. Valid(Upserted(Cfg, t)) => Good(Upserted(Cfg, t))
    BY <1>1, <2>1, UpsertedInForm DEF Good
  <2> QED
    BY <1>2, <1>3, <2>2
<1>4. ASSUME NEW n \in Names(Cfg), Edit(Without(Cfg, n)) PROVE Inv'
  <2>1. Valid(Without(Cfg, n)) => Good(Without(Cfg, n))
    BY <1>1, WithoutInForm DEF Good
  <2> QED
    BY <1>2, <1>4, <2>1
<1>5. ASSUME NEW n \in Targets, Edit([Cfg EXCEPT !.rule = n]) PROVE Inv'
  <2>1. n \in Text
    BY FileAssumption
  <2>2. Valid([Cfg EXCEPT !.rule = n]) => Good([Cfg EXCEPT !.rule = n])
    BY <1>1, <2>1, RetargetedInForm DEF Good
  <2> QED
    BY <1>2, <1>5, <2>2
<1>6. ASSUME NEW list \in Lists, Edit([Cfg EXCEPT !.fallback = list]) PROVE Inv'
  <2>1. list \in Resolvers
    BY FileAssumption
  <2>2. Valid([Cfg EXCEPT !.fallback = list]) => Good([Cfg EXCEPT !.fallback = list])
    BY <1>1, <2>1, ResolversInForm DEF Good
  <2> QED
    BY <1>2, <1>6, <2>2
<1>7. ASSUME NEW on \in BOOLEAN, NEW ok \in BOOLEAN, Served /\ SetActive(Daemon, on, ok)
      PROVE  Inv'
  BY <1>1, <1>7, SetActiveInv DEF Served
<1> QED
  BY <1>3, <1>4, <1>5, <1>6, <1>7, ReloadInv DEF Request

-----------------------------------------------------------------------------
(* What is in force, and the file. *)

LEMMA NextInv == Inv /\ [Next]_vars => Inv'
<1> SUFFICES ASSUME Inv, [Next]_vars PROVE Inv'
  OBVIOUS
<1>1. CASE Change
  BY <1>1, RequestInv, CommandInv, WriteDefaultInv, HandEditInv DEF Change
<1>2. CASE Run
  <2>1. ASSUME NEW p \in Process, EngineStep(p) PROVE Inv'
    BY <2>1, CreateTempInv, WriteTempInv, RenameTempInv, RemoveTempInv, StatMarkerInv
    DEF EngineStep
  <2>2. CASE StartDaemon
    BY <2>2, NewInv, ProcessFacts DEF StartDaemon
  <2>3. CASE Open
    BY <2>3, NewInv, ProcessFacts DEF Open
  <2> QED
    BY <1>2, <2>1, <2>2, <2>3, ListenInv, ExitInv, ConnectInv, LeaveInv DEF Run
<1>3. CASE UNCHANGED vars
  BY <1>3 DEF vars, Inv, TypeInv, ProcInv, DaemonInv, SyncInv, InForce
<1> QED
  BY <1>1, <1>2, <1>3 DEF Next

\* Whatever the files hold, only valid configurations are ever in force or saved, and a
\* failed or interrupted save leaves none of its state behind.
THEOREM ClientsType == Spec => []ClientsTypeOK
<1>1. Init => changes \in 0..MaxChanges
  BY ProcessAssumption DEF Init
<1>2. changes \in 0..MaxChanges /\ [Next]_vars => (changes \in 0..MaxChanges)'
  BY ProcessAssumption DEF Next, Change, vars
<1>3. Inv /\ changes \in 0..MaxChanges => ClientsTypeOK
  BY DEF Inv, TypeInv, ProcInv, DaemonInv, ProcType, ClientsTypeOK, Good
<1> QED
  BY <1>1, <1>2, <1>3, InitInv, NextInv, PTL DEF Spec

\* Unless a person or a direct command has come in between, a serving daemon has in force
\* what it would read back after a restart, but for an empty list of resolvers, which comes
\* back as the public ones; and the same active flag, unless its last start or stop has
\* reported an error.
THEOREM ClientsInSync == Spec => []InSync
<1>1. Inv => InSync
  BY DEF Inv, DaemonInv, SyncInv, InSync
<1> QED
  BY <1>1, InitInv, NextInv, PTL DEF Spec

\* However many VPNs an old file has and whatever they are called: if it is one as its
\* documentation has it, it loads, with the corporate tunnel in its table and the rules on it.
THEOREM OldFilesMigrate == Spec => []MigrationLoads
<1>1. Inv => MigrationLoads
  <2> SUFFICES ASSUME Inv, file \notin {NoFile, Garbage}, "vpns" \in DOMAIN file, Proper(file)
               PROVE  LET c == Read(file) IN
                      /\ Loads(file) /\ Len(c.tunnels) = Len(file.vpns)
                      /\ \A i \in DOMAIN file.vpns :
                           file.vpns[i].corp =>
                             /\ c.tunnels[i].table = CorpTable(file)
                             /\ file.networks => c.rule = c.tunnels[i].name
                             /\ file.domains => c.via = c.tunnels[i].name
    BY DEF MigrationLoads
  <2>1. file \in LegacyFiles
    BY DEF Inv, TypeInv, Files, Docs
  <2>2. /\ Loads(file)
        /\ Read(file).tunnels = [i \in DOMAIN file.vpns |-> MigratedTunnel(file, i)]
        /\ \A c \in DOMAIN file.vpns :
             file.vpns[c].corp => /\ MigratedTable(file, c) = CorpTable(file)
                                  /\ CorpName(file) = MigratedName(file.vpns[c])
        /\ file.networks => Read(file).rule = CorpName(file)
        /\ file.domains => Read(file).via = CorpName(file)
    BY <2>1, ProperLoads
  <2>3. Len(Read(file).tunnels) = Len(file.vpns)
    <3>1. DOMAIN file.vpns = 1..Len(file.vpns) /\ Len(file.vpns) \in Nat
      BY <2>1 DEF LegacyFiles
    <3>2. Read(file) \in Docs
      BY <2>1, MigratedIsComplete, MigrateInForm, RefilledFacts
    <3>3. Read(file).tunnels \in Seq(TunnelSet)
      BY <3>2 DEF Docs
    <3>4. DOMAIN Read(file).tunnels = 1..Len(file.vpns)
      BY <2>2, <3>1
    <3> QED
      BY <3>1, <3>3, <3>4
  <2>4. \A i \in DOMAIN file.vpns :
          /\ Read(file).tunnels[i].name = MigratedName(file.vpns[i])
          /\ Read(file).tunnels[i].table = MigratedTable(file, i)
    BY <2>2 DEF MigratedTunnel, Tunnel
  <2> QED
    BY <2>2, <2>3, <2>4
<1> QED
  BY <1>1, InitInv, NextInv, PTL DEF Spec

\* No step of a program, failing or not, turns a file that loads into one that does not.
THEOREM FileStaysLoadable == Spec => StaysLoadable
<1>1. Inv /\ [Next]_vars => [Loads(file) => Loads(file') \/ HandEdit]_vars
  <2> SUFFICES ASSUME Inv, [Next]_vars, Loads(file), ~HandEdit PROVE Loads(file')
    OBVIOUS
  <2>1. ASSUME NEW p \in Process, NEW ok \in BOOLEAN, RenameTemp(p, ok)
        PROVE  Loads(file')
    <3>1. proc[p].temp = "full" /\ Good(proc[p].cfg)
      BY <2>1 DEF Inv, ProcInv, RenameTemp
    <3> QED
      BY <2>1, <3>1, GoodReadsBack DEF RenameTemp
  <2>2. ASSUME NEW p \in Process, EngineStep(p) PROVE Loads(file')
    BY <2>1, <2>2 DEF EngineStep, CreateTemp, WriteTemp, RemoveTemp, StatMarker
  <2>3. CASE Run
    BY <2>2, <2>3
    DEF Run, StartDaemon, New, Listen, Exit, Connect, Open, Leave
  <2>4. CASE Change
    BY <2>4
    DEF Change, Request, Edit, Save, SetActive, Reload, Command, WriteDefault
  <2>5. CASE UNCHANGED vars
    BY <2>5 DEF vars
  <2> QED
    BY <2>3, <2>4, <2>5 DEF Next
<1> QED
  BY <1>1, InitInv, NextInv, PTL DEF Spec, StaysLoadable

-----------------------------------------------------------------------------
(* Tables. *)

\* A tunnel of the one that is in the other is in the same table, or where a client has
\* asked for it to be.
Keeps(old, new) ==
  \A i \in DOMAIN old.tunnels, j \in DOMAIN new.tunnels :
    LET t == new.tunnels[j].table IN
    old.tunnels[i].name = new.tunnels[j].name =>
      \/ t = old.tunnels[i].table
      \/ \E d \in Drafts : d.name = new.tunnels[j].name /\ d.table = t

LEMMA KeepsSame ==
  ASSUME NEW old, Good(old), NEW new, new.tunnels = old.tunnels
  PROVE  Keeps(old, new)
BY DEF Good, Valid, Keeps

LEMMA UpsertedKeeps ==
  ASSUME NEW c, Good(c), NEW t \in Drafts
  PROVE  Keeps(c, Upserted(c, t))
<1>1. c.tunnels \in Seq(TunnelSet) /\ c \in Docs /\ t \in TunnelSet
  BY FileAssumption DEF Good, Docs
<1>2. \A i, j \in DOMAIN c.tunnels : c.tunnels[i].name = c.tunnels[j].name => i = j
  BY DEF Good, Valid
<1>3. ASSUME NEW table
      PROVE  /\ Placed(t, table).name = t.name
             /\ Placed(t, table).table = (IF t.table = 0 THEN table ELSE t.table)
  BY <1>1 DEF Placed, TunnelSet
<1>4. CASE t.name \in Names(c)
  <2> DEFINE k == At(c, t.name)
             u == Placed(t, c.tunnels[k].table)
             new == [c.tunnels EXCEPT ![k] = u]
  <2>1. k \in DOMAIN c.tunnels /\ c.tunnels[k].name = t.name
    BY <1>4 DEF Names, At
  <2>2. u.name = t.name /\ u.table \in {c.tunnels[k].table, t.table}
    BY <1>3
  <2>3. Upserted(c, t) = [c EXCEPT !.tunnels = new]
    BY <1>1, <1>4 DEF Upserted, Docs
  <2> HIDE DEF u
  <2>4. DOMAIN new = DOMAIN c.tunnels /\ new[k] = u
        /\ \A j \in DOMAIN c.tunnels \ {k} : new[j] = c.tunnels[j]
    <3> HIDE DEF k
    <3> QED BY <1>1, <2>1
  <2> HIDE DEF new, k
  <2>5. Upserted(c, t).tunnels = new
    BY <1>1, <2>3 DEF Docs
  <2> QED
    BY <1>2, <2>1, <2>2, <2>4, <2>5 DEF Keeps
<1>5. CASE t.name \notin Names(c)
  <2> DEFINE u == Placed(t, FreeTableID(c))
             new == Append(c.tunnels, u)
  <2>1. Upserted(c, t) = [c EXCEPT !.tunnels = new]
    BY <1>5 DEF Upserted
  <2>2. u.name = t.name
    BY <1>3
  <2> HIDE DEF u
  <2>3. \A j \in DOMAIN new : IF j \in DOMAIN c.tunnels THEN new[j] = c.tunnels[j]
                                                        ELSE new[j] = u
    BY <1>1
  <2> HIDE DEF new
  <2>4. Upserted(c, t).tunnels = new
    BY <1>1, <2>1 DEF Docs
  <2> QED
    BY <1>2, <1>5, <2>2, <2>3, <2>4 DEF Keeps, Names
<1> QED
  BY <1>4, <1>5

\* What is left of a sequence was in it.
LEMMA RemoveAtKeeps ==
  ASSUME NEW s \in Seq(TunnelSet), NEW k \in DOMAIN s
  PROVE  \A j \in DOMAIN RemoveAt(s, k) : \E i \in DOMAIN s : RemoveAt(s, k)[j] = s[i]
<1> DEFINE a == SubSeq(s, 1, k - 1)
           b == SubSeq(s, k + 1, Len(s))
<1>1. k \in Nat \ {0} /\ k <= Len(s) /\ Len(s) \in Nat
  OBVIOUS
<1>2. a \in Seq(TunnelSet) /\ Len(a) = k - 1 /\ \A j \in 1..(k - 1) : a[j] = s[j]
  BY <1>1
<1>3. b \in Seq(TunnelSet) /\ Len(b) = Len(s) - k
      /\ \A j \in 1..(Len(s) - k) : b[j] = s[j + k]
  BY <1>1
<1> HIDE DEF a, b
<1>4. ASSUME NEW j \in DOMAIN (a \o b) PROVE \E i \in DOMAIN s : (a \o b)[j] = s[i]
  <2>1. j \in 1..(Len(s) - 1)
    BY <1>1, <1>2, <1>3
  <2>2. CASE j <= k - 1
    BY <1>1, <1>2, <1>3, <2>1, <2>2
  <2>3. CASE j > k - 1
    <3>1. (a \o b)[j] = b[j - (k - 1)]
      BY <1>1, <1>2, <1>3, <2>1, <2>3
    <3>2. b[j - (k - 1)] = s[j + 1]
      <4>1. j - (k - 1) \in 1..(Len(s) - k) /\ (j - (k - 1)) + k = j + 1
        BY <1>1, <2>1, <2>3
      <4> QED BY <1>3, <4>1
    <3> QED
      BY <1>1, <2>1, <3>1, <3>2
  <2> QED
    BY <1>1, <2>1, <2>2, <2>3
<1> QED
  BY <1>4 DEF RemoveAt, a, b

LEMMA WithoutKeeps ==
  ASSUME NEW c, Good(c), NEW n \in Names(c)
  PROVE  Keeps(c, Without(c, n))
<1> DEFINE k == At(c, n)
           new == RemoveAt(c.tunnels, k)
<1>1. c.tunnels \in Seq(TunnelSet) /\ c \in Docs
  BY DEF Good, Docs
<1>2. \A i, j \in DOMAIN c.tunnels : c.tunnels[i].name = c.tunnels[j].name => i = j
  BY DEF Good, Valid
<1>3. k \in DOMAIN c.tunnels
  BY DEF Names, At
<1>4. \A j \in DOMAIN new : \E i \in DOMAIN c.tunnels : new[j] = c.tunnels[i]
  <2> HIDE DEF k
  <2> QED BY <1>1, <1>3, RemoveAtKeeps
<1>5. Without(c, n).tunnels = new
  <2> HIDE DEF k
  <2>1. Without(c, n) = [c EXCEPT !.tunnels = new]
    BY DEF Without, k
  <2> HIDE DEF new
  <2> QED BY <1>1, <2>1 DEF Docs
<1> HIDE DEF new
<1> QED
  BY <1>2, <1>4, <1>5 DEF Keeps

\* What a daemon is saving keeps the tables.  Unless a direct command or a person has come
\* in between, the tunnels of the file are those the daemon has, or had, in force: it
\* reads them back after a restart, and a command without a daemon works on them.
TablesInv ==
  /\ proc[Daemon].pc \in Saving /\ ~proc[Daemon].fresh
       => Keeps(proc[Daemon].old, proc[Daemon].cfg)
  /\ ~raced /\ ~edited =>
       /\ Loads(file) /\ Read(file).tunnels = InForce(Daemon).tunnels
       /\ proc[Daemon].pc \in Saving /\ proc[Daemon].fresh
            => proc[Daemon].cfg.tunnels = proc[Daemon].old.tunnels
       /\ proc[Cli].pc \in Saving \cup {"marker", "idle"}
            => proc[Cli].cfg.tunnels = InForce(Daemon).tunnels

\* A step of the daemon, and a step of the command line.
LEMMA DaemonMoves ==
  ASSUME Inv, NEW new, Set(Daemon, new)
  PROVE  proc'[Daemon] = new /\ proc'[Cli] = proc[Cli]
BY ProcessFacts DEF Inv, TypeInv, Set

LEMMA CliMoves ==
  ASSUME Inv, NEW new, Set(Cli, new)
  PROVE  proc'[Cli] = new /\ proc'[Daemon] = proc[Daemon]
         /\ InForce(Daemon)' = InForce(Daemon)
BY ProcessFacts DEF Inv, TypeInv, Set, InForce

LEMMA InitTables == Init => TablesInv
BY ProcessFacts DEF Init, TablesInv, Out, Saving

\* New, by the daemon.
LEMMA StartDaemonTables ==
  ASSUME Inv, TablesInv, StartDaemon
  PROVE  TablesInv'
<1> USE DEF Saving
<1>1. proc[Daemon] \in ProcType /\ proc[Daemon].pc = "out" /\ proc[Daemon].fresh
      /\ proc[Daemon].cfg = proc[Daemon].old /\ UNCHANGED file
  BY ProcessFacts DEF Inv, TypeInv, ProcInv, StartDaemon, New
<1>2. CASE ~Loads(file)
  <2>1. proc'[Daemon] = Out(proc[Daemon].cfg) /\ proc'[Cli] = proc[Cli]
        /\ UNCHANGED <<raced, edited>>
    BY <1>2, DaemonMoves DEF StartDaemon, New
  <2> QED
    BY <1>1, <1>2, <2>1 DEF TablesInv, Out, InForce
<1>3. CASE Loads(file) /\ Migrated(file)
  <2> DEFINE new == [proc[Daemon] EXCEPT !.pc = "create", !.cfg = Read(file)]
  <2>1. new.pc = "create" /\ new.fresh /\ new.cfg = Read(file) /\ new.old = proc[Daemon].old
    BY <1>1 DEF ProcType
  <2>2. proc'[Daemon] = new /\ proc'[Cli] = proc[Cli] /\ UNCHANGED <<raced, edited>>
    BY <1>3, DaemonMoves DEF StartDaemon, New
  <2> HIDE DEF new
  <2> QED
    BY <1>1, <1>3, <2>1, <2>2 DEF TablesInv, InForce
<1>4. CASE Loads(file) /\ ~Migrated(file)
  <2> DEFINE new == [proc[Daemon] EXCEPT !.pc = "marker", !.cfg = Read(file),
                                         !.old = Read(file)]
  <2>1. new.pc = "marker" /\ new.cfg = Read(file)
    BY <1>1 DEF ProcType
  <2>2. proc'[Daemon] = new /\ proc'[Cli] = proc[Cli] /\ Taken(Daemon)
    BY <1>4, DaemonMoves DEF StartDaemon, New
  <2> HIDE DEF new
  <2>3. raced' \/ proc'[Cli].pc = "out"
    BY <2>2 DEF Taken
  <2> QED
    BY <1>1, <1>4, <2>1, <2>2, <2>3 DEF TablesInv, InForce
<1> QED
  BY <1>2, <1>3, <1>4

\* New, by a command.
LEMMA OpenTables ==
  ASSUME Inv, TablesInv, Open
  PROVE  TablesInv'
<1> USE DEF Saving
<1>1. proc[Cli] \in ProcType /\ UNCHANGED <<file, raced, edited>>
  BY ProcessFacts DEF Inv, TypeInv, Open, New, Taken
<1>2. \E new : Set(Cli, new) /\ (new.pc \in Saving \cup {"marker", "idle"}
                                   => new.cfg = Read(file))
  <2>1. CASE ~Loads(file)
    <3>1. Set(Cli, Out(proc[Cli].cfg))
      BY <2>1 DEF Open, New
    <3> QED
      BY <3>1 DEF Out
  <2>2. CASE Loads(file) /\ Migrated(file)
    <3> DEFINE new == [proc[Cli] EXCEPT !.pc = "create", !.cfg = Read(file)]
    <3>1. Set(Cli, new) /\ new.cfg = Read(file)
      BY <1>1, <2>2 DEF Open, New, ProcType
    <3> QED
      BY <3>1
  <2>3. CASE Loads(file) /\ ~Migrated(file)
    <3> DEFINE new == [proc[Cli] EXCEPT !.pc = "marker", !.cfg = Read(file),
                                        !.old = Read(file)]
    <3>1. Set(Cli, new) /\ new.cfg = Read(file)
      BY <1>1, <2>3 DEF Open, New, ProcType
    <3> QED
      BY <3>1
  <2> QED
    BY <2>1, <2>2, <2>3
<1>3. /\ proc'[Daemon] = proc[Daemon] /\ InForce(Daemon)' = InForce(Daemon)
      /\ proc'[Cli].pc \in Saving \cup {"marker", "idle"} => proc'[Cli].cfg = Read(file)
  BY <1>2, CliMoves
<1> QED
  BY <1>1, <1>3 DEF TablesInv

\* An edit of the daemon, and the steps that save it.
LEMMA SaveTables ==
  ASSUME Inv, TablesInv, NEW c, Save(Daemon, c), proc[Daemon].pc = "idle",
         Keeps(proc[Daemon].cfg, c)
  PROVE  TablesInv'
<1> USE DEF Saving
<1>1. proc[Daemon] \in ProcType /\ ~proc[Daemon].fresh /\ proc[Daemon].cfg = proc[Daemon].old
      /\ UNCHANGED <<file, raced, edited>>
  BY ProcessFacts DEF Inv, TypeInv, ProcInv, Save
<1>2. CASE Valid(c)
  <2> DEFINE new == [proc[Daemon] EXCEPT !.pc = "create", !.cfg = c]
  <2>1. new.pc = "create" /\ ~new.fresh /\ new.cfg = c /\ new.old = proc[Daemon].old
    BY <1>1 DEF ProcType
  <2>2. proc'[Daemon] = new /\ proc'[Cli] = proc[Cli]
    BY <1>2, DaemonMoves DEF Save
  <2> HIDE DEF new
  <2> QED
    BY <1>1, <2>1, <2>2 DEF TablesInv, InForce
<1>3. CASE ~Valid(c)
  <2> DEFINE new == [proc[Daemon] EXCEPT !.pc = "idle"]
  <2>1. new.pc = "idle" /\ new.cfg = proc[Daemon].cfg
    BY <1>1 DEF ProcType
  <2>2. Set(Daemon, new)
    BY <1>3, GotoSets, ProcessFacts DEF Save, Returned, Inv
  <2>3. proc'[Daemon] = new /\ proc'[Cli] = proc[Cli]
    BY <2>2, DaemonMoves
  <2> HIDE DEF new
  <2> QED
    BY <1>1, <2>1, <2>3 DEF TablesInv, InForce
<1> QED
  BY <1>2, <1>3

LEMMA RequestTables ==
  ASSUME Inv, TablesInv, Request
  PROVE  TablesInv'
<1>1. Daemon \in Process /\ Good(Cfg) /\ Cfg = proc[Daemon].cfg /\ Cfg \in Docs
  BY ProcessFacts DEF Inv, ProcInv, Cfg, Good
<1>2. ASSUME NEW c, Edit(c), Keeps(Cfg, c) PROVE TablesInv'
  BY <1>1, <1>2, SaveTables DEF Edit, Served
<1>3. ASSUME NEW t \in Drafts, Edit(Upserted(Cfg, t)) PROVE TablesInv'
  BY <1>1, <1>2, <1>3, UpsertedKeeps
<1>4. ASSUME NEW n \in Names(Cfg), Edit(Without(Cfg, n)) PROVE TablesInv'
  BY <1>1, <1>2, <1>4, WithoutKeeps
<1>5. ASSUME NEW n \in Targets, Edit([Cfg EXCEPT !.rule = n]) PROVE TablesInv'
  <2>1. [Cfg EXCEPT !.rule = n].tunnels = Cfg.tunnels
    BY <1>1 DEF Docs
  <2> QED
    BY <1>1, <1>2, <1>5, <2>1, KeepsSame
<1>6. ASSUME NEW list \in Lists, Edit([Cfg EXCEPT !.fallback = list]) PROVE TablesInv'
  <2>1. [Cfg EXCEPT !.fallback = list].tunnels = Cfg.tunnels
    BY <1>1 DEF Docs
  <2> QED
    BY <1>1, <1>2, <1>6, <2>1, KeepsSame
<1>7. ASSUME NEW on \in BOOLEAN, NEW ok \in BOOLEAN, Served, SetActive(Daemon, on, ok)
      PROVE  TablesInv'
  <2> DEFINE new == [proc[Daemon] EXCEPT !.pc = Returned(Daemon), !.active = on,
                                         !.erred = ~ok]
  <2>1. proc[Daemon] \in ProcType /\ proc[Daemon].pc = "idle"
    BY <1>1, <1>7 DEF Inv, TypeInv, Served
  <2>2. new.pc = "idle" /\ new.cfg = proc[Daemon].cfg
    BY <2>1 DEF ProcType, Returned
  <2>3. proc'[Daemon] = new /\ proc'[Cli] = proc[Cli] /\ UNCHANGED <<file, raced, edited>>
    BY <1>7, DaemonMoves DEF SetActive
  <2> HIDE DEF new
  <2> QED
    BY <2>1, <2>2, <2>3 DEF TablesInv, InForce, Saving
<1>8. CASE Reload
  <2> DEFINE new == [proc[Daemon] EXCEPT !.cfg = Read(file), !.old = Read(file)]
  <2>1. proc[Daemon] \in ProcType /\ proc[Daemon].pc = "idle"
    BY <1>1, <1>8 DEF Inv, TypeInv, Reload, Served
  <2>2. new.pc = "idle" /\ new.cfg = Read(file)
    BY <2>1 DEF ProcType
  <2>3. proc'[Daemon] = new /\ proc'[Cli] = proc[Cli] /\ UNCHANGED file /\ Loads(file)
        /\ (raced' \/ proc[Cli].pc = "out")
    BY <1>8, DaemonMoves DEF Reload, Taken
  <2> HIDE DEF new
  <2> QED
    BY <2>1, <2>2, <2>3 DEF TablesInv, InForce, Saving
<1> QED
  BY <1>3, <1>4, <1>5, <1>6, <1>7, <1>8 DEF Request

LEMMA CommandTables ==
  ASSUME Inv, TablesInv, Command
  PROVE  TablesInv'
<1> USE DEF Saving
<1>1. proc[Cli] \in ProcType /\ proc[Cli].pc = "idle" /\ proc[Cli].cfg \in Docs
      /\ Cli \in Process /\ Cli # Daemon
  BY ProcessFacts DEF Inv, TypeInv, ProcType, Command
<1> DEFINE Moved ==
             \E new : /\ Set(Cli, new) /\ UNCHANGED <<file, raced, edited>>
                      /\ new.pc \in Saving \cup {"marker", "idle"}
                           => new.cfg.tunnels = proc[Cli].cfg.tunnels
<1>2. Moved
  <2>1. ASSUME NEW n \in Targets, Save(Cli, [proc[Cli].cfg EXCEPT !.rule = n])
        PROVE  Moved
    <3> DEFINE c == [proc[Cli].cfg EXCEPT !.rule = n]
    <3>1. c.tunnels = proc[Cli].cfg.tunnels
      BY <1>1 DEF Docs
    <3> HIDE DEF c
    <3>2. CASE Valid(c)
      <4> DEFINE new == [proc[Cli] EXCEPT !.pc = "create", !.cfg = c]
      <4>1. new.cfg = c /\ Set(Cli, new) /\ UNCHANGED <<file, raced, edited>>
        BY <1>1, <2>1, <3>2 DEF Save, ProcType, c
      <4> QED
        BY <3>1, <4>1
    <3>3. CASE ~Valid(c)
      <4> DEFINE new == [proc[Cli] EXCEPT !.pc = "done"]
      <4>1. Goto(Cli, "done") /\ UNCHANGED <<file, raced, edited>>
        BY <1>1, <2>1, <3>3 DEF Save, Returned, c
      <4>2. new.pc = "done" /\ Set(Cli, new)
        BY <1>1, <4>1, GotoSets DEF ProcType, Inv
      <4> QED
        BY <4>1, <4>2
    <3> QED
      BY <3>2, <3>3
  <2>2. ASSUME NEW on \in BOOLEAN, NEW ok \in BOOLEAN, SetActive(Cli, on, ok)
        PROVE  Moved
    <3> DEFINE new == [proc[Cli] EXCEPT !.pc = Returned(Cli), !.active = on, !.erred = ~ok]
    <3>1. new.pc = "done" /\ Set(Cli, new) /\ UNCHANGED <<file, raced, edited>>
      BY <1>1, <2>2 DEF SetActive, Returned, ProcType
    <3> QED
      BY <3>1
  <2> QED
    BY <2>1, <2>2 DEF Command
<1>3. /\ proc'[Daemon] = proc[Daemon] /\ InForce(Daemon)' = InForce(Daemon)
      /\ UNCHANGED <<file, raced, edited>>
      /\ proc'[Cli].pc \in Saving \cup {"marker", "idle"}
           => proc'[Cli].cfg.tunnels = proc[Cli].cfg.tunnels
  BY <1>2, CliMoves
<1> QED
  BY <1>1, <1>3 DEF TablesInv

\* The other steps of the daemon: of its save, its start and its end.
LEMMA DaemonTables ==
  ASSUME Inv, TablesInv, EngineStep(Daemon) \/ Exit \/ \E ok \in BOOLEAN : Listen(ok)
  PROVE  TablesInv'
<1> USE DEF Saving
<1>1. Daemon \in Process /\ proc[Daemon] \in ProcType /\ Good(proc[Daemon].cfg)
      /\ Good(proc[Daemon].old) /\ proc[Daemon].fresh \in BOOLEAN
      /\ (proc[Daemon].pc \notin Saving => proc[Daemon].cfg = proc[Daemon].old)
  BY ProcessFacts, ProcFields DEF Inv, TypeInv, ProcInv
\* The configuration in force does not change, nor the one being saved.
<1> DEFINE Stays(new) ==
             /\ new.pc \in Saving
                  => /\ proc[Daemon].pc \in Saving /\ new.fresh = proc[Daemon].fresh
                     /\ new.old = proc[Daemon].old /\ new.cfg = proc[Daemon].cfg
             /\ new.pc \notin Saving => new.cfg = InForce(Daemon)
<1>2. ASSUME NEW new, Set(Daemon, new), Stays(new), UNCHANGED <<file, raced, edited>>
      PROVE  TablesInv'
  <2>1. proc'[Daemon] = new /\ proc'[Cli] = proc[Cli]
    BY <1>2, DaemonMoves
  <2>2. InForce(Daemon)' = InForce(Daemon)
    BY <1>2, <2>1 DEF InForce
  <2> QED
    BY <1>2, <2>1, <2>2 DEF TablesInv
<1>3. ASSUME NEW ok \in BOOLEAN, CreateTemp(Daemon, ok) PROVE TablesInv'
  <2> DEFINE new == [proc[Daemon] EXCEPT !.pc = IF ok THEN "write" ELSE "remove",
                                         !.temp = IF ok THEN "part" ELSE "none"]
  <2>1. Stays(new)
    BY <1>1, <1>3 DEF CreateTemp, ProcType
  <2> QED
    BY <1>2, <1>3, <2>1 DEF CreateTemp
<1>4. ASSUME NEW ok \in BOOLEAN, WriteTemp(Daemon, ok) PROVE TablesInv'
  <2> DEFINE new == [proc[Daemon] EXCEPT !.pc = IF ok THEN "rename" ELSE "remove",
                                         !.temp = IF ok THEN "full" ELSE "part"]
  <2>1. Stays(new)
    BY <1>1, <1>4 DEF WriteTemp, ProcType
  <2> QED
    BY <1>2, <1>4, <2>1 DEF WriteTemp
<1>5. CASE RemoveTemp(Daemon)
  <2>1. CASE proc[Daemon].fresh
    <3>1. Stays(Out(proc[Daemon].old))
      BY <1>5 DEF RemoveTemp, Out, InForce
    <3> QED
      BY <1>2, <1>5, <2>1, <3>1 DEF RemoveTemp
  <2>2. CASE ~proc[Daemon].fresh
    <3> DEFINE new == [proc[Daemon] EXCEPT !.pc = Returned(Daemon), !.cfg = proc[Daemon].old,
                                           !.temp = "none"]
    <3>1. Stays(new)
      BY <1>1, <1>5 DEF RemoveTemp, ProcType, Returned, InForce
    <3> QED
      BY <1>2, <1>5, <2>2, <3>1 DEF RemoveTemp
  <2> QED
    BY <2>1, <2>2
<1>6. CASE StatMarker(Daemon)
  <2> DEFINE new == [proc[Daemon] EXCEPT !.pc = "idle", !.fresh = FALSE, !.active = marker]
  <2>1. Stays(new)
    BY <1>1, <1>6 DEF StatMarker, ProcType, InForce
  <2> QED
    BY <1>2, <1>6, <2>1 DEF StatMarker
<1>7. CASE Exit
  <2>1. Stays(Out(InForce(Daemon)))
    BY DEF Out
  <2> QED
    BY <1>2, <1>7, <2>1 DEF Exit
<1>8. ASSUME NEW ok \in BOOLEAN, Listen(ok) PROVE TablesInv'
  <2>1. CASE ok
    BY <1>8, <2>1 DEF Listen, TablesInv, InForce
  <2>2. CASE ~ok
    <3>1. Stays(Out(proc[Daemon].cfg))
      BY <1>8 DEF Listen, Out, InForce
    <3> QED
      BY <1>2, <1>8, <2>2, <3>1 DEF Listen
  <2> QED
    BY <2>1, <2>2
<1>9. ASSUME NEW ok \in BOOLEAN, RenameTemp(Daemon, ok) PROVE TablesInv'
  <2>1. CASE ~ok
    <3> DEFINE new == [proc[Daemon] EXCEPT !.pc = "remove"]
    <3>1. Stays(new)
      BY <1>1, <1>9 DEF RenameTemp, ProcType
    <3>2. Set(Daemon, new)
      BY <1>1, <1>9, <2>1, GotoSets DEF RenameTemp, Inv
    <3> QED
      BY <1>2, <1>9, <2>1, <3>1, <3>2 DEF RenameTemp
  <2>2. CASE ok
    <3> DEFINE new == [proc[Daemon] EXCEPT
                         !.pc = IF proc[Daemon].fresh THEN "marker" ELSE Returned(Daemon),
                         !.old = proc[Daemon].cfg, !.temp = "none"]
    <3>1. new.pc \notin Saving /\ new.cfg = proc[Daemon].cfg
      BY <1>1 DEF ProcType, Returned
    <3>2. proc'[Daemon] = new /\ proc'[Cli] = proc[Cli] /\ Taken(Daemon)
      BY <1>9, <2>2, DaemonMoves DEF RenameTemp
    <3> HIDE DEF new
    <3>3. proc[Daemon].temp = "full"
      BY <1>1, <1>9 DEF Inv, ProcInv, RenameTemp
    <3>4. Loads(file') /\ Read(file').tunnels = proc[Daemon].cfg.tunnels
      BY <1>1, <1>9, <2>2, <3>3, GoodReadsBack DEF RenameTemp
    <3>5. raced' \/ proc'[Cli].pc = "out"
      BY <3>2 DEF Taken
    <3> QED
      BY <3>1, <3>2, <3>4, <3>5 DEF TablesInv, InForce
  <2> QED
    BY <2>1, <2>2
<1> QED
  BY <1>3, <1>4, <1>5, <1>6, <1>7, <1>8, <1>9 DEF EngineStep

\* The other steps of a command, and a person's.
LEMMA CliTables ==
  ASSUME Inv, TablesInv, EngineStep(Cli) \/ Connect \/ Leave \/ WriteDefault \/ HandEdit
  PROVE  TablesInv'
<1> USE DEF Saving
<1>1. Cli \in Process /\ Cli # Daemon /\ proc[Cli] \in ProcType /\ Good(proc[Cli].cfg)
      /\ Good(proc[Cli].old) /\ proc[Cli].fresh \in BOOLEAN
  BY ProcessFacts, ProcFields DEF Inv, TypeInv, ProcInv
<1> DEFINE Stays(new) ==
             new.pc \in Saving \cup {"marker", "idle"}
               => /\ proc[Cli].pc \in Saving \cup {"marker", "idle"}
                  /\ new.cfg.tunnels = proc[Cli].cfg.tunnels
<1>2. ASSUME NEW new, Set(Cli, new), Stays(new), UNCHANGED <<file, edited>>,
             ~raced' => ~raced
      PROVE  TablesInv'
  <2>1. proc'[Cli] = new /\ proc'[Daemon] = proc[Daemon]
        /\ InForce(Daemon)' = InForce(Daemon)
    BY <1>2, CliMoves
  <2> QED
    BY <1>2, <2>1 DEF TablesInv
<1>3. ASSUME NEW ok \in BOOLEAN, CreateTemp(Cli, ok) PROVE TablesInv'
  <2> DEFINE new == [proc[Cli] EXCEPT !.pc = IF ok THEN "write" ELSE "remove",
                                      !.temp = IF ok THEN "part" ELSE "none"]
  <2>1. Stays(new)
    BY <1>1, <1>3 DEF CreateTemp, ProcType
  <2> QED
    BY <1>2, <1>3, <2>1 DEF CreateTemp
<1>4. ASSUME NEW ok \in BOOLEAN, WriteTemp(Cli, ok) PROVE TablesInv'
  <2> DEFINE new == [proc[Cli] EXCEPT !.pc = IF ok THEN "rename" ELSE "remove",
                                      !.temp = IF ok THEN "full" ELSE "part"]
  <2>1. Stays(new)
    BY <1>1, <1>4 DEF WriteTemp, ProcType
  <2> QED
    BY <1>2, <1>4, <2>1 DEF WriteTemp
<1>5. CASE RemoveTemp(Cli)
  <2>1. CASE proc[Cli].fresh
    <3>1. Stays(Out(proc[Cli].old))
      BY DEF Out
    <3> QED
      BY <1>2, <1>5, <2>1, <3>1 DEF RemoveTemp
  <2>2. CASE ~proc[Cli].fresh
    <3> DEFINE new == [proc[Cli] EXCEPT !.pc = Returned(Cli), !.cfg = proc[Cli].old,
                                        !.temp = "none"]
    <3>1. Stays(new)
      BY <1>1 DEF ProcType, Returned
    <3> QED
      BY <1>2, <1>5, <2>2, <3>1 DEF RemoveTemp
  <2> QED
    BY <2>1, <2>2
<1>6. CASE StatMarker(Cli)
  <2> DEFINE new == [proc[Cli] EXCEPT !.pc = "idle", !.fresh = FALSE, !.active = marker]
  <2>1. Stays(new)
    BY <1>1, <1>6 DEF StatMarker, ProcType
  <2> QED
    BY <1>2, <1>6, <2>1 DEF StatMarker
<1>7. CASE Leave
  <2>1. Stays(Out(Empty))
    BY DEF Out
  <2> QED
    BY <1>2, <1>7, <2>1 DEF Leave
<1>8. CASE Connect
  <2> DEFINE new == [proc[Cli] EXCEPT !.pc = "stat"]
  <2>1. Stays(new)
    BY <1>1 DEF ProcType
  <2>2. Set(Cli, new)
    BY <1>1, <1>8, GotoSets DEF Connect, Inv
  <2> QED
    BY <1>2, <1>8, <2>1, <2>2 DEF Connect
<1>9. CASE WriteDefault
  <2>1. raced \/ edited
    BY <1>9 DEF TablesInv, WriteDefault, Loads
  <2>2. proc'[Daemon] = proc[Daemon] /\ UNCHANGED <<raced, edited>>
    BY <1>9, CliMoves DEF WriteDefault
  <2> QED
    BY <2>1, <2>2 DEF TablesInv
<1>10. CASE HandEdit
  BY <1>10 DEF HandEdit, TablesInv
<1>11. ASSUME NEW ok \in BOOLEAN, RenameTemp(Cli, ok) PROVE TablesInv'
  <2>1. proc[Cli].pc = "rename" /\ proc[Cli].temp = "full" /\ UNCHANGED <<raced, edited>>
    BY <1>1, <1>11 DEF Inv, ProcInv, RenameTemp, Taken
  <2>2. CASE ~ok
    <3> DEFINE new == [proc[Cli] EXCEPT !.pc = "remove"]
    <3>1. Stays(new)
      BY <1>1, <2>1 DEF ProcType
    <3>2. Set(Cli, new)
      BY <1>1, <1>11, <2>2, GotoSets DEF RenameTemp, Inv
    <3> QED
      BY <1>2, <1>11, <2>1, <2>2, <3>1, <3>2 DEF RenameTemp
  <2>3. CASE ok
    <3> DEFINE new == [proc[Cli] EXCEPT
                         !.pc = IF proc[Cli].fresh THEN "marker" ELSE Returned(Cli),
                         !.old = proc[Cli].cfg, !.temp = "none"]
    <3>1. new.cfg = proc[Cli].cfg
      BY <1>1 DEF ProcType
    <3>2. proc'[Cli] = new /\ proc'[Daemon] = proc[Daemon]
          /\ InForce(Daemon)' = InForce(Daemon)
      BY <1>11, <2>3, CliMoves DEF RenameTemp
    <3> HIDE DEF new
    <3>3. Loads(file') /\ Read(file').tunnels = proc[Cli].cfg.tunnels
      BY <1>1, <1>11, <2>1, <2>3, GoodReadsBack DEF RenameTemp
    <3> QED
      BY <2>1, <3>1, <3>2, <3>3 DEF TablesInv
  <2> QED
    BY <2>2, <2>3
<1> QED
  BY <1>3, <1>4, <1>5, <1>6, <1>7, <1>8, <1>9, <1>10, <1>11 DEF EngineStep

LEMMA NextTables == Inv /\ TablesInv /\ [Next]_vars => TablesInv'
<1> SUFFICES ASSUME Inv, TablesInv, [Next]_vars PROVE TablesInv'
  OBVIOUS
<1>1. CASE Change
  BY <1>1, RequestTables, CommandTables, CliTables DEF Change
<1>2. CASE Run
  BY <1>2, DaemonTables, CliTables, StartDaemonTables, OpenTables, ProcessFacts DEF Run
<1>3. CASE UNCHANGED vars
  BY <1>3 DEF vars, TablesInv, InForce
<1> QED
  BY <1>1, <1>2, <1>3 DEF Next

\* No tunnel leaves its table unasked: an edit of the daemon keeps the tables of the
\* others, a failed one all of them, and a restart, a migration or a reload finds those it
\* left.
THEOREM TunnelsKeepTheirTables == Spec => TablesStay
<1> DEFINE old == InForce(Daemon)
           Same(new) == \A n \in Names(old) \cap Names(new) :
                          LET t == new.tunnels[At(new, n)].table IN
                          \/ t = old.tunnels[At(old, n)].table
                          \/ \E d \in Drafts : d.name = n /\ d.table = t
<1>1. Inv /\ TablesInv /\ [Next]_vars => [~raced /\ ~edited => Same(old')]_vars
  <2> SUFFICES ASSUME Inv, TablesInv, [Next]_vars, ~raced, ~edited PROVE Same(old')
    OBVIOUS
  <2>1. Daemon \in Process /\ proc[Daemon] \in ProcType /\ Good(old)
        /\ Good(proc[Daemon].cfg) /\ Good(proc[Daemon].old) /\ proc[Daemon].fresh \in BOOLEAN
        /\ (proc[Daemon].pc \notin Saving => proc[Daemon].cfg = proc[Daemon].old)
    BY ProcessFacts, ProcFields DEF Inv, TypeInv, ProcInv, InForce
  <2>2. ASSUME NEW new, Keeps(old, new) PROVE Same(new)
    <3> HIDE DEF old
    <3>1. ASSUME NEW n \in Names(old) \cap Names(new)
          PROVE  /\ At(old, n) \in DOMAIN old.tunnels /\ old.tunnels[At(old, n)].name = n
                 /\ At(new, n) \in DOMAIN new.tunnels /\ new.tunnels[At(new, n)].name = n
      BY DEF Names, At
    <3> QED
      BY <2>2, <3>1 DEF Keeps
  <2>3. ASSUME NEW new, new.tunnels = old.tunnels PROVE Same(new)
    BY <2>1, <2>2, <2>3, KeepsSame
  \* The daemon reads the file, or has saved it, or has in force what it had.
  <2>4. InForce(Daemon)' = InForce(Daemon) => Same(old')
    BY <2>3
  <2>5. Loads(file) /\ Read(file).tunnels = old.tunnels
    BY DEF TablesInv
  <2>6. CASE Request
    <3>1. ASSUME NEW c, Edit(c) PROVE InForce(Daemon)' = InForce(Daemon)
      <4>1. proc[Daemon].pc = "idle" /\ Save(Daemon, c)
        BY <3>1 DEF Edit, Served
      <4>2. CASE Valid(c)
        <5> DEFINE new == [proc[Daemon] EXCEPT !.pc = "create", !.cfg = c]
        <5>1. new.pc = "create" /\ new.old = proc[Daemon].old
          BY <2>1 DEF ProcType
        <5>2. proc'[Daemon] = new
          BY <4>1, <4>2, DaemonMoves DEF Save
        <5> HIDE DEF new
        <5> QED
          BY <2>1, <4>1, <5>1, <5>2 DEF InForce, Saving
      <4>3. CASE ~Valid(c)
        <5> DEFINE new == [proc[Daemon] EXCEPT !.pc = "idle"]
        <5>1. Set(Daemon, new)
          BY <2>1, <4>1, <4>3, GotoSets DEF Save, Returned, Inv
        <5>2. proc'[Daemon] = new
          BY <5>1, DaemonMoves
        <5>3. new.pc = "idle" /\ new.cfg = proc[Daemon].cfg
          BY <2>1 DEF ProcType
        <5> HIDE DEF new
        <5> QED
          BY <4>1, <5>2, <5>3 DEF InForce, Saving
      <4> QED
        BY <4>2, <4>3
    <3>2. ASSUME NEW on \in BOOLEAN, NEW ok \in BOOLEAN, Served, SetActive(Daemon, on, ok)
          PROVE  InForce(Daemon)' = InForce(Daemon)
      <4> DEFINE new == [proc[Daemon] EXCEPT !.pc = Returned(Daemon), !.active = on,
                                             !.erred = ~ok]
      <4>1. new.pc = "idle" /\ new.cfg = proc[Daemon].cfg /\ proc[Daemon].pc = "idle"
        BY <2>1, <3>2 DEF ProcType, Returned, Served
      <4>2. proc'[Daemon] = new
        BY <3>2, DaemonMoves DEF SetActive
      <4> HIDE DEF new
      <4> QED
        BY <4>1, <4>2 DEF InForce, Saving
    <3>3. CASE Reload
      <4> DEFINE new == [proc[Daemon] EXCEPT !.cfg = Read(file), !.old = Read(file)]
      <4>1. new.cfg = Read(file) /\ new.old = Read(file)
        BY <2>1 DEF ProcType
      <4>2. proc'[Daemon] = new
        BY <3>3, DaemonMoves DEF Reload
      <4> HIDE DEF new
      <4>3. old' = Read(file)
        BY <4>1, <4>2 DEF InForce
      <4> QED
        BY <2>3, <2>5, <4>3
    <3> QED
      BY <2>4, <2>6, <3>1, <3>2, <3>3 DEF Request
  <2>7. CASE Command \/ WriteDefault \/ HandEdit \/ EngineStep(Cli) \/ Connect \/ Open
             \/ Leave \/ UNCHANGED vars
    <3>1. proc'[Daemon] = proc[Daemon]
      BY <2>7, ProcessFacts
      DEF Command, WriteDefault, HandEdit, EngineStep, Connect, Open, Leave, Save,
          SetActive, New, CreateTemp, WriteTemp, RenameTemp, RemoveTemp, StatMarker, Set,
          Goto, vars, Inv, TypeInv
    <3> QED
      BY <2>4, <3>1 DEF InForce
  <2>8. CASE StartDaemon
    <3>1. proc[Daemon].pc = "out"
      BY <2>8 DEF StartDaemon
    <3>2. CASE Migrated(file)
      <4> DEFINE new == [proc[Daemon] EXCEPT !.pc = "create", !.cfg = Read(file)]
      <4>1. new.pc = "create" /\ new.old = proc[Daemon].old
        BY <2>1 DEF ProcType
      <4>2. proc'[Daemon] = new
        BY <2>5, <2>8, <3>2, DaemonMoves DEF StartDaemon, New
      <4> HIDE DEF new
      <4> QED
        BY <2>1, <2>4, <3>1, <4>1, <4>2 DEF InForce, Saving
    <3>3. CASE ~Migrated(file)
      <4> DEFINE new == [proc[Daemon] EXCEPT !.pc = "marker", !.cfg = Read(file),
                                             !.old = Read(file)]
      <4>1. new.cfg = Read(file) /\ new.old = Read(file)
        BY <2>1 DEF ProcType
      <4>2. proc'[Daemon] = new
        BY <2>5, <2>8, <3>3, DaemonMoves DEF StartDaemon, New
      <4> HIDE DEF new
      <4>3. old' = Read(file)
        BY <4>1, <4>2 DEF InForce
      <4> QED
        BY <2>3, <2>5, <4>3
    <3> QED
      BY <3>2, <3>3
  <2>9. CASE Exit
    <3>1. proc'[Daemon] = Out(InForce(Daemon))
      BY <2>9, DaemonMoves DEF Exit
    <3> QED
      BY <2>4, <3>1 DEF InForce, Out
  <2>10. ASSUME NEW ok \in BOOLEAN, Listen(ok) PROVE Same(old')
    <3>1. proc'[Daemon] = proc[Daemon] \/ proc'[Daemon] = Out(proc[Daemon].cfg)
      BY <2>10, DaemonMoves DEF Listen
    <3> QED
      BY <2>4, <2>10, <3>1 DEF InForce, Out, Listen, Saving
  <2>11. ASSUME NEW ok \in BOOLEAN, RenameTemp(Daemon, ok) PROVE Same(old')
    <3> DEFINE new == [proc[Daemon] EXCEPT
                         !.pc = IF proc[Daemon].fresh THEN "marker" ELSE Returned(Daemon),
                         !.old = proc[Daemon].cfg, !.temp = "none"]
               failed == [proc[Daemon] EXCEPT !.pc = "remove"]
    <3>1. proc[Daemon].pc \in Saving
      BY <2>11 DEF RenameTemp, Saving
    <3>2. CASE ok
      <4>1. new.cfg = proc[Daemon].cfg /\ new.old = proc[Daemon].cfg
        BY <2>1 DEF ProcType
      <4>2. proc'[Daemon] = new
        BY <2>11, <3>2, DaemonMoves DEF RenameTemp
      <4> HIDE DEF new
      <4>3. old' = proc[Daemon].cfg /\ old = proc[Daemon].old
        BY <3>1, <4>1, <4>2 DEF InForce
      <4>4. CASE proc[Daemon].fresh
        BY <2>3, <3>1, <4>3, <4>4 DEF TablesInv
      <4>5. CASE ~proc[Daemon].fresh
        BY <2>2, <3>1, <4>3, <4>5 DEF TablesInv
      <4> QED
        BY <4>4, <4>5
    <3>3. CASE ~ok
      <4>1. Set(Daemon, failed)
        BY <2>1, <2>11, <3>3, GotoSets DEF RenameTemp, Inv
      <4>2. failed.pc = "remove" /\ failed.old = proc[Daemon].old
        BY <2>1 DEF ProcType
      <4>3. proc'[Daemon] = failed
        BY <4>1, DaemonMoves
      <4> HIDE DEF failed
      <4> QED
        BY <2>4, <3>1, <4>2, <4>3 DEF InForce, Saving
    <3> QED
      BY <3>2, <3>3
  <2>12. ASSUME NEW ok \in BOOLEAN, CreateTemp(Daemon, ok) \/ WriteTemp(Daemon, ok)
         PROVE  Same(old')
    <3>1. PICK pc \in Saving, temp \in {"none", "part", "full"} :
            Set(Daemon, [proc[Daemon] EXCEPT !.pc = pc, !.temp = temp])
      BY <2>12 DEF CreateTemp, WriteTemp, Saving
    <3> DEFINE new == [proc[Daemon] EXCEPT !.pc = pc, !.temp = temp]
    <3>2. new.pc \in Saving /\ new.old = proc[Daemon].old
      BY <2>1 DEF ProcType
    <3>3. proc'[Daemon] = new
      BY <3>1, DaemonMoves
    <3>4. proc[Daemon].pc \in Saving
      BY <2>12 DEF CreateTemp, WriteTemp, Saving
    <3> HIDE DEF new
    <3> QED
      BY <2>4, <3>2, <3>3, <3>4 DEF InForce
  <2>13. CASE RemoveTemp(Daemon)
    <3> DEFINE new == [proc[Daemon] EXCEPT !.pc = Returned(Daemon), !.cfg = proc[Daemon].old,
                                           !.temp = "none"]
    <3>1. proc[Daemon].pc \in Saving
      BY <2>13 DEF RemoveTemp, Saving
    <3>2. proc'[Daemon] = Out(proc[Daemon].old) \/ proc'[Daemon] = new
      BY <2>13, DaemonMoves DEF RemoveTemp
    <3>3. new.pc = "idle" /\ new.cfg = proc[Daemon].old
      BY <2>1 DEF ProcType, Returned
    <3> HIDE DEF new
    <3> QED
      BY <2>4, <3>1, <3>2, <3>3 DEF InForce, Out, Saving
  <2>14. CASE StatMarker(Daemon)
    <3>1. proc[Daemon].pc = "marker"
      BY <2>14 DEF StatMarker
    <3>2. proc'[Daemon].cfg = proc[Daemon].cfg /\ proc'[Daemon].pc = "idle"
      BY <2>1, <2>14 DEF StatMarker, Set, Inv, TypeInv, ProcType
    <3> QED
      BY <2>4, <3>1, <3>2 DEF InForce, Saving
  <2>15. CASE Run
    BY <2>7, <2>8, <2>9, <2>10, <2>11, <2>12, <2>13, <2>14, <2>15, ProcessFacts
    DEF Run, EngineStep
  <2> QED
    BY <2>6, <2>7, <2>15 DEF Next, Change
<1>2. TablesStay <=> [][~raced /\ ~edited => Same(old')]_vars
  BY DEF TablesStay
<1> HIDE DEF Same, old
<1> QED
  BY <1>1, <1>2, InitInv, NextInv, InitTables, NextTables, PTL DEF Spec
=============================================================================
