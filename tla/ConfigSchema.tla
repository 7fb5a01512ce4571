---------------------------- MODULE ConfigSchema -----------------------------
(***************************************************************************)
(* What src/internal/config/config.go makes of a configuration file: the   *)
(* two schemas, the migration of the old one, the defaults, what Validate  *)
(* accepts; and the edits of the engine that hand out routing tables.      *)
(*                                                                         *)
(* A configuration has its tunnels, in the order of the file, the target   *)
(* of its routing rule, the target of its DNS rule and its list of         *)
(* fallback resolvers.                                                     *)
(***************************************************************************)
EXTENDS Naturals, SequencesExt

CONSTANTS
  Text,       \* the names, kinds, profiles and interfaces there may be
  None,       \* an empty string, or an empty list
  Direct,     \* the target "direct"
  AutoTable,  \* the first table a tunnel gets that names none, 200
  LastTable,  \* the last table a tunnel may have, 252
  Resolvers,  \* the lists of fallback resolvers there may be
  Public      \* the one applyDefaults puts in the place of an empty list

ASSUME TableAssumption ==
  AutoTable \in Nat \ {0} /\ LastTable \in Nat /\ AutoTable <= LastTable

Kinds == {"nm", "wg-quick", "awg-quick", "manual"}

ASSUME TextAssumption ==
  {None, Direct, "corp"} \cup Kinds \subseteq Text /\ None \notin Kinds

ASSUME ResolversAssumption == {None, Public} \subseteq Resolvers /\ Public # None

CurrentVersion == 2

\* There is no file; a file that is no YAML, or part of one.
NoFile == [is |-> "missing"]
Garbage == [is |-> "garbage"]

Tunnel(name, kind, profile, iface, auto, table) ==
  [name |-> name, kind |-> kind, profile |-> profile, iface |-> iface, auto |-> auto,
   table |-> table]

TunnelSet == [name : Text, kind : Text, profile : Text, iface : Text, auto : BOOLEAN,
            table : Nat]

\* A file of this schema; its version is 0 when a person left the line out.
Doc(version, tunnels, rule, via, fallback) ==
  [version |-> version, tunnels |-> tunnels, rule |-> rule, via |-> via,
   fallback |-> fallback]

Docs == [version : Nat, tunnels : Seq(TunnelSet), rule : Text, via : Text,
         fallback : Resolvers]

\* A file of the old schema: its VPNs, the table of the corporate one (0 for none),
\* whether it lists networks and domains for it, and its resolvers.
Legacy(vpns, corpTable, networks, domains, fallback) ==
  [version |-> 1, vpns |-> vpns, corpTable |-> corpTable, networks |-> networks,
   domains |-> domains, fallback |-> fallback]

VPNSet == [name : Text, iface : Text, auto : BOOLEAN, corp : BOOLEAN]

LegacyFiles == [version : 0..1, vpns : Seq(VPNSet), corpTable : Nat, networks : BOOLEAN,
                domains : BOOLEAN, fallback : Resolvers]

Files == {NoFile, Garbage} \cup Docs \cup LegacyFiles

Names(c) == {c.tunnels[i].name : i \in DOMAIN c.tunnels}
Tables(c) == {c.tunnels[i].table : i \in DOMAIN c.tunnels}
At(c, name) == CHOOSE i \in DOMAIN c.tunnels : c.tunnels[i].name = name

-----------------------------------------------------------------------------
(* Load. *)

\* The name of the tunnel that a VPN of an old file becomes.
MigratedName(v) == IF v.name = None THEN v.iface ELSE v.name

CorpTable(l) == IF l.corpTable = 0 THEN AutoTable ELSE l.corpTable

\* How many of the first i VPNs are not the corporate one.
OthersUpTo(l, i) == Cardinality({j \in 1..i : ~l.vpns[j].corp})

\* What the rules of an old file go to: its corporate VPN, the last if it has several.
CorpName(l) ==
  LET corps == {i \in DOMAIN l.vpns : l.vpns[i].corp}
  IN  IF corps = {} THEN "corp" ELSE MigratedName(l.vpns[Max(corps)])

\* (Mutant: every VPN that is not the corporate one gets the next table.)
MigratedTableNext(l, i) ==
  IF l.vpns[i].corp THEN CorpTable(l) ELSE CorpTable(l) + 1

\* The corporate VPN keeps its table, the others get the ones after it in their order.
MigratedTable(l, i) ==
  IF l.vpns[i].corp THEN CorpTable(l) ELSE CorpTable(l) + OthersUpTo(l, i)

\* migrate: the networks and the domains of the corporate VPN become rules.
Migrate(l) ==
  Doc(CurrentVersion,
      [i \in DOMAIN l.vpns |->
         LET v == l.vpns[i]
         IN  Tunnel(MigratedName(v), "manual", None, v.iface, v.auto, MigratedTable(l, i))],
      IF l.networks THEN CorpName(l) ELSE None,
      IF l.domains THEN CorpName(l) ELSE None,
      l.fallback)

\* A file without a version is read as one of the old schema, whatever it holds; the
\* resolvers are where the old schema has them.
Migrated(f) == f.version < 2

Parse(f) ==
  IF ~Migrated(f) THEN f
  ELSE IF "vpns" \in DOMAIN f THEN Migrate(f)
       ELSE Migrate(Legacy(<<>>, 0, FALSE, FALSE, f.fallback))

\* A tunnel that says nothing is manual, and gets the table of its place.
Completed(t, i) ==
  [t EXCEPT !.kind = IF t.kind = None THEN "manual" ELSE t.kind,
            !.table = IF t.table = 0 THEN AutoTable + i - 1 ELSE t.table]

\* A list of resolvers is never empty once it has been read.
Filled(list) == IF list = None THEN Public ELSE list

\* The configuration that is read back from a saved one.
Refilled(c) == [c EXCEPT !.fallback = Filled(c.fallback)]

\* applyDefaults
ApplyDefaults(c) ==
  Doc(CurrentVersion, [i \in DOMAIN c.tunnels |-> Completed(c.tunnels[i], i)], c.rule, c.via,
      Filled(c.fallback))

\* Validate
Valid(c) ==
  LET ts == c.tunnels IN
  /\ \A i \in DOMAIN ts :
       /\ ts[i].name \notin {None, Direct}
       /\ ts[i].kind \in Kinds
       /\ ts[i].kind = "manual" => ts[i].iface # None \/ ts[i].auto
       /\ ts[i].kind # "manual" => ts[i].profile # None
       /\ ts[i].table \in 1..LastTable
  /\ \A i, j \in DOMAIN ts : i # j => ts[i].name # ts[j].name /\ ts[i].table # ts[j].table
  /\ {c.rule, c.via} \subseteq Names(c) \cup {Direct, None}

Read(f) == ApplyDefaults(Parse(f))

\* Load returns no error.
Loads(f) == f \notin {NoFile, Garbage} /\ Valid(Read(f))

\* A file of the old schema as its documentation has it: one corporate VPN, names that are
\* there and apart, and room for the tables of the others.
Proper(l) ==
  LET name(i) == MigratedName(l.vpns[i])
  IN  /\ \E i \in DOMAIN l.vpns : \A j \in DOMAIN l.vpns : l.vpns[j].corp <=> j = i
      /\ \A i, j \in DOMAIN l.vpns : name(i) = name(j) => i = j
      /\ \A i \in DOMAIN l.vpns : /\ name(i) \notin {None, Direct}
                                  /\ l.vpns[i].iface # None \/ l.vpns[i].auto
      /\ CorpTable(l) + Len(l.vpns) - 1 <= LastTable

-----------------------------------------------------------------------------
(* Edits. *)

\* freeTableID; 0 if every table is taken.
FreeTableID(c) ==
  LET free == (AutoTable..LastTable) \ Tables(c)
  IN  IF free = {} THEN 0 ELSE CHOOSE t \in free : \A u \in free : t <= u

\* A tunnel that names no table takes this one.
Placed(t, table) == [t EXCEPT !.table = IF t.table = 0 THEN table ELSE t.table]

\* (Mutant: a tunnel without a table gets a free one, known or not.)
UpsertedAfresh(c, t) ==
  LET placed == Placed(t, FreeTableID(c))
  IN  IF t.name \in Names(c) THEN [c EXCEPT !.tunnels[At(c, t.name)] = placed]
                             ELSE [c EXCEPT !.tunnels = Append(c.tunnels, placed)]

\* UpsertTunnel: a tunnel without a table keeps the one it has, or takes a free one.
Upserted(c, t) ==
  IF t.name \in Names(c)
    THEN LET i == At(c, t.name)
         IN  [c EXCEPT !.tunnels[i] = Placed(t, c.tunnels[i].table)]
    ELSE [c EXCEPT !.tunnels = Append(c.tunnels, Placed(t, FreeTableID(c)))]

\* DeleteTunnel, of a tunnel no routing rule targets.
Without(c, name) == [c EXCEPT !.tunnels = RemoveAt(c.tunnels, At(c, name))]

\* DefaultConfig, with the first of its networks and domains.
DefaultConfig ==
  Doc(CurrentVersion,
      <<Tunnel("corp", "nm", "corporate-vpn", None, TRUE, AutoTable),
        Tunnel("global", "wg-quick", "wg0", None, TRUE, AutoTable + 1)>>, "corp", "corp",
      Public)
=============================================================================
