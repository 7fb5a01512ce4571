------------------------- MODULE ConfigSchemaProofs --------------------------
(***************************************************************************)
(* The migration of ConfigSchema, for old files of every length: what it   *)
(* makes has the form of a configuration, and the tables it hands out are  *)
(* those of the corporate VPN and the ones after it, each once.            *)
(***************************************************************************)
EXTENDS ConfigSchema, FiniteSetTheorems, TLAPS

-----------------------------------------------------------------------------
(* The VPNs of an old file. *)

\* A set of natural numbers has a least element.
LEMMA LeastOf ==
  ASSUME NEW S, S \subseteq Nat, S # {}
  PROVE  \E i \in S : \A j \in S : i <= j
<1>1. PICK R : R = {ss \in Nat \X Nat : ss[1] < ss[2]}
  OBVIOUS
<1>2. IsWellFoundedOn(R, Nat)
  BY <1>1, NatLessThanWellFounded DEF OpToRel
<1>3. PICK i \in S : \A j \in S : <<j, i>> \notin R
  BY <1>2, WFMin
<1>4. ASSUME NEW j \in S PROVE i <= j
  <2>1. i \in Nat /\ j \in Nat /\ <<j, i>> \notin R
    BY <1>3
  <2>2. ~(j < i)
    BY <1>1, <2>1
  <2> QED
    BY <2>1, <2>2
<1> QED
  BY <1>4

\* A bounded set of natural numbers that is not empty has its maximum.
LEMMA MaxIsIn ==
  ASSUME NEW n \in Nat, NEW S \in SUBSET (1..n), S # {}
  PROVE  Max(S) \in S /\ \A i \in S : i <= Max(S)
<1> DEFINE D == {n - i : i \in S}
<1>1. D \subseteq Nat /\ D # {}
  OBVIOUS
<1>2. PICK d \in D : \A e \in D : d <= e
  BY <1>1, LeastOf
<1>3. PICK m \in S : d = n - m
  OBVIOUS
<1>4. \A i \in S : m >= i
  <2> SUFFICES ASSUME NEW i \in S PROVE m >= i
    OBVIOUS
  <2>1. n - i \in D
    OBVIOUS
  <2>2. n - m <= n - i /\ i \in Int /\ m \in Int
    BY <1>2, <1>3, <2>1
  <2> QED
    BY <2>2
<1>5. \E x \in S : \A y \in S : x >= y
  BY <1>4
<1> QED
  BY <1>5 DEF Max

\* One VPN of an old file.
LEMMA VPNFields ==
  ASSUME NEW l \in LegacyFiles, NEW i \in DOMAIN l.vpns
  PROVE  /\ i \in 1..Len(l.vpns) /\ Len(l.vpns) \in Nat
         /\ l.vpns[i].name \in Text /\ l.vpns[i].iface \in Text
         /\ l.vpns[i].auto \in BOOLEAN /\ l.vpns[i].corp \in BOOLEAN
         /\ MigratedName(l.vpns[i]) \in Text
<1>1. l.vpns \in Seq(VPNSet)
  BY DEF LegacyFiles
<1>2. i \in 1..Len(l.vpns) /\ Len(l.vpns) \in Nat
  BY <1>1
<1>3. l.vpns[i] \in VPNSet
  BY <1>1, <1>2
<1> QED
  BY <1>2, <1>3 DEF MigratedName, VPNSet

LEMMA CorpFacts ==
  ASSUME NEW l \in LegacyFiles
  PROVE  CorpTable(l) \in Nat \ {0} /\ CorpName(l) \in Text
<1>1. CorpTable(l) \in Nat \ {0}
  BY TableAssumption DEF CorpTable, LegacyFiles
<1> DEFINE corps == {i \in DOMAIN l.vpns : l.vpns[i].corp}
<1>2. CASE corps = {}
  BY <1>1, <1>2, TextAssumption DEF CorpName
<1>3. CASE corps # {}
  <2>1. Len(l.vpns) \in Nat /\ corps \in SUBSET (1..Len(l.vpns))
    BY DEF LegacyFiles
  <2>2. Max(corps) \in corps
    BY <1>3, <2>1, MaxIsIn
  <2>3. CorpName(l) = MigratedName(l.vpns[Max(corps)])
    BY <1>3 DEF CorpName
  <2> QED
    BY <1>1, <2>2, <2>3, VPNFields
<1> QED
  BY <1>2, <1>3

\* The count of the others is the size of a set that grows with every one of them.
LEMMA OthersFacts ==
  ASSUME NEW l \in LegacyFiles, NEW i \in 0..Len(l.vpns)
  PROVE  /\ OthersUpTo(l, i) \in Nat
         /\ IsFiniteSet({j \in 1..i : ~l.vpns[j].corp})
<1>1. i \in Nat /\ IsFiniteSet(1..i)
  BY FS_Interval DEF LegacyFiles
<1>2. {j \in 1..i : ~l.vpns[j].corp} \in SUBSET (1..i)
  OBVIOUS
<1>3. IsFiniteSet({j \in 1..i : ~l.vpns[j].corp})
  BY <1>1, <1>2, FS_Subset
<1> QED
  BY <1>3, FS_CardinalityType DEF OthersUpTo

LEMMA OthersGrow ==
  ASSUME NEW l \in LegacyFiles, NEW i \in 0..Len(l.vpns), NEW k \in DOMAIN l.vpns,
         i < k, ~l.vpns[k].corp
  PROVE  OthersUpTo(l, i) < OthersUpTo(l, k)
<1> DEFINE S == {j \in 1..i : ~l.vpns[j].corp}
           T == {j \in 1..k : ~l.vpns[j].corp}
<1>1. k \in 1..Len(l.vpns) /\ Len(l.vpns) \in Nat /\ i \in Nat /\ k \in Nat
  BY DEF LegacyFiles
<1>2. IsFiniteSet(T) /\ OthersUpTo(l, i) \in Nat /\ OthersUpTo(l, k) \in Nat
  <2>1. k \in 0..Len(l.vpns)
    BY <1>1
  <2> QED
    BY <2>1, OthersFacts
<1>3. S \in SUBSET T /\ k \in T /\ k \notin S
  BY <1>1
<1>4. Cardinality(S) <= Cardinality(T) /\ Cardinality(S) # Cardinality(T)
  BY <1>2, <1>3, FS_Subset
<1>5. OthersUpTo(l, i) = Cardinality(S) /\ OthersUpTo(l, k) = Cardinality(T)
  BY DEF OthersUpTo
<1> QED
  BY <1>2, <1>4, <1>5

\* With a corporate VPN among them the others are fewer than the VPNs.
LEMMA OthersBounded ==
  ASSUME NEW l \in LegacyFiles, NEW i \in DOMAIN l.vpns,
         NEW c \in DOMAIN l.vpns, l.vpns[c].corp
  PROVE  OthersUpTo(l, i) <= Len(l.vpns) - 1
<1> DEFINE S == {j \in 1..i : ~l.vpns[j].corp}
           R == (1..Len(l.vpns)) \ {c}
<1>1. /\ Len(l.vpns) \in Nat /\ i \in 1..Len(l.vpns) /\ c \in 1..Len(l.vpns)
  BY DEF LegacyFiles
<1>2. IsFiniteSet(1..Len(l.vpns)) /\ Cardinality(1..Len(l.vpns)) = Len(l.vpns)
  <2>1. 1 <= Len(l.vpns) /\ Len(l.vpns) \in Int
    BY <1>1
  <2>2. /\ IsFiniteSet(1..Len(l.vpns))
        /\ Cardinality(1..Len(l.vpns))
             = IF 1 > Len(l.vpns) THEN 0 ELSE Len(l.vpns) - 1 + 1
    BY <2>1, FS_Interval
  <2> QED
    BY <2>1, <2>2
<1>3. IsFiniteSet(R) /\ Cardinality(R) = Len(l.vpns) - 1
  <2>1. /\ IsFiniteSet(R)
        /\ Cardinality(R) = IF c \in 1..Len(l.vpns) THEN Cardinality(1..Len(l.vpns)) - 1
                                                  ELSE Cardinality(1..Len(l.vpns))
    BY <1>2, FS_RemoveElement
  <2> QED
    BY <1>1, <1>2, <2>1
<1>4. S \in SUBSET R
  BY <1>1
<1>5. Cardinality(S) <= Cardinality(R)
  BY <1>3, <1>4, FS_Subset
<1> QED
  BY <1>3, <1>5 DEF OthersUpTo

-----------------------------------------------------------------------------
(* What migrate makes of it. *)

MigratedTunnel(l, i) ==
  Tunnel(MigratedName(l.vpns[i]), "manual", None, l.vpns[i].iface, l.vpns[i].auto,
         MigratedTable(l, i))

LEMMA TableInForm ==
  ASSUME NEW l \in LegacyFiles, NEW i \in DOMAIN l.vpns
  PROVE  MigratedTable(l, i) \in Nat \ {0}
<1>1. i \in 0..Len(l.vpns)
  BY VPNFields
<1>2. OthersUpTo(l, i) \in Nat /\ CorpTable(l) \in Nat \ {0}
  BY <1>1, OthersFacts, CorpFacts
<1> QED
  BY <1>2 DEF MigratedTable

\* migrate makes a configuration of this schema with a tunnel for every VPN.
LEMMA MigrateInForm ==
  ASSUME NEW l \in LegacyFiles
  PROVE  /\ Migrate(l) \in Docs /\ Migrate(l).version = CurrentVersion
         /\ Migrate(l).tunnels = [i \in DOMAIN l.vpns |-> MigratedTunnel(l, i)]
         /\ Migrate(l).rule = IF l.networks THEN CorpName(l) ELSE None
         /\ Migrate(l).via = IF l.domains THEN CorpName(l) ELSE None
         /\ Migrate(l).fallback = l.fallback
<1> DEFINE ts == [i \in DOMAIN l.vpns |-> MigratedTunnel(l, i)]
           rule == IF l.networks THEN CorpName(l) ELSE None
           via == IF l.domains THEN CorpName(l) ELSE None
<1>1. Migrate(l) = Doc(CurrentVersion, ts, rule, via, l.fallback)
  BY DEF Migrate, MigratedTunnel
<1>2. ASSUME NEW i \in DOMAIN l.vpns PROVE MigratedTunnel(l, i) \in TunnelSet
  <2>1. MigratedTable(l, i) \in Nat
    BY TableInForm
  <2>2. "manual" \in Text /\ None \in Text
    BY TextAssumption DEF Kinds
  <2> QED
    BY <2>1, <2>2, VPNFields DEF MigratedTunnel, Tunnel, TunnelSet
<1>3. DOMAIN l.vpns = 1..Len(l.vpns) /\ Len(l.vpns) \in Nat
  BY DEF LegacyFiles
<1>4. ts \in Seq(TunnelSet)
  BY <1>2, <1>3
<1>5. rule \in Text /\ via \in Text /\ l.fallback \in Resolvers
  BY CorpFacts, TextAssumption DEF LegacyFiles
<1> HIDE DEF ts, rule, via
<1>6. Doc(CurrentVersion, ts, rule, via, l.fallback) \in Docs
  BY <1>4, <1>5 DEF Doc, Docs, CurrentVersion
<1> DEFINE d == Doc(CurrentVersion, ts, rule, via, l.fallback)
<1>7. /\ d.version = CurrentVersion /\ d.tunnels = ts
      /\ d.rule = rule /\ d.via = via /\ d.fallback = l.fallback
  BY DEF Doc
<1> QED
  BY <1>1, <1>6, <1>7 DEF ts, rule, via

\* Every file that is one is read as a configuration, of this schema or of the old one.
LEMMA ParseInForm ==
  ASSUME NEW f \in Files, f \notin {NoFile, Garbage}
  PROVE  Parse(f) \in Docs
<1>1. CASE f \in LegacyFiles
  <2>1. Migrated(f) /\ "vpns" \in DOMAIN f
    BY <1>1 DEF LegacyFiles, Migrated
  <2> QED
    BY <1>1, <2>1, MigrateInForm DEF Parse
<1>2. CASE f \in Docs
  <2>1. "vpns" \notin DOMAIN f
    BY <1>2 DEF Docs
  <2>2. Legacy(<<>>, 0, FALSE, FALSE, f.fallback) \in LegacyFiles
    BY <1>2 DEF Docs, Legacy, LegacyFiles
  <2> QED
    BY <1>2, <2>1, <2>2, MigrateInForm DEF Parse
<1> QED
  BY <1>1, <1>2 DEF Files

\* The tables of a file with one corporate VPN: from the corporate one's on, as many as
\* there are VPNs, and none twice.
THEOREM MigrationSpreadsTables ==
  ASSUME NEW l \in LegacyFiles, NEW c \in DOMAIN l.vpns,
         \A j \in DOMAIN l.vpns : l.vpns[j].corp <=> j = c
  PROVE  /\ MigratedTable(l, c) = CorpTable(l)
         /\ \A i \in DOMAIN l.vpns :
              MigratedTable(l, i) \in CorpTable(l)..(CorpTable(l) + Len(l.vpns) - 1)
         /\ \A i, k \in DOMAIN l.vpns :
              MigratedTable(l, i) = MigratedTable(l, k) => i = k
<1>1. CorpTable(l) \in Nat /\ Len(l.vpns) \in Nat /\ DOMAIN l.vpns = 1..Len(l.vpns)
  BY CorpFacts DEF LegacyFiles
<1>2. ASSUME NEW i \in DOMAIN l.vpns PROVE OthersUpTo(l, i) \in Nat
  <2>1. i \in 0..Len(l.vpns)
    BY <1>1
  <2> QED
    BY <2>1, OthersFacts
<1>3. MigratedTable(l, c) = CorpTable(l)
  BY DEF MigratedTable
<1>4. ASSUME NEW i \in DOMAIN l.vpns, i # c
      PROVE  /\ MigratedTable(l, i) = CorpTable(l) + OthersUpTo(l, i)
             /\ OthersUpTo(l, i) \in 1..(Len(l.vpns) - 1)
  <2>1. ~l.vpns[i].corp
    BY <1>4
  <2>2. OthersUpTo(l, 0) < OthersUpTo(l, i) /\ OthersUpTo(l, 0) \in Nat
    <3>1. 0 \in 0..Len(l.vpns) /\ 0 < i
      BY <1>1
    <3> QED
      BY <2>1, <3>1, OthersGrow, OthersFacts
  <2>3. OthersUpTo(l, i) <= Len(l.vpns) - 1
    BY OthersBounded
  <2> QED
    BY <1>1, <1>2, <2>1, <2>2, <2>3 DEF MigratedTable
<1>5. ASSUME NEW i \in DOMAIN l.vpns
      PROVE  MigratedTable(l, i) \in CorpTable(l)..(CorpTable(l) + Len(l.vpns) - 1)
  BY <1>1, <1>3, <1>4
<1>6. ASSUME NEW i \in DOMAIN l.vpns, NEW k \in DOMAIN l.vpns, i < k
      PROVE  MigratedTable(l, i) # MigratedTable(l, k)
  <2>1. CASE i # c /\ k # c
    <3>1. OthersUpTo(l, i) < OthersUpTo(l, k)
      BY <1>1, <1>6, <2>1, OthersGrow
    <3> QED
      BY <1>1, <1>2, <1>4, <2>1, <3>1
  <2>2. CASE i = c /\ k # c
    BY <1>1, <1>3, <1>4, <2>2
  <2>3. CASE i # c /\ k = c
    BY <1>1, <1>3, <1>4, <2>3
  <2> QED
    BY <1>1, <1>6, <2>1, <2>2, <2>3
<1> QED
  BY <1>1, <1>3, <1>5, <1>6

\* What is read back from a configuration differs in its resolvers only.
LEMMA RefilledFacts ==
  ASSUME NEW c \in Docs
  PROVE  /\ Refilled(c) \in Docs /\ Refilled(c).version = c.version
         /\ Refilled(c).tunnels = c.tunnels /\ Refilled(c).rule = c.rule
         /\ Refilled(c).via = c.via /\ Refilled(c).fallback = Filled(c.fallback)
         /\ Refilled(c).fallback # None
<1>1. Filled(c.fallback) \in Resolvers /\ Filled(c.fallback) # None
  BY ResolversAssumption DEF Filled, Docs
<1> HIDE DEF Filled
<1> QED
  BY <1>1 DEF Refilled, Docs

LEMMA RefilledIsValid ==
  ASSUME NEW c \in Docs, Valid(c)
  PROVE  Valid(Refilled(c))
BY RefilledFacts DEF Valid, Names

\* The defaults leave a migrated file as it is, but for its resolvers.
LEMMA MigratedIsComplete ==
  ASSUME NEW l \in LegacyFiles
  PROVE  Read(l) = Refilled(Migrate(l))
<1> DEFINE m == Migrate(l)
           ds == [i \in DOMAIN m.tunnels |-> Completed(m.tunnels[i], i)]
<1>1. Read(l) = ApplyDefaults(m)
  <2>1. Migrated(l) /\ "vpns" \in DOMAIN l
    BY DEF LegacyFiles, Migrated
  <2> QED
    BY <2>1 DEF Read, Parse
<1>2. /\ m \in Docs /\ m.version = CurrentVersion
      /\ m.tunnels = [i \in DOMAIN l.vpns |-> MigratedTunnel(l, i)]
  BY MigrateInForm
<1> HIDE DEF m
<1>3. ASSUME NEW i \in DOMAIN l.vpns
      PROVE  Completed(MigratedTunnel(l, i), i) = MigratedTunnel(l, i)
  <2> DEFINE t == MigratedTunnel(l, i)
  <2>1. t.kind = "manual" /\ t.table = MigratedTable(l, i)
    BY DEF MigratedTunnel, Tunnel
  <2>2. t.kind # None /\ t.table # 0
    BY <2>1, TableInForm, TextAssumption DEF Kinds
  <2>3. t = [name |-> t.name, kind |-> t.kind, profile |-> t.profile, iface |-> t.iface,
             auto |-> t.auto, table |-> t.table]
    BY DEF MigratedTunnel, Tunnel
  <2> HIDE DEF t
  <2>4. [t EXCEPT !.kind = t.kind, !.table = t.table] = t
    BY <2>3
  <2> QED
    BY <2>2, <2>4 DEF Completed, t
<1>4. ds = m.tunnels
  BY <1>2, <1>3
<1>5. ApplyDefaults(m) = Doc(CurrentVersion, ds, m.rule, m.via, Filled(m.fallback))
  BY DEF ApplyDefaults
<1> HIDE DEF ds
<1>6. Doc(CurrentVersion, m.tunnels, m.rule, m.via, Filled(m.fallback)) = Refilled(m)
  BY <1>2 DEF Docs, Doc, Refilled
<1> QED
  BY <1>1, <1>4, <1>5, <1>6 DEF m

\* A file of the old schema as its documentation has it loads, however many VPNs it has.
LEMMA ProperLoads ==
  ASSUME NEW l \in LegacyFiles, Proper(l)
  PROVE  /\ Loads(l)
         /\ Read(l).tunnels = [i \in DOMAIN l.vpns |-> MigratedTunnel(l, i)]
         /\ \A c \in DOMAIN l.vpns :
              l.vpns[c].corp => /\ MigratedTable(l, c) = CorpTable(l)
                                /\ CorpName(l) = MigratedName(l.vpns[c])
         /\ l.networks => Read(l).rule = CorpName(l)
         /\ l.domains => Read(l).via = CorpName(l)
<1> DEFINE m == Refilled(Migrate(l))
<1>1. /\ Read(l) = m
      /\ m.tunnels = [i \in DOMAIN l.vpns |-> MigratedTunnel(l, i)]
      /\ m.rule = (IF l.networks THEN CorpName(l) ELSE None)
      /\ m.via = (IF l.domains THEN CorpName(l) ELSE None)
  BY MigratedIsComplete, MigrateInForm, RefilledFacts
<1>2. PICK c \in DOMAIN l.vpns : \A j \in DOMAIN l.vpns : l.vpns[j].corp <=> j = c
  BY DEF Proper
<1>3. /\ MigratedTable(l, c) = CorpTable(l)
      /\ \A i \in DOMAIN l.vpns :
           MigratedTable(l, i) \in CorpTable(l)..(CorpTable(l) + Len(l.vpns) - 1)
      /\ \A i, k \in DOMAIN l.vpns : MigratedTable(l, i) = MigratedTable(l, k) => i = k
  BY <1>2, MigrationSpreadsTables
<1>4. CorpName(l) = MigratedName(l.vpns[c])
  <2> DEFINE corps == {i \in DOMAIN l.vpns : l.vpns[i].corp}
  <2>1. corps = {c}
    BY <1>2
  <2>2. Max(corps) = c
    <3>1. corps \in SUBSET (1..Len(l.vpns)) /\ Len(l.vpns) \in Nat
      BY DEF LegacyFiles
    <3> QED
      BY <2>1, <3>1, MaxIsIn
  <2> QED
    BY <2>1, <2>2 DEF CorpName
<1>5. \A i \in DOMAIN l.vpns :
        /\ m.tunnels[i].name = MigratedName(l.vpns[i])
        /\ m.tunnels[i].kind = "manual" /\ m.tunnels[i].profile = None
        /\ m.tunnels[i].iface = l.vpns[i].iface /\ m.tunnels[i].auto = l.vpns[i].auto
        /\ m.tunnels[i].table = MigratedTable(l, i)
  BY <1>1 DEF MigratedTunnel, Tunnel
<1>6. DOMAIN m.tunnels = DOMAIN l.vpns
  BY <1>1
<1> HIDE DEF m
<1>7. ASSUME NEW i \in DOMAIN l.vpns
      PROVE  /\ m.tunnels[i].name \notin {None, Direct}
             /\ m.tunnels[i].kind \in Kinds
             /\ m.tunnels[i].kind = "manual" => m.tunnels[i].iface # None \/ m.tunnels[i].auto
             /\ m.tunnels[i].kind # "manual" => m.tunnels[i].profile # None
             /\ m.tunnels[i].table \in 1..LastTable
  <2>1. MigratedTable(l, i) \in 1..LastTable
    <3>1. CorpTable(l) \in Nat \ {0} /\ Len(l.vpns) \in Nat /\ LastTable \in Nat
      BY CorpFacts, TableAssumption DEF LegacyFiles
    <3>2. CorpTable(l) + Len(l.vpns) - 1 <= LastTable
      BY DEF Proper
    <3> QED
      BY <1>3, <3>1, <3>2
  <2> QED
    BY <1>5, <2>1 DEF Proper, Kinds
<1>8. ASSUME NEW i \in DOMAIN l.vpns, NEW k \in DOMAIN l.vpns, i # k
      PROVE  m.tunnels[i].name # m.tunnels[k].name /\ m.tunnels[i].table # m.tunnels[k].table
  BY <1>3, <1>5, <1>8 DEF Proper
<1>9. {m.rule, m.via} \subseteq Names(m) \cup {Direct, None}
  BY <1>1, <1>4, <1>5, <1>6 DEF Names
<1>10. Valid(m)
  BY <1>6, <1>7, <1>8, <1>9 DEF Valid
<1>11. l \notin {NoFile, Garbage}
  <2>1. "vpns" \in DOMAIN l
    BY DEF LegacyFiles
  <2>2. "vpns" \notin DOMAIN NoFile /\ "vpns" \notin DOMAIN Garbage
    BY DEF NoFile, Garbage
  <2> QED
    BY <2>1, <2>2
<1> QED
  BY <1>1, <1>2, <1>3, <1>4, <1>10, <1>11 DEF Loads

=============================================================================
