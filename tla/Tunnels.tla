------------------------------- MODULE Tunnels -------------------------------
(***************************************************************************)
(* Which interface a configured tunnel is taken to be: StatusAll of        *)
(* src/internal/vpn/vpn.go, one command at a time, with NetworkManager and *)
(* the kernel connecting and dropping VPNs meanwhile.  StatusAll lists the *)
(* interfaces once and asks NetworkManager for each profile after that, so *)
(* what it puts together is of two moments.                                *)
(***************************************************************************)
EXTENDS Naturals, Sequences

LOCAL INSTANCE Functions

CONSTANTS
  None,        \* an empty string
  TunnelList,  \* the tunnels of the configuration, in its order
  Devices,     \* the interfaces there may be, in the order of their names
  TunnelLike,  \* those whose name starts like that of a tunnel
  Host,        \* the owner of an interface that is no VPN's
  Fixed,       \* the interfaces that are always there, with their address and owner
  Underlay,    \* the interface the VPNs run over
  VPN,         \* NetworkManager's VPN profiles
  Device,      \* its profiles that are a device of their own
  DevicesOf,   \* the interfaces a profile may get
  AddressesOf  \* the addresses a profile may get

Profile == VPN \cup Device

\* Profiles share neither addresses, nor the interfaces of those that are a device.
ASSUME TunnelsAssumption ==
  /\ None \notin Range(Devices) /\ DOMAIN Fixed \subseteq Range(Devices)
  /\ \A p \in Profile :
       /\ DevicesOf[p] \subseteq Range(Devices) /\ None \notin AddressesOf[p]
       /\ \A d \in DOMAIN Fixed : d \notin DevicesOf[p] /\ Fixed[d].addr \notin AddressesOf[p]
  /\ \A p, q \in Profile : p # q => AddressesOf[p] \cap AddressesOf[q] = {}
  /\ \A p \in Device, q \in Profile : p # q => DevicesOf[p] \cap DevicesOf[q] = {}
  /\ TunnelList \in Seq(Range(TunnelList)) /\ Devices \in Seq(Range(Devices))
  /\ \A i \in DOMAIN TunnelList :
       TunnelList[i].kind = "nm" => TunnelList[i].profile \in Profile

VARIABLES
  links,  \* the interfaces that are present: owner, and address, which it gets coming up
  nm,     \* what NetworkManager knows of its active profiles
  obs,    \* the observation under way, or the last one
  calm    \* nothing fails and no VPN connects or drops from now on

vars == <<links, nm, obs, calm>>

Inactive == [dev |-> None, addr |-> None, shown |-> FALSE]

Nothing == [d \in {} |-> None]

\* links: the listing that is being read.  next: the tunnel that is looked for next.
\* seen: for each tunnel the interface it was found routable over, or None.
Observing(ls, n) ==
  [links |-> ls, next |-> n, seen |-> [i \in DOMAIN TunnelList |-> None]]

Init ==
  /\ links = Fixed
  /\ nm = [p \in Profile |-> Inactive]
  /\ obs = Observing(Nothing, Len(TunnelList) + 1)
  /\ calm = FALSE

-----------------------------------------------------------------------------
(* NetworkManager and the kernel. *)

Put(f, k, v) == [x \in DOMAIN f \cup {k} |-> IF x = k THEN v ELSE f[x]]

Connect(p) ==
  /\ ~calm /\ nm[p] = Inactive
  /\ \E d \in DevicesOf[p] \ DOMAIN links, a \in AddressesOf[p] :
       /\ links' = Put(links, d, [addr |-> None, of |-> p])
       /\ nm' = [nm EXCEPT ![p] = [dev |-> d, addr |-> a, shown |-> FALSE]]
  /\ UNCHANGED <<obs, calm>>

\* The interface gets its address, and NetworkManager shows that of a VPN, in either order
\* (what it shows of a profile that is not configured nobody asks).
Assign(p) ==
  LET d == nm[p].dev IN
  /\ d \in DOMAIN links /\ links[d] = [addr |-> None, of |-> p]
  /\ links' = [links EXCEPT ![d].addr = nm[p].addr]
  /\ UNCHANGED <<nm, obs, calm>>

Show(p) ==
  /\ p \in VPN /\ \E i \in DOMAIN TunnelList : TunnelList[i].profile = p
  /\ nm[p] # Inactive /\ ~nm[p].shown
  /\ nm' = [nm EXCEPT ![p].shown = TRUE]
  /\ UNCHANGED <<links, obs, calm>>

\* The connection ends; its interface goes then, or has gone before.
Drop(p) ==
  /\ ~calm /\ nm[p] # Inactive
  /\ nm' = [nm EXCEPT ![p] = Inactive]
  /\ UNCHANGED <<links, obs, calm>>

Left(d) == d \notin DOMAIN Fixed /\ nm[links[d].of].dev # d

Vanish(d) ==
  /\ d \in DOMAIN links \ DOMAIN Fixed
  /\ Left(d) \/ ~calm
  /\ links' = [x \in DOMAIN links \ {d} |-> links[x]]
  /\ UNCHANGED <<nm, obs, calm>>

-----------------------------------------------------------------------------
(* ResolveInterface *)

\* The interfaces of a listing that are up.
Up(ifs) == {d \in DOMAIN ifs : ifs[d].addr # None}

\* The first of some interfaces by name.
First(ds) ==
  LET at == {i \in DOMAIN Devices : Devices[i] \in ds}
  IN  IF at = {} THEN None ELSE Devices[CHOOSE i \in at : \A j \in at : i <= j]

\* linkWithAddress: the interface that has an address, up or not.
LinkWithAddress(ifs, a) ==
  IF a = None THEN None ELSE First({d \in DOMAIN ifs : ifs[d].addr = a})

\* firstTunnelLike
FirstTunnelLike(ifs) == First(TunnelLike \cap Up(ifs))

\* What nmcli prints: for a VPN the interface is that it runs over.
Shown(p) ==
  [device |-> IF nm[p] = Inactive THEN None ELSE IF p \in VPN THEN Underlay ELSE nm[p].dev,
   addr   |-> IF nm[p].shown THEN nm[p].addr ELSE None]

\* (Mutant: the interface NetworkManager names is taken for the tunnel.)
NmDeviceByName(p, ifs) == Shown(p).device

\* nmDevice, nmDeviceFrom
NmDevice(p, ifs) ==
  IF p \in VPN THEN LinkWithAddress(ifs, Shown(p).addr) ELSE Shown(p).device

\* The tunnels that nmcli is asked about: a named interface is taken at its word.
Asks(t) == t.iface = None /\ t.kind = "nm"

ResolveInterface(t, ifs) ==
  CASE t.iface # None -> t.iface
    [] Asks(t)        -> NmDevice(t.profile, ifs)
    [] t.iface = None /\ t.kind \in {"wg-quick", "awg-quick"} -> t.profile
    [] t.iface = None /\ t.kind = "manual" -> IF t.auto THEN FirstTunnelLike(ifs) ELSE None

-----------------------------------------------------------------------------
(* StatusAll *)

Outcomes == IF calm THEN {TRUE} ELSE BOOLEAN

\* (Mutant: the interfaces are those of the start.)
ListLinksOnce(ok) ==
  /\ obs.next > Len(TunnelList)
  /\ obs' = Observing(Fixed, 1)
  /\ UNCHANGED <<links, nm, calm>>

\* Without a listing every tunnel is reported down.
ListLinks(ok) ==
  /\ obs.next > Len(TunnelList)
  /\ obs' = IF ok THEN Observing(links, 1) ELSE Observing(Nothing, obs.next)
  /\ UNCHANGED <<links, nm, calm>>

\* One tunnel is routable if the interface it resolves to is one of these.
Answer(ok, routable) ==
  /\ obs.next <= Len(TunnelList)
  /\ LET t == TunnelList[obs.next]
         d == IF Asks(t) /\ ~ok THEN None ELSE ResolveInterface(t, obs.links)
     IN  obs' = [links |-> IF obs.next < Len(TunnelList) THEN obs.links ELSE Nothing,
                 next  |-> obs.next + 1,
                 seen  |-> [obs.seen EXCEPT ![obs.next] = IF d \in routable THEN d ELSE None]]
  /\ UNCHANGED <<links, nm, calm>>

\* (Mutant: an interface is up as soon as it is there.)
StatusPresent(ok) == Answer(ok, DOMAIN obs.links)

\* Status of the next tunnel: it is routable over an interface that the listing has, up.
\* nmcli may fail, which reads as a profile without an interface.
Status(ok) == Answer(ok, Up(obs.links))

-----------------------------------------------------------------------------

Settle == ~calm /\ calm' = TRUE /\ UNCHANGED <<links, nm, obs>>

Observe == \E ok \in Outcomes : ListLinks(ok) \/ Status(ok)

\* A connection that has begun gets on, and an interface nobody owns any more goes.
Progress(p) == Assign(p) \/ Show(p)

Next ==
  \/ Observe
  \/ \E p \in Profile : Connect(p) \/ Progress(p) \/ Drop(p)
  \/ \E d \in Range(Devices) : Vanish(d)
  \/ Settle

Spec == Init /\ [][Next]_vars

\* The daemon observes at every tick, and its commands return; what NetworkManager and the
\* kernel have begun they go on with.
Fairness ==
  /\ WF_vars(Observe)
  /\ WF_vars(\E p \in Profile : Progress(p))
  /\ WF_vars(\E d \in DOMAIN links : Left(d) /\ Vanish(d))

FairSpec == Spec /\ Fairness

-----------------------------------------------------------------------------
(* Properties. *)

\* Type invariant.  A tunnel is reported routable only over an interface that was up when
\* the interfaces were listed.
TunnelsTypeOK ==
  /\ DOMAIN links \subseteq Range(Devices) /\ DOMAIN Fixed \subseteq DOMAIN links
  /\ \A p \in Profile : nm[p] # Inactive => nm[p].dev \in DevicesOf[p]
                                            /\ nm[p].addr \in AddressesOf[p]
  /\ obs.next \in 1..Len(TunnelList) + 1
  /\ obs.next <= Len(TunnelList)
       => \A i \in DOMAIN TunnelList :
            obs.seen[i] # None => obs.seen[i] \in Up(obs.links)
  /\ calm \in BOOLEAN

\* The interface an observation of this moment has to report.
Current(p) ==
  LET d == nm[p].dev IN
  IF d \in DOMAIN links /\ links[d].of = p /\ (p \in VPN => nm[p].shown) THEN d ELSE None

\* The interfaces of p in a listing, which the code does not know.
Own(p, ifs) == {d \in DOMAIN ifs : ifs[d].of = p}

\* The interface of p was listed as it is now, and no other of p's.
KeptSinceListing(p) ==
  /\ Own(p, obs.links) = {Current(p)}
  /\ obs.links[Current(p)] = links[Current(p)]
  /\ links[Current(p)].addr # None

\* Which interface a profile's tunnel is reported on is up to that profile's own
\* interfaces, whatever the other VPNs connect, drop and trade between the listing and
\* the answer of NetworkManager: it is one that was the profile's when it was listed,
\* and if the profile has kept the one it had, it is that one, unless nmcli fails.
\* What this does not exclude: the name may have passed to another VPN since the listing,
\* and an interface that an earlier connection of the same profile has left behind, with
\* the same address, may come first.  (FoundInOneTick: the next observation has it right.)
ReportsItsOwn ==
  [][\A i \in DOMAIN TunnelList :
       Asks(TunnelList[i]) /\ obs.next = i /\ obs'.next = i + 1
         => LET p == TunnelList[i].profile IN
            /\ obs'.seen[i] \in Own(p, obs.links) \cup {None}
            /\ KeptSinceListing(p) /\ Status(TRUE) => obs'.seen[i] = Current(p)
    ]_vars

Reports(i) ==
  LET t == TunnelList[i] IN Asks(t) => obs.seen[i] = Current(t.profile)

\* Connections are left alone and have got as far as they can: every interface is up and
\* some connection's, and NetworkManager shows every VPN that is asked for.
Steady ==
  /\ calm
  /\ \A d \in DOMAIN links \ DOMAIN Fixed : ~Left(d) /\ links[d].addr # None
  /\ \A p \in VPN : nm[p] # Inactive /\ (\E i \in DOMAIN TunnelList : TunnelList[i].profile = p)
                      => nm[p].shown

\* The observation is of this moment, and right as far as it has come.
Found ==
  /\ obs.next <= Len(TunnelList) => obs.links = links
  /\ \A i \in DOMAIN TunnelList : i < obs.next => Reports(i)

\* From then on the observation that begins next finds every tunnel where it is, and so do
\* all after it: none is missed because something of an earlier moment is in the way.
FoundInOneTick ==
  [][Steady => Steady' /\ (Found \/ obs.next > Len(TunnelList) => Found')]_vars

\* Once connections are left alone, every observation reports them where they are: a
\* tunnel that reconnected on another interface, with another address, or not at all is
\* picked up without anybody asking (reconcileInterval).
PickedUp ==
  <>[](calm /\ obs.next > Len(TunnelList) => \A i \in DOMAIN TunnelList : Reports(i))
=============================================================================
