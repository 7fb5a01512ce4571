---------------------------- MODULE TunnelsProofs ----------------------------
(***************************************************************************)
(* Theorems about the resolution of tunnels to interfaces, for any tunnels *)
(* and profiles and any interfaces and addresses these may get.            *)
(***************************************************************************)
EXTENDS Tunnels, WellFoundedInduction, TLAPS

LOCAL INSTANCE Functions

-----------------------------------------------------------------------------
(* The first interface by name. *)

LEMMA Least ==
  ASSUME NEW S, S \subseteq Nat, S # {}
  PROVE  \E i \in S : \A j \in S : i <= j
<1>1. PICK R : R = {ss \in Nat \X Nat : ss[1] < ss[2]}
  OBVIOUS
<1>2. IsWellFoundedOn(R, Nat)
  BY <1>1, NatLessThanWellFounded DEF OpToRel
<1>3. PICK i \in S : \A j \in S : <<j, i>> \notin R
  BY <1>2, WFMin
<1>4. ASSUME NEW j \in S PROVE i <= j
  <2>1. i \in Nat /\ j \in Nat /\ <<j, i>> \notin R
    BY <1>3
  <2>2. ~(j < i)
    BY <1>1, <2>1
  <2> QED
    BY <2>1, <2>2
<1> QED
  BY <1>4

LEMMA FirstIsOne ==
  ASSUME NEW ds, First(ds) # None
  PROVE  First(ds) \in ds
<1> DEFINE at == {i \in DOMAIN Devices : Devices[i] \in ds}
<1>1. at # {}
  BY DEF First
<1>2. at \subseteq Nat
  BY TunnelsAssumption
<1>3. \E i \in at : \A j \in at : i <= j
  <2> HIDE DEF at
  <2> QED BY <1>1, <1>2, Least
<1>4. First(ds) = Devices[CHOOSE i \in at : \A j \in at : i <= j]
  BY <1>1 DEF First
<1>5. (CHOOSE i \in at : \A j \in at : i <= j) \in at
  BY <1>3
<1> QED
  BY <1>4, <1>5

-----------------------------------------------------------------------------
(* The inductive invariant. *)

\* Every interface of a listing is one that is always there, or belongs to a profile that
\* may get it, with an address of that profile if it has one.
Listing(ls) ==
  /\ DOMAIN ls \subseteq Range(Devices)
  /\ \A d \in DOMAIN ls :
       \/ d \in DOMAIN Fixed /\ ls[d] = Fixed[d]
       \/ \E p \in Profile : /\ d \in DevicesOf[p] /\ ls[d].of = p
                             /\ ls[d].addr \in AddressesOf[p] \cup {None}

KernelInv ==
  /\ Listing(links) /\ DOMAIN Fixed \subseteq DOMAIN links
  /\ \A p \in Profile :
       \/ nm[p] = Inactive
       \/ nm[p] \in [dev : DevicesOf[p], addr : AddressesOf[p], shown : BOOLEAN]
  /\ nm = [p \in Profile |-> nm[p]]
  /\ calm \in BOOLEAN

ObsInv ==
  /\ obs = [links |-> obs.links, next |-> obs.next, seen |-> obs.seen]
  /\ Listing(obs.links)
  /\ obs.next \in 1..Len(TunnelList) + 1
  /\ obs.seen = [i \in DOMAIN TunnelList |-> obs.seen[i]]
  /\ obs.next <= Len(TunnelList)
       => \A i \in DOMAIN TunnelList :
            obs.seen[i] # None => obs.seen[i] \in Up(obs.links)

Inv == KernelInv /\ ObsInv

LEMMA FixedIsListing == Listing(Fixed)
BY TunnelsAssumption DEF Listing

LEMMA NothingIsListing == Listing(Nothing)
BY DEF Listing, Nothing

LEMMA LengthFacts == Len(TunnelList) \in Nat /\ DOMAIN TunnelList = 1..Len(TunnelList)
BY TunnelsAssumption

\* An observation that begins has seen nothing.
LEMMA ObservingInv ==
  ASSUME NEW ls, Listing(ls), NEW n \in 1..Len(TunnelList) + 1, obs' = Observing(ls, n)
  PROVE  ObsInv'
BY DEF ObsInv, Observing

LEMMA InitInv == Init => Inv
<1> SUFFICES ASSUME Init PROVE Inv
  OBVIOUS
<1>1. KernelInv
  BY FixedIsListing DEF Init, KernelInv
<1>2. ObsInv
  BY NothingIsListing, LengthFacts DEF Init, ObsInv, Observing
<1> QED
  BY <1>1, <1>2 DEF Inv

-----------------------------------------------------------------------------
(* The kernel and NetworkManager. *)

LEMMA KernelStep ==
  ASSUME Inv, UNCHANGED obs, KernelInv'
  PROVE  Inv'
BY DEF Inv, ObsInv

LEMMA ConnectInv == ASSUME Inv, NEW p \in Profile, Connect(p) PROVE Inv'
<1>1. PICK d \in DevicesOf[p] \ DOMAIN links, a \in AddressesOf[p] :
        /\ links' = Put(links, d, [addr |-> None, of |-> p])
        /\ nm' = [nm EXCEPT ![p] = [dev |-> d, addr |-> a, shown |-> FALSE]]
  BY DEF Connect
<1>2. /\ DOMAIN links' = DOMAIN links \cup {d}
      /\ \A x \in DOMAIN links : links'[x] = links[x]
      /\ links'[d] = [addr |-> None, of |-> p]
  BY <1>1 DEF Put
<1>3. Listing(links') /\ DOMAIN Fixed \subseteq DOMAIN links'
  <2>1. d \in Range(Devices)
    BY TunnelsAssumption
  <2>2. links'[d].of = p /\ links'[d].addr = None
    BY <1>2
  <2>3. \A x \in DOMAIN links' : x = d \/ (x \in DOMAIN links /\ links'[x] = links[x])
    BY <1>2
  <2> QED
    BY <1>2, <2>1, <2>2, <2>3 DEF Inv, KernelInv, Listing
<1>4. KernelInv'
  BY <1>1, <1>3 DEF Connect, Inv, KernelInv
<1> QED
  BY <1>4, KernelStep DEF Connect

\* An interface that a profile has is not one of those that are always there.
LEMMA OwnedIsActive ==
  ASSUME Inv, NEW p \in Profile, nm[p].dev \in DOMAIN links
  PROVE  nm[p].dev \in DevicesOf[p] /\ nm[p].addr \in AddressesOf[p]
BY TunnelsAssumption DEF Inv, KernelInv, Listing, Inactive

LEMMA AssignInv == ASSUME Inv, NEW p \in Profile, Assign(p) PROVE Inv'
<1> DEFINE d == nm[p].dev
<1>1. d \in DevicesOf[p] /\ nm[p].addr \in AddressesOf[p] /\ d \in DOMAIN links
      /\ links[d] = [addr |-> None, of |-> p]
      /\ links' = [links EXCEPT ![d].addr = nm[p].addr]
  BY OwnedIsActive DEF Assign
<1> HIDE DEF d
<1>2. DOMAIN links' = DOMAIN links /\ links'[d].of = p /\ links'[d].addr = nm[p].addr
      /\ \A x \in DOMAIN links \ {d} : links'[x] = links[x]
  BY <1>1
<1>3. Listing(links') /\ DOMAIN Fixed \subseteq DOMAIN links'
  BY <1>1, <1>2 DEF Inv, KernelInv, Listing
<1>4. KernelInv'
  BY <1>3 DEF Assign, Inv, KernelInv
<1> QED
  BY <1>4, KernelStep DEF Assign

LEMMA ShowInv == ASSUME Inv, NEW p \in Profile, Show(p) PROVE Inv'
<1>1. nm' = [nm EXCEPT ![p].shown = TRUE] /\ nm[p] # Inactive
      /\ UNCHANGED <<links, obs, calm>>
  BY DEF Show
<1>2. nm'[p] \in [dev : DevicesOf[p], addr : AddressesOf[p], shown : BOOLEAN]
      /\ \A q \in Profile \ {p} : nm'[q] = nm[q]
  BY <1>1 DEF Inv, KernelInv
<1>3. KernelInv'
  BY <1>1, <1>2 DEF Inv, KernelInv
<1> QED
  BY <1>1, <1>3, KernelStep

LEMMA DropInv == ASSUME Inv, NEW p \in Profile, Drop(p) PROVE Inv'
<1>1. KernelInv'
  BY DEF Drop, Inv, KernelInv
<1> QED
  BY <1>1, KernelStep DEF Drop

LEMMA VanishInv == ASSUME Inv, NEW d, Vanish(d) PROVE Inv'
<1>1. DOMAIN links' = DOMAIN links \ {d} /\ d \notin DOMAIN Fixed
      /\ \A x \in DOMAIN links' : links'[x] = links[x]
  BY DEF Vanish
<1>2. Listing(links') /\ DOMAIN Fixed \subseteq DOMAIN links'
  BY <1>1 DEF Inv, KernelInv, Listing
<1>3. KernelInv'
  BY <1>2 DEF Vanish, Inv, KernelInv
<1> QED
  BY <1>3, KernelStep DEF Vanish

-----------------------------------------------------------------------------
(* The observation. *)

LEMMA ListLinksInv == ASSUME Inv, NEW ok \in BOOLEAN, ListLinks(ok) PROVE Inv'
<1>1. KernelInv'
  BY DEF ListLinks, Inv, KernelInv
<1>2. obs' = Observing(links, 1) \/ obs' = Observing(Nothing, obs.next)
  BY DEF ListLinks
<1>3. ObsInv'
  BY <1>2, ObservingInv, NothingIsListing, LengthFacts DEF Inv, KernelInv, ObsInv
<1> QED
  BY <1>1, <1>3 DEF Inv

\* What NetworkManager says leads to an interface of the profile, or to none that is up:
\* a VPN's address is nobody else's, another profile's device is its own.
LEMMA ResolvedIsOwn ==
  ASSUME Inv, NEW p \in Profile, NmDevice(p, obs.links) \in DOMAIN obs.links
  PROVE  NmDevice(p, obs.links) \in Own(p, obs.links)
<1> DEFINE d == NmDevice(p, obs.links)
<1>1. Listing(obs.links) /\ d \in DOMAIN obs.links /\ d # None
  BY TunnelsAssumption DEF Inv, ObsInv, Listing
<1>2. CASE p \in VPN
  <2> DEFINE a == Shown(p).addr
             ds == {x \in DOMAIN obs.links : obs.links[x].addr = a}
  <2>1. d = IF a = None THEN None ELSE First(ds)
    BY <1>2 DEF NmDevice, LinkWithAddress
  <2>2. a # None /\ First(ds) # None /\ d = First(ds)
    <3> HIDE DEF d, a, ds
    <3> QED BY <1>1, <2>1
  <2>3. d \in ds
    <3> HIDE DEF d, a, ds
    <3> QED BY <2>2, FirstIsOne
  <2>4. a \in AddressesOf[p]
    BY <2>2 DEF Shown, Inv, KernelInv, Inactive
  <2>5. obs.links[d].addr \in AddressesOf[p]
    BY <2>3, <2>4
  <2> HIDE DEF d
  <2>6. d \notin DOMAIN Fixed \/ obs.links[d] # Fixed[d]
    BY <2>5, TunnelsAssumption
  <2>7. PICK q \in Profile : obs.links[d].of = q
                             /\ obs.links[d].addr \in AddressesOf[q] \cup {None}
    BY <1>1, <2>6 DEF Listing
  <2>8. obs.links[d].addr \in AddressesOf[q]
    BY <2>5, <2>7, TunnelsAssumption
  <2> QED
    BY <1>1, <2>5, <2>7, <2>8, TunnelsAssumption DEF d, Own
<1>3. CASE p \notin VPN
  <2>1. p \in Device /\ d = Shown(p).device
    BY <1>3 DEF NmDevice, Profile
  <2>2. d \in DevicesOf[p]
    BY <1>1, <1>3, <2>1 DEF Shown, Inv, KernelInv
  <2> HIDE DEF d
  <2>3. d \notin DOMAIN Fixed
    BY <2>2, TunnelsAssumption
  <2>4. PICK q \in Profile : d \in DevicesOf[q] /\ obs.links[d].of = q
    BY <1>1, <2>3 DEF Listing
  <2> QED
    BY <1>1, <2>1, <2>2, <2>4, TunnelsAssumption DEF d, Own
<1> QED
  BY <1>2, <1>3

\* The step that answers for tunnel n, and with what.
Answered(n, ok) ==
  LET t == TunnelList[n] IN IF Asks(t) /\ ~ok THEN None ELSE ResolveInterface(t, obs.links)

Over(d) == IF d \in Up(obs.links) THEN d ELSE None

LEMMA StatusAnswers ==
  ASSUME Inv, NEW ok \in BOOLEAN, Status(ok), NEW n, n = obs.next
  PROVE  /\ n \in DOMAIN TunnelList /\ n <= Len(TunnelList) /\ n \in Nat
         /\ obs' = [links |-> obs'.links, next |-> n + 1, seen |-> obs'.seen]
         /\ obs'.next = n + 1
         /\ obs'.links = IF n < Len(TunnelList) THEN obs.links ELSE Nothing
         /\ obs'.seen = [i \in DOMAIN TunnelList |->
                           IF i # n THEN obs.seen[i] ELSE Over(Answered(n, ok))]
         /\ UNCHANGED <<links, nm, calm>>
<1> DEFINE it == Over(Answered(n, ok))
<1>1. n \in DOMAIN TunnelList /\ n <= Len(TunnelList) /\ n \in Nat
  BY LengthFacts DEF Inv, ObsInv, Status, Answer
<1>2. obs' = [links |-> IF n < Len(TunnelList) THEN obs.links ELSE Nothing,
              next  |-> n + 1, seen |-> [obs.seen EXCEPT ![n] = it]]
      /\ UNCHANGED <<links, nm, calm>>
  BY DEF Status, Answer, Over, Answered
<1> HIDE DEF it
<1>3. /\ obs'.seen = [i \in DOMAIN TunnelList |-> IF i # n THEN obs.seen[i] ELSE it]
      /\ obs'.next = n + 1
      /\ obs'.links = IF n < Len(TunnelList) THEN obs.links ELSE Nothing
  BY <1>1, <1>2 DEF Inv, ObsInv
<1>4. obs' = [links |-> obs'.links, next |-> n + 1, seen |-> obs'.seen]
  BY <1>2
<1> QED
  BY <1>1, <1>2, <1>3, <1>4 DEF it

LEMMA StatusInv == ASSUME Inv, NEW ok \in BOOLEAN, Status(ok) PROVE Inv'
<1> DEFINE n == obs.next
<1>1. PICK d : /\ obs' = [links |-> obs'.links, next |-> n + 1, seen |-> obs'.seen]
               /\ obs'.links = IF n < Len(TunnelList) THEN obs.links ELSE Nothing
               /\ obs'.seen = [i \in DOMAIN TunnelList |->
                                 IF i # n THEN obs.seen[i] ELSE Over(d)]
               /\ UNCHANGED <<links, nm, calm>>
  BY StatusAnswers
<1>2. n \in DOMAIN TunnelList /\ n <= Len(TunnelList) /\ n \in Nat
  BY StatusAnswers
<1>3. KernelInv'
  BY <1>1 DEF Inv, KernelInv
<1>4. Listing(obs'.links)
  BY <1>1, NothingIsListing DEF Inv, ObsInv
<1>5. obs'.next = n + 1 /\ obs'.next \in 1..Len(TunnelList) + 1
  BY <1>1, <1>2, LengthFacts
<1>6. ASSUME obs'.next <= Len(TunnelList), NEW i \in DOMAIN TunnelList, obs'.seen[i] # None
      PROVE  obs'.seen[i] \in Up(obs'.links)
  <2>1. obs'.links = obs.links
    BY <1>1, <1>2, <1>5, <1>6, LengthFacts
  <2> QED
    BY <1>1, <1>2, <1>6, <2>1 DEF Inv, ObsInv, Over
<1>7. ObsInv'
  BY <1>1, <1>4, <1>5, <1>6 DEF ObsInv
<1> QED
  BY <1>3, <1>7 DEF Inv

-----------------------------------------------------------------------------
(* Theorems. *)

LEMMA NextInv == Inv /\ [Next]_vars => Inv'
<1> SUFFICES ASSUME Inv, [Next]_vars PROVE Inv'
  OBVIOUS
<1>1. CASE Observe
  BY <1>1, ListLinksInv, StatusInv DEF Observe, Outcomes
<1>2. ASSUME NEW p \in Profile, Connect(p) \/ Progress(p) \/ Drop(p) PROVE Inv'
  BY <1>2, ConnectInv, AssignInv, ShowInv, DropInv DEF Progress
<1>3. ASSUME NEW d, Vanish(d) PROVE Inv'
  BY <1>3, VanishInv
<1>4. CASE Settle
  BY <1>4 DEF Settle, Inv, KernelInv, ObsInv
<1>5. CASE UNCHANGED vars
  BY <1>5 DEF vars, Inv, KernelInv, ObsInv
<1> QED
  BY <1>1, <1>2, <1>3, <1>4, <1>5 DEF Next

\* An observation reports a tunnel routable only over an interface that its listing has,
\* up, and the kernel keeps the interfaces that are always there.
THEOREM TunnelsType == Spec => []TunnelsTypeOK
<1>1. Inv => TunnelsTypeOK
  BY DEF Inv, KernelInv, ObsInv, Listing, TunnelsTypeOK
<1> QED
  BY <1>1, InitInv, NextInv, PTL DEF Spec

-----------------------------------------------------------------------------
(* Once connections are left alone. *)

\* An interface that is its profile's current one has the profile's current address, if any.
AddrInv ==
  \A p \in Profile :
    nm[p].dev \in DOMAIN links /\ links[nm[p].dev].of = p
      => links[nm[p].dev].addr \in {None, nm[p].addr}

\* No interface is without a name, so a profile that is not active has none.
LEMMA NoneIsNoLink ==
  ASSUME Inv
  PROVE  None \notin DOMAIN links /\ Inactive.dev = None /\ ~Inactive.shown
BY TunnelsAssumption DEF Inv, KernelInv, Listing, Inactive

LEMMA InitAddr == Init => AddrInv
<1> SUFFICES ASSUME Init PROVE AddrInv
  OBVIOUS
<1>1. Inv
  BY InitInv
<1> QED
  BY <1>1, NoneIsNoLink DEF Init, AddrInv

LEMMA AddrStep == Inv /\ AddrInv /\ [Next]_vars => AddrInv'
<1> SUFFICES ASSUME Inv, AddrInv, [Next]_vars PROVE AddrInv'
  OBVIOUS
<1>1. ASSUME NEW p \in Profile, Connect(p) PROVE AddrInv'
  <2>1. PICK d \in DevicesOf[p] \ DOMAIN links, a \in AddressesOf[p] :
          /\ links' = Put(links, d, [addr |-> None, of |-> p])
          /\ nm' = [nm EXCEPT ![p] = [dev |-> d, addr |-> a, shown |-> FALSE]]
    BY <1>1 DEF Connect
  <2>2. /\ DOMAIN links' = DOMAIN links \cup {d}
        /\ \A x \in DOMAIN links : links'[x] = links[x]
        /\ links'[d].of = p /\ links'[d].addr = None
    BY <2>1 DEF Put
  <2>3. nm'[p].dev = d /\ \A q \in Profile \ {p} : nm'[q] = nm[q]
    BY <2>1 DEF Inv, KernelInv
  <2>4. ASSUME NEW q \in Profile, nm'[q].dev \in DOMAIN links', links'[nm'[q].dev].of = q
        PROVE  links'[nm'[q].dev].addr \in {None, nm'[q].addr}
    <3>1. CASE q = p
      BY <2>2, <2>3, <3>1
    <3>2. CASE q # p
      <4>1. nm'[q] = nm[q] /\ nm[q].dev # d
        BY <2>2, <2>3, <2>4, <3>2
      <4>2. nm[q].dev \in DOMAIN links /\ links'[nm[q].dev] = links[nm[q].dev]
        BY <2>2, <2>4, <4>1
      <4> QED
        BY <2>4, <4>1, <4>2 DEF AddrInv
    <3> QED
      BY <3>1, <3>2
  <2> QED
    BY <2>4 DEF AddrInv
<1>2. ASSUME NEW p \in Profile, Assign(p) PROVE AddrInv'
  <2> DEFINE d == nm[p].dev
  <2>1. d \in DOMAIN links /\ links[d] = [addr |-> None, of |-> p] /\ nm' = nm
        /\ links' = [links EXCEPT ![d].addr = nm[p].addr]
    BY <1>2 DEF Assign
  <2> HIDE DEF d
  <2>2. DOMAIN links' = DOMAIN links /\ links'[d].of = p /\ links'[d].addr = nm[p].addr
        /\ \A x \in DOMAIN links \ {d} : links'[x] = links[x]
    BY <2>1
  <2>3. ASSUME NEW q \in Profile, nm[q].dev \in DOMAIN links, links'[nm[q].dev].of = q
        PROVE  links'[nm[q].dev].addr \in {None, nm[q].addr}
    <3>1. CASE nm[q].dev = d
      BY <2>2, <2>3, <3>1
    <3>2. CASE nm[q].dev # d
      BY <2>2, <2>3, <3>2 DEF AddrInv
    <3> QED
      BY <3>1, <3>2
  <2> QED
    BY <2>1, <2>2, <2>3 DEF AddrInv
<1>3. ASSUME NEW p \in Profile, Show(p) PROVE AddrInv'
  <2>1. links' = links /\ nm' = [nm EXCEPT ![p].shown = TRUE] /\ nm[p] # Inactive
    BY <1>3 DEF Show
  <2>2. \A q \in Profile : nm'[q].dev = nm[q].dev /\ nm'[q].addr = nm[q].addr
    BY <2>1 DEF Inv, KernelInv
  <2> QED
    BY <2>1, <2>2 DEF AddrInv
<1>4. ASSUME NEW p \in Profile, Drop(p) PROVE AddrInv'
  <2>1. links' = links /\ nm'[p] = Inactive /\ \A q \in Profile \ {p} : nm'[q] = nm[q]
    BY <1>4 DEF Drop, Inv, KernelInv
  <2> QED
    BY <2>1, NoneIsNoLink DEF AddrInv
<1>5. ASSUME NEW d, Vanish(d) PROVE AddrInv'
  <2>1. nm' = nm /\ DOMAIN links' \subseteq DOMAIN links
        /\ \A x \in DOMAIN links' : links'[x] = links[x]
    BY <1>5 DEF Vanish
  <2> QED
    BY <2>1 DEF AddrInv
<1>6. CASE UNCHANGED <<links, nm>>
  BY <1>6 DEF AddrInv
<1>7. Observe \/ Settle \/ UNCHANGED vars => UNCHANGED <<links, nm>>
  BY DEF Observe, ListLinks, Status, Answer, Settle, vars
<1> QED
  BY <1>1, <1>2, <1>3, <1>4, <1>5, <1>6, <1>7 DEF Next, Progress

LEMMA AddrInvariance == Spec => [](Inv /\ AddrInv)
BY InitInv, NextInv, InitAddr, AddrStep, PTL DEF Spec

\* A set of one interface has that as its first.
LEMMA FirstOfOne ==
  ASSUME NEW d \in Range(Devices)
  PROVE  First({d}) = d
<1> DEFINE at == {i \in DOMAIN Devices : Devices[i] \in {d}}
<1>1. at # {} /\ at \subseteq Nat
  BY TunnelsAssumption DEF Range
<1>2. \E i \in at : \A j \in at : i <= j
  <2> HIDE DEF at
  <2> QED BY <1>1, Least
<1>3. (CHOOSE i \in at : \A j \in at : i <= j) \in at
  BY <1>2
<1> QED
  BY <1>1, <1>3 DEF First

\* In a steady state only the daemon acts, and its commands succeed.
LEMMA SteadySteps ==
  ASSUME Inv, Steady, Next
  PROVE  Steady' /\ UNCHANGED <<links, nm>> /\ (ListLinks(TRUE) \/ Status(TRUE))
<1>1. calm
  BY DEF Steady
<1>2. ASSUME NEW p \in Profile PROVE ~(Connect(p) \/ Drop(p) \/ Assign(p))
  <2>1. ASSUME Assign(p) PROVE FALSE
    <3>1. nm[p].dev \in DOMAIN links /\ links[nm[p].dev].addr = None
      BY <2>1 DEF Assign
    <3>2. nm[p].dev \notin DOMAIN Fixed
      BY <3>1, OwnedIsActive, TunnelsAssumption
    <3> QED
      BY <3>1, <3>2 DEF Steady
  <2> QED
    BY <1>1, <2>1 DEF Connect, Drop
<1>3. ASSUME NEW p \in Profile PROVE ~Show(p)
  BY DEF Show, Steady
<1>4. ASSUME NEW d PROVE ~Vanish(d)
  BY <1>1 DEF Vanish, Steady
<1>5. ~Settle
  BY <1>1 DEF Settle
<1>6. ListLinks(TRUE) \/ Status(TRUE)
  BY <1>1, <1>2, <1>3, <1>4, <1>5 DEF Next, Progress, Observe, Outcomes
<1>7. UNCHANGED <<links, nm, calm>>
  BY <1>6 DEF ListLinks, Status, Answer
<1> QED
  BY <1>6, <1>7 DEF Steady, Left

\* In a steady state the interfaces that are not always there are the current ones of
\* profiles, up, with the address of their profile.
LEMMA SteadyLinks ==
  ASSUME Inv, AddrInv, Steady, NEW d \in DOMAIN links \ DOMAIN Fixed
  PROVE  /\ links[d].of \in Profile /\ d \in DevicesOf[links[d].of]
         /\ nm[links[d].of].dev = d /\ nm[links[d].of] # Inactive
         /\ d \in Up(links) /\ links[d].addr = nm[links[d].of].addr
<1>1. links[d].of \in Profile /\ d \in DevicesOf[links[d].of]
  BY DEF Inv, KernelInv, Listing
<1>2. nm[links[d].of].dev = d /\ links[d].addr # None
  BY DEF Steady, Left
<1> QED
  BY <1>1, <1>2, NoneIsNoLink DEF AddrInv, Up

\* In a steady state what a profile resolves to is its current interface, or is not up.
LEMMA SteadyResolves ==
  ASSUME Inv, AddrInv, Steady, NEW p \in Profile,
         \E i \in DOMAIN TunnelList : TunnelList[i].profile = p
  PROVE  Current(p) = IF NmDevice(p, links) \in Up(links) THEN NmDevice(p, links) ELSE None
<1> DEFINE d == nm[p].dev
<1>1. \A x \in DOMAIN links : x \in DOMAIN Fixed => links[x] = Fixed[x] /\ x \notin DevicesOf[p]
  BY TunnelsAssumption DEF Inv, KernelInv, Listing
<1>2. None \notin DOMAIN links /\ Up(links) \subseteq DOMAIN links
  BY NoneIsNoLink DEF Up
<1>3. d \in DOMAIN links => d \in DevicesOf[p] /\ d \notin DOMAIN Fixed /\ nm[p] # Inactive
  BY <1>1, <1>2, OwnedIsActive, NoneIsNoLink
<1>4. CASE p \in VPN
  <2> DEFINE a == Shown(p).addr
             ds == {x \in DOMAIN links : links[x].addr = a}
  <2>1. NmDevice(p, links) = IF a = None THEN None ELSE First(ds)
    BY <1>4 DEF NmDevice, LinkWithAddress
  <2>2. ASSUME a # None PROVE nm[p].shown /\ a = nm[p].addr /\ a \in AddressesOf[p]
    BY <2>2, NoneIsNoLink DEF Shown, Inv, KernelInv
  <2>3. ASSUME a # None, NEW x \in ds PROVE x = d /\ links[x].of = p
    <3>1. x \in DOMAIN links /\ links[x].addr \in AddressesOf[p]
      BY <1>2, <2>2, <2>3
    <3>2. x \notin DOMAIN Fixed
      BY <1>1, <3>1, TunnelsAssumption
    <3>3. links[x].of \in Profile /\ nm[links[x].of] # Inactive /\ nm[links[x].of].dev = x
          /\ links[x].addr = nm[links[x].of].addr
      BY <3>1, <3>2, SteadyLinks
    <3>4. links[x].addr \in AddressesOf[links[x].of]
      BY <3>3 DEF Inv, KernelInv
    <3>5. links[x].of = p
      BY <3>1, <3>3, <3>4, TunnelsAssumption
    <3> QED
      BY <3>3, <3>5
  <2>4. ASSUME Current(p) # None
        PROVE  Current(p) = d /\ a # None /\ ds = {d} /\ First(ds) = d /\ d \in Up(links)
    <3>1. Current(p) = d /\ d \in DOMAIN links /\ links[d].of = p /\ nm[p].shown
      BY <1>4, <2>4 DEF Current
    <3>2. d \in Up(links) /\ links[d].addr = nm[p].addr
      BY <1>3, <3>1, SteadyLinks
    <3>3. a = nm[p].addr /\ a # None
      BY <3>1, <3>2 DEF Shown, Up
    <3>4. ds = {d}
      BY <1>2, <2>3, <3>2, <3>3
    <3>5. d \in Range(Devices)
      BY <3>1 DEF Inv, KernelInv, Listing
    <3> QED
      BY <3>1, <3>2, <3>3, <3>4, <3>5, FirstOfOne
  <2>5. ASSUME NmDevice(p, links) \in Up(links) PROVE Current(p) # None
    <3>1. a # None /\ First(ds) # None
      BY <1>2, <2>1, <2>5
    <3>2. First(ds) \in ds
      BY <3>1, FirstIsOne
    <3>3. d \in DOMAIN links /\ links[d].of = p /\ nm[p].shown
      BY <1>2, <2>2, <2>3, <3>1, <3>2
    <3> QED
      BY <1>2, <3>3 DEF Current
  <2> QED
    BY <2>1, <2>4, <2>5
<1>5. CASE p \notin VPN
  <2>1. p \in Device /\ NmDevice(p, links) = IF nm[p] = Inactive THEN None ELSE d
    BY <1>5 DEF NmDevice, Shown, Profile
  <2>2. NmDevice(p, links) = d
    BY <2>1, NoneIsNoLink
  <2>3. ASSUME d \in DOMAIN links PROVE links[d].of = p /\ d \in Up(links)
    <3>1. links[d].of \in Profile /\ d \in DevicesOf[links[d].of] /\ d \in Up(links)
      BY <1>3, <2>3, SteadyLinks
    <3> QED
      BY <1>3, <2>1, <2>3, <3>1, TunnelsAssumption
  <2>4. Current(p) = IF d \in DOMAIN links THEN d ELSE None
    BY <1>5, <2>3 DEF Current
  <2> QED
    BY <1>2, <2>2, <2>3, <2>4
<1> QED
  BY <1>4, <1>5

LEMMA FoundStep ==
  ASSUME Inv, AddrInv, Steady, [Next]_vars, Found \/ obs.next > Len(TunnelList)
  PROVE  Steady' /\ (Found' \/ UNCHANGED vars)
<1>1. CASE Next
  <2>1. Steady' /\ UNCHANGED <<links, nm>> /\ (ListLinks(TRUE) \/ Status(TRUE))
    BY <1>1, SteadySteps
  <2>2. CASE ListLinks(TRUE)
    <3>1. obs'.links = links /\ obs'.next = 1
      BY <2>2 DEF ListLinks, Observing
    <3>2. \A i \in DOMAIN TunnelList : ~(i < 1)
      BY LengthFacts
    <3> QED
      BY <2>1, <3>1, <3>2 DEF Found
  <2>3. CASE Status(TRUE)
    <3> DEFINE n == obs.next
               t == TunnelList[n]
               d == ResolveInterface(t, obs.links)
    <3>1. n <= Len(TunnelList) /\ n \in DOMAIN TunnelList /\ n \in Nat
      BY <2>3, StatusAnswers
    <3>2. Found /\ obs.links = links
      BY <3>1, LengthFacts DEF Found
    <3>3. /\ obs'.next = n + 1
          /\ obs'.links = IF n < Len(TunnelList) THEN obs.links ELSE Nothing
          /\ obs'.seen = [i \in DOMAIN TunnelList |->
                            IF i # n THEN obs.seen[i] ELSE Over(Answered(n, TRUE))]
      BY <2>3, StatusAnswers
    <3>4. Answered(n, TRUE) = d
      BY DEF Answered
    <3>5. ASSUME Asks(t) PROVE obs'.seen[n] = Current(t.profile)
      <4>1. d = NmDevice(t.profile, links)
        BY <3>2, <3>5 DEF ResolveInterface, Asks
      <4>2. t.profile \in Profile
        BY <3>1, <3>5, TunnelsAssumption DEF Asks
      <4>3. obs'.seen[n] = IF d \in Up(links) THEN d ELSE None
        BY <3>1, <3>2, <3>3, <3>4 DEF Over
      <4> HIDE DEF d
      <4> QED
        BY <3>1, <4>1, <4>2, <4>3, SteadyResolves
    <3>7. \A p : Current(p)' = Current(p)
      BY <2>1 DEF Current
    <3>8. ASSUME NEW i \in DOMAIN TunnelList, i < obs'.next PROVE Reports(i)'
      <4>1. CASE i = n
        BY <3>5, <3>7, <4>1 DEF Reports
      <4>2. CASE i # n
        <5>1. i < n
          BY <3>1, <3>3, <3>8, <4>2, LengthFacts
        <5> QED
          BY <3>2, <3>3, <3>7, <4>2, <5>1 DEF Found, Reports
      <4> QED
        BY <4>1, <4>2
    <3>9. obs'.next <= Len(TunnelList) => obs'.links = links'
      BY <2>1, <3>1, <3>2, <3>3, LengthFacts
    <3> QED
      BY <2>1, <3>8, <3>9 DEF Found
  <2> QED
    BY <2>1, <2>2, <2>3
<1>2. CASE UNCHANGED vars
  BY <1>2 DEF vars, Steady, Left
<1> QED
  BY <1>1, <1>2

\* For any tunnels, profiles and interfaces: once VPNs are left alone and have got as far as
\* they can, the next observation finds every tunnel of a profile where it is, and they all
\* do from then on.
THEOREM TunnelsFound == Spec => FoundInOneTick
<1>1. Inv /\ AddrInv /\ [Next]_vars
        => [Steady => Steady' /\ (Found \/ obs.next > Len(TunnelList) => Found')]_vars
  <2> SUFFICES ASSUME Inv, AddrInv, Next, Steady
               PROVE  Steady' /\ (Found \/ obs.next > Len(TunnelList)
                                    => Found' \/ UNCHANGED vars)
    OBVIOUS
  <2> QED
    BY FoundStep, SteadySteps
<1> QED
  BY <1>1, AddrInvariance, PTL DEF Spec, FoundInOneTick

-----------------------------------------------------------------------------
(* What other VPNs do meanwhile. *)

\* A profile that has kept its interface since the listing resolves to it.
LEMMA KeptResolves ==
  ASSUME Inv, AddrInv, NEW p \in Profile, KeptSinceListing(p)
  PROVE  NmDevice(p, obs.links) = Current(p) /\ Current(p) \in Up(obs.links)
<1> DEFINE d == Current(p)
<1>1. /\ d \in DOMAIN obs.links /\ obs.links[d] = links[d] /\ links[d].addr # None
      /\ \A x \in DOMAIN obs.links : obs.links[x].of = p => x = d
  BY DEF KeptSinceListing, Own
<1>2. d # None /\ d \in Range(Devices)
  BY <1>1, TunnelsAssumption DEF Inv, ObsInv, Listing
<1>3. /\ d = nm[p].dev /\ d \in DOMAIN links /\ links[d].of = p
      /\ p \in VPN => nm[p].shown
  BY <1>2 DEF Current
<1>4. links[d].addr = nm[p].addr /\ nm[p].addr \in AddressesOf[p] /\ nm[p] # Inactive
  BY <1>1, <1>2, <1>3, OwnedIsActive, NoneIsNoLink DEF AddrInv
<1>5. d \in Up(obs.links)
  BY <1>1 DEF Up
<1>6. CASE p \in VPN
  <2> DEFINE ds == {x \in DOMAIN obs.links : obs.links[x].addr = nm[p].addr}
  <2>1. NmDevice(p, obs.links) = First(ds)
    BY <1>1, <1>3, <1>4, <1>6 DEF NmDevice, LinkWithAddress, Shown
  <2>2. d \in ds
    BY <1>1, <1>4
  <2>3. ASSUME NEW x \in ds PROVE x = d
    <3>1. x \notin DOMAIN Fixed \/ obs.links[x] # Fixed[x]
      BY <1>4, TunnelsAssumption
    <3>2. PICK q \in Profile : obs.links[x].of = q
                               /\ obs.links[x].addr \in AddressesOf[q] \cup {None}
      BY <3>1 DEF Inv, ObsInv, Listing
    <3>3. obs.links[x].of = p
      BY <1>4, <3>2, TunnelsAssumption
    <3> QED
      BY <1>1, <3>3
  <2>4. ds = {d}
    BY <2>2, <2>3
  <2> HIDE DEF ds, d
  <2>5. First(ds) = d
    BY <1>2, <2>4, FirstOfOne
  <2> QED
    BY <1>5, <2>1, <2>5 DEF d
<1>7. CASE p \notin VPN
  BY <1>3, <1>4, <1>5, <1>7 DEF NmDevice, Shown
<1> QED
  BY <1>6, <1>7

\* For any tunnels, profiles, interfaces and addresses, and whatever other VPNs do between
\* the listing and the answers of NetworkManager: the tunnel of a profile is reported on an
\* interface that was the profile's when it was listed, and on the one it has kept.
THEOREM TunnelsReportTheirOwn == Spec => ReportsItsOwn
<1> DEFINE Step(i) ==
             LET p == TunnelList[i].profile IN
             /\ obs'.seen[i] \in Own(p, obs.links) \cup {None}
             /\ KeptSinceListing(p) /\ Status(TRUE) => obs'.seen[i] = Current(p)
<1>1. ASSUME Inv, AddrInv, Next, NEW i \in DOMAIN TunnelList,
             Asks(TunnelList[i]), obs.next = i, obs'.next = i + 1
      PROVE  Step(i)
  <2> DEFINE p == TunnelList[i].profile
             d == NmDevice(p, obs.links)
  <2>1. p \in Profile /\ i \in Nat /\ i <= Len(TunnelList)
    BY <1>1, TunnelsAssumption, LengthFacts DEF Asks
  <2>2. PICK ok \in BOOLEAN : Status(ok)
    <3>1. Observe \/ obs' = obs
      BY <1>1 DEF Next, Connect, Progress, Assign, Show, Drop, Vanish, Settle
    <3>2. obs' # obs
      BY <1>1, <2>1
    <3>3. \A ok : ~ListLinks(ok)
      BY <1>1, <2>1, LengthFacts DEF ListLinks
    <3> QED
      BY <3>1, <3>2, <3>3 DEF Observe, Outcomes
  <2>3. ResolveInterface(TunnelList[i], obs.links) = d
    BY <1>1 DEF ResolveInterface, Asks
  <2> HIDE DEF d, p, Step
  <2>4. ASSUME NEW k \in BOOLEAN, Status(k) PROVE obs'.seen[i] = Over(Answered(i, k))
    <3>1. obs'.seen = [j \in DOMAIN TunnelList |->
                        IF j # i THEN obs.seen[j] ELSE Over(Answered(i, k))]
      BY <1>1, <2>4, StatusAnswers
    <3> QED
      BY <1>1, <3>1
  <2>5. ASSUME Status(TRUE) PROVE obs'.seen[i] = Over(d)
    <3>1. obs'.seen[i] = Over(Answered(i, TRUE))
      BY <2>4, <2>5
    <3> QED
      BY <1>1, <2>3, <3>1 DEF Answered
  <2>6. d \in Up(obs.links) => d \in Own(p, obs.links)
    BY <1>1, <2>1, ResolvedIsOwn DEF Up, d
  <2>7. obs'.seen[i] \in {d, None} /\ (obs'.seen[i] # None => d \in Up(obs.links))
    BY <1>1, <2>2, <2>3, <2>4 DEF Answered, Over
  <2>8. obs'.seen[i] \in Own(p, obs.links) \cup {None}
    BY <2>6, <2>7
  <2>9. KeptSinceListing(p) /\ Status(TRUE) => obs'.seen[i] = Current(p)
    BY <1>1, <2>1, <2>5, KeptResolves DEF d, Over
  <2> QED
    BY <2>8, <2>9 DEF Step, p
<1>2. Inv /\ AddrInv /\ [Next]_vars
        => [\A i \in DOMAIN TunnelList :
              Asks(TunnelList[i]) /\ obs.next = i /\ obs'.next = i + 1 => Step(i)]_vars
  BY <1>1
<1> QED
  BY <1>2, AddrInvariance, PTL DEF Spec, ReportsItsOwn
=============================================================================
