------------------------------ MODULE MCClients ------------------------------
(* Constants for the runs of Clients. *)
EXTENDS Clients

CONSTANT Own  \* a list of resolvers of the user's

MCResolvers == {None, Public, Own}

MCText ==
  {None, Direct} \cup Kinds
    \cup {"corp", "corporate-vpn", "global", "home", "work", "tun0", "wg0", "wg1"}

VPN(name, iface, corp) == [name |-> name, iface |-> iface, auto |-> TRUE, corp |-> corp]

Corp == VPN("corp", "tun0", TRUE)
Wg0 == VPN(None, "wg0", FALSE)
Wg1 == VPN("home", "wg1", FALSE)

\* Old files: one that fills the tables, and those that cannot be loaded: two corporate
\* VPNs, none, and no room for the second.
Full == Legacy(<<Wg0, Corp, Wg1>>, 0, TRUE, TRUE, Own)

MCLegacyFiles ==
  {Full,
   Legacy(<<Corp, VPN("wg0", "wg0", TRUE)>>, 0, TRUE, FALSE, None),
   Legacy(<<Wg0>>, 0, TRUE, FALSE, None),
   Legacy(<<Corp, Wg0>>, LastTable, FALSE, TRUE, None)}

Nm(name, table) == Tunnel(name, "nm", name, None, FALSE, table)
Manual(iface, table) == Tunnel(iface, None, None, iface, FALSE, table)

\* New files, with tables left out, clashing with those assigned, and without a version.
MCFiles ==
  {Doc(2, <<Nm("corp", 0), Manual("wg0", 0)>>, "corp", None, Own),
   Doc(2, <<Nm("corp", AutoTable + 1), Manual("wg0", 0)>>, "corp", None, None),
   Doc(0, <<Nm("corp", AutoTable)>>, "corp", None, Own)}

MCInitialFiles == {NoFile, Garbage} \cup MCLegacyFiles \cup MCFiles

MCEdits == {NoFile, Full}

\* A tunnel that may be known already, and one more.
MCDrafts == {Nm("corp", 0), Nm("work", 0)}

MCTargets == {Direct, "corp"}

MCLists == {None, Own}
=============================================================================
