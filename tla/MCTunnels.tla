------------------------------ MODULE MCTunnels ------------------------------
(* Constants for the run of Tunnels. *)
EXTENDS Tunnels

MCDevices == <<"tun0", "tun1", "wg0", "wlan0">>

MCTunnelLike == {"tun0", "tun1", "wg0"}

MCFixed == [d \in {"wlan0"} |-> [addr |-> "192.168.1.42", of |-> Host]]

\* Two VPNs that draw from the same interface names, only one of them configured, and a
\* profile that is a device.
MCDevicesOf ==
  [p \in Profile |-> CASE p = "office" -> {"tun0", "tun1"}
                       [] p = "lab"    -> {"tun0"}
                       [] p = "home"   -> {"wg0"}]

MCAddressesOf ==
  [p \in Profile |-> CASE p = "office" -> {"10.8.0.2"}
                       [] p = "lab"    -> {"10.7.0.2"}
                       [] p = "home"   -> {"10.6.0.2"}]

T(kind, profile, auto) == [kind |-> kind, profile |-> profile, iface |-> None, auto |-> auto]

MCTunnelList ==
  <<T("nm", "home", FALSE), T("manual", None, TRUE), T("nm", "office", FALSE)>>
=============================================================================
