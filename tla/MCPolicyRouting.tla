--------------------------- MODULE MCPolicyRouting ---------------------------
(* Instances of PolicyRouting for TLC. *)
EXTENDS PolicyRouting

CONSTANTS c1, c6

\* c1 is an IPv4 /8, c6 an IPv6 /64.
MCPrefixLen == [c \in Cidr |-> IF c = c1 THEN 8 ELSE 64]

\* wg-quick's own rule outside the band, and a rule inside it that points at a
\* named table (both from pbr_test.go).
MCForeign ==
  {[to |-> NoCidr, fwmark |-> 51820, table |-> 51820, pref |-> 32762],
   [to |-> c1, fwmark |-> 0, table |-> 253, pref |-> 10024]}
=============================================================================
