------------------------------ MODULE MCEngine -------------------------------
(* Instances of Engine for TLC.                                              *)
EXTENDS Engine

CONSTANTS a, b, c1, c6, r1, d1, s1

MCPrefixLen == [c \in Cidr |-> IF c = c1 THEN 8 ELSE 64]

Cfg(tunnels, rules, dns) ==
  [tunnels |-> tunnels, rules |-> rules, dns |-> dns, fallback |-> Server]

None == [x \in {} |-> 0]

To(t, closed) == [x \in {r1} |-> [target |-> t, cidrs |-> Cidr, enabled |-> TRUE,
                                  failClosed |-> closed]]
Via(t) == [x \in {d1} |-> [servers |-> Server, via |-> t, enabled |-> TRUE]]

One == [n \in {a} |-> 200]
Two == [n \in {a, b} |-> IF n = a THEN 200 ELSE 201]

\* Two tunnels and a fail-closed rule to the first.
MCFailClosed == {Cfg(Two, To(a, TRUE), None)}

\* One tunnel with a rule, fail-closed or not.
MCOneTunnel == {Cfg(One, To(a, closed), None) : closed \in BOOLEAN}

\* A fail-closed rule; a domain resolved through the tunnel; and a file that does not load.
MCRecovery == {Cfg(One, To(a, TRUE), None)}
MCRecoveryEdits == {Cfg(One, None, Via(a)), Cfg(None, To(a, TRUE), None)}

\* One tunnel and a domain resolved through it.
MCSplitDNS == {Cfg(One, None, Via(a))}

\* The domain resolved directly, without a list of fallback resolvers, and a file
\* that does not load.
MCSplitDNSEdits == {[Cfg(One, None, Via(Direct)) EXCEPT !.fallback = {}],
                    Cfg(None, None, Via(a))}
=============================================================================
