----------------------------- MODULE MCTopologyLock -----------------------------
(* Instances of TopologyLock for TLC: a gateway with two Nodes, or with five. *)
EXTENDS TopologyLock

CONSTANTS g, a, b, c, d, e

To(n, p) == [node |-> n, parent |-> p]

MCNodes == {g, a, b}
Parents(of_a, of_b) == [n \in MCNodes |-> CASE n = a -> of_a [] n = b -> of_b [] OTHER -> None]
Seen(off, wire, of_a, of_b) ==
  [online |-> MCNodes \ off, wired |-> wire, parent |-> Parents(of_a, of_b)]

\* A chain either way round, and a cycle.
Chains == {<<To(a, g), To(b, a)>>, <<To(a, b), To(b, g)>>, <<To(a, b), To(b, a)>>}

\* A chain, or both below the gateway with a wired, whose Parent is not reported.
Drifts == {Seen({}, {}, g, a), Seen({}, {a}, None, g)}

\* Two Nodes of the same depth, wherever they roam.
Star     == {<<To(a, g), To(b, g)>>}
Roaming  == {Seen({}, {}, g, g), Seen({}, {}, b, g), Seen({}, {}, g, a),
             Seen({}, {}, b, a), Seen({b}, {}, g, a)}

\* d and e belong below c, at the end of a chain.  The first Node of the chain
\* goes offline, the second attaches to d, and d and e to the gateway.
SixNodes == {g, a, b, c, d, e}
Branch   == {<<To(a, g), To(b, a), To(c, b), To(d, c), To(e, c)>>}
Outage   ==
  {[online |-> SixNodes, wired |-> {}, parent |-> [n \in SixNodes |->
      CASE n = a -> g [] n = b -> a [] n = c -> b [] n \in {d, e} -> c [] OTHER -> None]],
   [online |-> SixNodes \ {a}, wired |-> {}, parent |-> [n \in SixNodes |->
      CASE n = b -> d [] n = c -> b [] n \in {a, d, e} -> g [] OTHER -> None]]}

SomeRest == {{}, {b}}
NoRest  == {{}}
================================================================================
