------------------------------ MODULE MCParentHealth ----------------------------
(* Small instances of ParentHealth for TLC. *)
EXTENDS ParentHealth

CONSTANTS c1, c2, p1, p2

OneChild    == {c1}
TwoChildren == {c1, c2}
OneParent   == {p1}
TwoParents  == {p1, p2}
NoNodes     == {}
Order       == [c \in Children |-> IF c = c1 THEN 1 ELSE 2]

\* Each child is always steered to the same Parent, or c1 to either.
OwnParent   == [c \in Children |-> IF c = c1 THEN {p1} ELSE {p2}]
AnyParent   == [c \in Children |-> Parents]

Observation(online, busy, attached) ==
  [online |-> online, busy |-> busy, attached |-> attached]
Attached(p) == [c \in Children |-> IF c = c1 THEN p ELSE None]

Apart   == {Observation(Parents, {}, Attached(None))}

\* c1 away or on p1; p1 away, with another child, or with c1 only.
Roaming == Apart \cup {Observation(Parents, {}, Attached(p1))}
Changing == Roaming \cup {Observation(Parents, {p1}, Attached(None)),
                          Observation(Parents \ {p1}, {}, Attached(None))}

NoTimeouts  == {TRUE}
Automatic   == {TRUE}
AnyOutcome  == BOOLEAN
================================================================================
