------------------------------ MODULE MCNetwork ------------------------------
(* Small instances of AodvNetwork for TLC. *)
EXTENDS AodvNetwork

\* Both directions of a link on a channel.
Both(a, b, c) == {<<a, b, c>>, <<b, a, c>>}

\* 1 - 2 - 3
Line3 == Both(1, 2, 0) \cup Both(2, 3, 0)

\* 1 reaches 3 directly or over 2, and 4 over 3 only.
Kite == Both(1, 2, 0) \cup Both(2, 3, 0) \cup Both(1, 3, 0) \cup Both(3, 4, 0)

\* 1 reaches 4 over 2 or over 3; no link is dearer than a way around it.
Diamond == Both(1, 2, 0) \cup Both(2, 4, 0) \cup Both(1, 3, 0) \cup Both(3, 4, 0)

Even == [p \in {{l[1], l[2]} : l \in Links} |-> {1}]
Uneven == [p \in {{l[1], l[2]} : l \in Links} |-> IF p = {1, 3} THEN {5} ELSE {1}]
Dear34 == [p \in {{l[1], l[2]} : l \in Links} |-> IF p = {3, 4} THEN {3} ELSE {1}]

OneFlow == {<<1, 3, FALSE>>}
Flow14 == {<<1, 4, FALSE>>}
Flows13And23 == {<<1, 3, FALSE>>, <<2, 3, FALSE>>}

Pair23 == {{2, 3}}
=============================================================================
