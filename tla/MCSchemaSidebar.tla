--------------------------- MODULE MCSchemaSidebar ---------------------------
(* Two worksheets, the first with two query-tab connections. *)
EXTENDS SchemaSidebar

CONSTANTS w1, w2, c1, c2, c3

MCConnsOf == [w \in {w1, w2} |-> IF w = w1 THEN {c1, c2} ELSE {c3}]

=============================================================================
