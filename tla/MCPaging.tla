------------------------------ MODULE MCPaging ------------------------------
(* An instance of Paging: rows, filters and windows that meet at the edges.*)
EXTENDS Paging

CONSTANT d1

Shapes == {[reason |-> NULL, devs |-> {d1}],
           [reason |-> 1, devs |-> {}],
           [reason |-> 2, devs |-> {d1}]}

Filters == {NoFilter,
            [column |-> "deny_reason", op |-> "not_in", values |-> {1}],
            [column |-> "deny_reason", op |-> "in", values |-> {1, 2}],
            [column |-> "device", op |-> "in", values |-> {d1}]}

Windows == {[from |-> NULL, to |-> NULL], [from |-> 1, to |-> 2],
            [from |-> 1, to |-> NULL]}

Rungs == {[upTo |-> 1, width |-> 1]}
=============================================================================
