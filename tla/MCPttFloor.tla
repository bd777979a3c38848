----------------------------- MODULE MCPttFloor -----------------------------
(* Instances of PttFloor for TLC: what the server may report in a run. *)
EXTENDS PttFloor

GroupList(listed, gone, dynamic) ==
    [listed |-> listed, gone |-> gone, dynamic |-> dynamic]

\* The list arrives once and stays.
OneList == {GroupList(TRUE, FALSE, FALSE)}

\* The user is taken out of groups and put back.
Regrouping == {GroupList(TRUE, FALSE, FALSE), GroupList(TRUE, TRUE, TRUE),
               GroupList(FALSE, FALSE, TRUE)}

=============================================================================
