------------------------------ MODULE MCVisit ------------------------------
(* The visited file and another one.  The two acts of the first setup meet   *)
(* every race of the controls; one act is enough for the ways a preview may  *)
(* go, which do not depend on them.                                          *)
EXTENDS Visit

CONSTANTS x, y

MCId == {x, y}
MCKnown == {x, y}
MCSetups ==
    {[type |-> "pdf", viewer |-> "pdf", role |-> "editor", budget |-> 2]} \cup
    {[type |-> t[1], viewer |-> t[2], role |-> t[3], budget |-> 1] :
        t \in {<<"office", "collabora", "admin">>, <<"office", "pdf", "viewer">>,
               <<"text", "pdf", "editor">>, <<"img", "pdf", "viewer">>}} \cup
    {[type |-> t, viewer |-> "disabled", role |-> "viewer", budget |-> 0] :
        t \in {"office", "media", "other"}}
=============================================================================
