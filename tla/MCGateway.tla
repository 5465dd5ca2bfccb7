----------------------------- MODULE MCGateway -----------------------------
(* Instantiates Gateway for TLC: the workers that may connect. *)
EXTENDS Gateway

\* The first worker serves the pinned version. The second has the same body and
\* no tool, or is its successor, which reclassifies the tool. One
\* that lost its reconcile hook, one that declares no class and one that declares
\* its tool twice are refused.
Send(class, hook) == [name |-> "send", class |-> EffectClassTo(class), reconcilable |-> hook]
V1 == [version |-> "v1", decides |-> TRUE, tools |-> <<Send("QUERYABLE", TRUE)>>]
V2 == [version |-> "v2", decides |-> TRUE, tools |-> <<Send("UNRECONCILABLE", FALSE)>>]
Body      == [V1 EXCEPT !.tools = <<>>]
Hookless  == [V1 EXCEPT !.tools = <<Send("QUERYABLE", FALSE)>>]
Classless == [V1 EXCEPT !.tools = <<Send("", TRUE)>>]
Twice     == [V1 EXCEPT !.tools = @ \o @]
Fleet == <<{V1, Classless}, {Body, V2, Hookless, Twice}>>

\* Every kind of decision is accepted in some form and refused in another.
ASSUME DecisionsAreReachable ==
    {Decision(m).kind : m \in
        [kind : {"NIL", "DECISION_KIND_CALL_TOOL", "DECISION_KIND_CALL_TOOL_PARALLEL",
                 "DECISION_KIND_SLEEP", "DECISION_KIND_WAIT_FOR_SIGNAL",
                 "DECISION_KIND_COMPLETE", "DECISION_KIND_FAIL", "DECISION_KIND_CANCEL"},
         step : {"", "S1"}, tool : {"", "send"}, calls : {<<>>, <<"send">>, <<"send", "">>},
         join : [kind : {"NIL", "JOIN_KIND_ALL", "JOIN_KIND_QUORUM"}, quorum : 0..2],
         wake : {0, 1}, signal : {"", "go"}, deadline : {-1, 0, 1}]}
    = {"REFUSED", "CALL_TOOL", "CALL_TOOL_PARALLEL", "SLEEP", "WAIT_FOR_SIGNAL", "COMPLETE",
       "FAIL", "CANCEL"}
=============================================================================
