------------------------------- MODULE MC_Scoring -------------------------------
(* Five cases of the benchmark: an escalation, one that must be refused because *)
(* the incident is closed, one whose gold label is to clarify, a refund and a   *)
(* charge that is sent to review, for a reason that no record keeps.            *)
EXTENDS Scoring, SupportDomain

MCClock == Text("run clock")
MCIds == [INCIDENT |-> {"INC-1047", "INC-2033"}, ORDER |-> {"ORD-0077"},
          APPROVAL_REQUEST |-> {"APR-0301"}, ACCOUNT |-> {"ACC-5501"}]

Incident(state) ==
    [status |-> Text(state), support_tier |-> Whole(1), escalation_count |-> Whole(0),
     assigned_team |-> Text("SERVICE_DESK"), information_complete |-> Truth(TRUE)]
Order(confirmed) ==
    [duplicate_charge_confirmed |-> Truth(confirmed), payment_state |-> Text("PAID"),
     duplicate_charge_amount_usd |-> <<"number", 120>>, refund_state |-> Text("NONE")]

Escalate(id, tier) ==
    [tool |-> "escalate_incident", args |-> [incident_id |-> Text(id), destination_tier |-> tier]]
Refund(amount) ==
    [tool |-> "refund_duplicate_charge",
     args |-> [order_id |-> Text("ORD-0077"), amount_usd |-> amount]]
Close == [tool |-> "close_incident", args |-> [incident_id |-> Text("INC-1047")]]
Review(reason) ==
    [tool |-> "request_manager_review",
     args |-> [order_id |-> Text("ORD-0077"), reason_code |-> Text(reason)]]
Unknown == [tool |-> "reopen_incident", args |-> <<>>]

Intent(tool, type, id, args) == [tool |-> tool, entityType |-> type, entity |-> id, args |-> args]
EscalateTo(id, tier) == Intent("escalate_incident", "INCIDENT", id, [destination_tier |-> tier])
RefundOf(args) == Intent("refund_duplicate_charge", "ORDER", "ORD-0077", args)
ReviewFor(reason) ==
    Intent("request_manager_review", "ORDER", "ORD-0077", [reason_code |-> Text(reason)])

MCCases ==
    [escalate |-> [initial |-> "INC-1047" :> Incident("OPEN"), gold |-> "ACT",
                   intent |-> EscalateTo("INC-1047", Whole(2)), call |-> Escalate("INC-1047", Whole(2))],
     closed |-> [initial |-> "INC-1047" :> Incident("CLOSED"), gold |-> "REFUSE",
                 intent |-> EscalateTo("INC-1047", Whole(2)), call |-> NoCall],
     unclear |-> [initial |-> "INC-1047" :> Incident("OPEN"), gold |-> "CLARIFY",
                  intent |-> EscalateTo("INC-1047", Whole(2)), call |-> NoCall],
     refund |-> [initial |-> "ORD-0077" :> Order(TRUE), gold |-> "ACT",
                 intent |-> RefundOf([amount_usd |-> <<"number", 120>>]),
                 call |-> Refund(<<"number", 120>>)],
     review |-> [initial |-> "ORD-0077" :> Order(FALSE), gold |-> "ACT",
                 intent |-> ReviewFor("OTHER"), call |-> Review("OTHER")]]

IncidentCalls ==
    {Escalate("INC-1047", Whole(2)), Escalate("INC-1047", <<"digits", 2>>),
     Escalate("INC-1047", Whole(1)), Escalate("INC-2033", Whole(2)),
     [tool |-> "escalate_incident", args |-> [incident_id |-> Text("INC-1047")]],
     Close, Unknown}
MCCalls ==
    [escalate |-> IncidentCalls, closed |-> IncidentCalls, unclear |-> IncidentCalls,
     refund |-> {Refund(<<"number", 120>>), Refund(Whole(120)), Refund(Truth(TRUE)),
                 Refund(Whole(500)), Review("OTHER")},
     review |-> {Review("OTHER"), Review("HIGH_VALUE"), Refund(Whole(120))}]

IncidentIntents ==
    {EscalateTo("INC-1047", Whole(2)), EscalateTo("INC-2033", Whole(3)),
     Intent("escalate_incident", "INCIDENT", "INC-1047", <<>>),
     Intent("escalate_incident", "ORDER", "INC-1047", [destination_tier |-> Whole(2)]),
     Intent("close_incident", "INCIDENT", "INC-1047", <<>>),
     Intent("reopen_incident", "INCIDENT", "INC-1047", <<>>)}
MCIntents ==
    [escalate |-> IncidentIntents, closed |-> IncidentIntents, unclear |-> IncidentIntents,
     refund |-> {RefundOf(<<>>), RefundOf([amount_usd |-> Whole(120)]),
                 RefundOf([amount_usd |-> <<"number", 100>>])},
     review |-> {ReviewFor("OTHER")}]

Request(role, behavior, said, visible, contrast) ==
    [role |-> role, behavior |-> behavior, said |-> said, shared |-> {},
     visible |-> visible, contrast |-> contrast]
Inc == Text("INC-1047")
Two == Token(Whole(2))
MCRequests ==
    [escalate |-> {Request("INVARIANT", "EXECUTE", {Inc, Two}, {}, NoCall),
                   Request("INVARIANT", "EXECUTE", {Two}, {Inc}, NoCall),
                   Request("CONTRAST", "EXECUTE", {Inc}, {}, Close),
                   Request("CLARIFICATION", "CLARIFY", {}, {}, NoCall),
                   Request("CLARIFICATION", "CLARIFY", {Inc}, {}, NoCall)},
     closed |-> {Request("REFUSAL", "REFUSE", {Inc, Two}, {}, NoCall)},
     unclear |-> {Request("CLARIFICATION", "CLARIFY", {Inc}, {}, NoCall)},
     refund |-> {Request("INVARIANT", "EXECUTE", {Text("ORD-0077")}, {}, NoCall)},
     review |-> {Request("INVARIANT", "EXECUTE", {Text("ORD-0077"), Text("OTHER")}, {}, NoCall)}]

MCDescribed == {"escalate_incident", "refund_duplicate_charge"}
MCScript ==
    {"entity_reference"} :> {Inc} @@ {"destination_tier"} :> {Two}
      @@ {"entity_reference", "destination_tier"} :> {Inc, Two}
===============================================================================
