----------------------------- MODULE SupportDomain -----------------------------
(* The operations of the support domain: dataset/domain/operations.json.       *)
EXTENDS Simulator

CONSTANT Ids    \* by entity type, the ids that match its pattern

Lit(v) == [kind |-> "lit", value |-> v]
Path(p) == [kind |-> "path", path |-> p]
Equals(path, v) == [left |-> path, cmp |-> "==", right |-> Lit(v)]
Exceeds(path, other) == [left |-> path, cmp |-> ">", right |-> Path(other)]
Put(field, value) == [field |-> field, op |-> "=", value |-> value]
Add(field, n) == [field |-> field, op |-> "+=", value |-> Lit(Whole(n))]
Stamp == Put("updated_at", Path(<<"run_clock">>))

IdSpec(type) ==
    [type |-> "string", required |-> TRUE, bounds |-> {},
     allowed |-> {Text(i) : i \in Ids[type]}]
EnumSpec(names) ==
    [type |-> "string", required |-> TRUE, bounds |-> {},
     allowed |-> {Text(s) : s \in names}]
RangeSpec(type, range) ==
    [type |-> type, required |-> TRUE, bounds |-> range, allowed |-> {}]
FreeText == [type |-> "string", required |-> FALSE, bounds |-> {}, allowed |-> {}]

Contract(entityType, alias, idArgument, arguments, invalidWhen, preconditions, effects) ==
    [entityType |-> entityType, alias |-> alias, idArgument |-> idArgument,
     arguments |-> arguments @@ (idArgument :> IdSpec(entityType)),
     invalidWhen |-> invalidWhen, preconditions |-> preconditions, effects |-> effects]

OnIncident(arguments, invalidWhen, preconditions, effects) ==
    Contract("INCIDENT", "incident", "incident_id", arguments, invalidWhen,
             <<Equals(<<"incident", "status">>, Text("OPEN"))>> \o preconditions,
             effects \o <<Stamp>>)

OnOrder(arguments, preconditions, effects) ==
    Contract("ORDER", "order", "order_id", arguments, <<>>,
             preconditions \o <<Equals(<<"order", "refund_state">>, Text("NONE"))>>,
             effects \o <<Stamp>>)

Closed == Equals(<<"incident", "status">>, Text("CLOSED"))

escalate_incident ==
    OnIncident([destination_tier |-> RangeSpec("integer", 2..4)], <<Closed>>,
               <<Exceeds(<<"destination_tier">>, <<"incident", "support_tier">>)>>,
               <<Put("support_tier", Path(<<"destination_tier">>)),
                 Add("escalation_count", 1)>>)

reassign_incident ==
    OnIncident([destination_team |->
                   EnumSpec({"SERVICE_DESK", "BILLING", "SECURITY", "PAYMENTS", "FRAUD"})],
               <<Closed>>, <<>>, <<Put("assigned_team", Path(<<"destination_team">>))>>)

close_incident ==
    OnIncident(<<>>, <<>>,
               <<Equals(<<"incident", "information_complete">>, Truth(TRUE))>>,
               <<Put("status", Lit(Text("CLOSED")))>>)

request_more_information ==
    OnIncident([topic |-> FreeText], <<>>, <<>>,
               <<Put("status", Lit(Text("PENDING_INFO")))>>)

request_approval ==
    Contract("APPROVAL_REQUEST", "approval", "approval_id",
             [approver_role |-> EnumSpec({"MANAGER", "DIRECTOR", "FINANCE"})], <<>>,
             <<Equals(<<"approval", "status">>, Text("PENDING"))>>,
             <<Put("status", Lit(Text("ROUTED"))),
               Put("approver_role", Path(<<"approver_role">>)), Stamp>>)

refund_duplicate_charge ==
    OnOrder([amount_usd |-> RangeSpec("number", 1..499)],
            <<Equals(<<"order", "duplicate_charge_confirmed">>, Truth(TRUE))>>,
            <<Put("refund_state", Lit(Text("REFUNDED"))),
              Put("refunded_amount_usd", Path(<<"amount_usd">>)),
              Put("payment_state", Lit(Text("PARTIAL_REFUND")))>>)

request_manager_review ==
    OnOrder([reason_code |-> EnumSpec({"DISPUTED_CHARGE", "HIGH_VALUE", "OTHER"})],
            <<>>, <<Put("refund_state", Lit(Text("PENDING_REVIEW")))>>)

suspend_account ==
    Contract("ACCOUNT", "account", "account_id",
             [reason_code |-> EnumSpec({"FRAUD", "ABUSE", "NON_PAYMENT"})], <<>>,
             <<Equals(<<"account", "status">>, Text("ACTIVE"))>>,
             <<Put("status", Lit(Text("SUSPENDED"))),
               Put("suspension_state", Lit(Text("SUSPENDED"))),
               Put("suspension_reason", Path(<<"reason_code">>)), Stamp>>)

SupportOperations ==
    [escalate_incident |-> escalate_incident,
     reassign_incident |-> reassign_incident,
     close_incident |-> close_incident,
     request_more_information |-> request_more_information,
     request_approval |-> request_approval,
     refund_duplicate_charge |-> refund_duplicate_charge,
     request_manager_review |-> request_manager_review,
     suspend_account |-> suspend_account]
===============================================================================
