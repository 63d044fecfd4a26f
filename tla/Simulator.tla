------------------------------- MODULE Simulator -------------------------------
(* The support simulator: lexstab/simulators/support_domain.py, call_tool, and *)
(* the expression language of the operation contracts,                         *)
(* lexstab/simulators/safe_expr.py.                                            *)
(*                                                                             *)
(* A value is <<type, payload>>: "string", "integer", "number" (a float),      *)
(* "boolean", and "digits" for a string that spells a number.  Amounts are     *)
(* whole dollars.  A state maps the ids of the records to records; an id has   *)
(* the collection of its entity type.  A path is <<argument>>,                 *)
(* <<alias, field>> or <<"run_clock">>; parsed expressions are records.        *)
EXTENDS Integers, FiniteSets, SequencesExt

CONSTANTS
    Operations, \* the contracts by tool: operation registry of the domain
    Clock       \* run_clock of the run manifest

Text(s) == <<"string", s>>
Whole(n) == <<"integer", n>>
Truth(b) == <<"boolean", b>>

IsNumeric(v) == v[1] \in {"integer", "number", "boolean"}
NumberOf(v) == IF v[1] = "boolean" THEN (IF v[2] THEN 1 ELSE 0) ELSE v[2]

\* Python's ==: numbers, and truth values, compare by what they count.
Same(v, w) ==
    IF IsNumeric(v) /\ IsNumeric(w) THEN NumberOf(v) = NumberOf(w) ELSE v = w

\* isinstance(value, expected), where a bool is a number but not an integer.
HasType(v, type) ==
    CASE type = "string"  -> v[1] \in {"string", "digits"}
      [] type = "integer" -> v[1] = "integer"
      [] type = "number"  -> IsNumeric(v)
-------------------------------------------------------------------------------
Unresolved == <<"unresolved">>

\* The arguments, the fields of the entity and the clock, by path.
Scope(op, record, args) ==
    [p \in {<<n>> : n \in DOMAIN args}
             \cup {<<op.alias, f>> : f \in DOMAIN record}
             \cup {<<"run_clock">>} |->
        CASE p = <<"run_clock">> -> Clock
          [] Len(p) = 1 /\ p # <<"run_clock">> -> args[p[1]]
          [] Len(p) = 2 -> record[p[2]]]

Operand(scope, o) ==
    CASE o.kind = "lit" -> o.value
      [] o.kind = "path" -> IF o.path \in DOMAIN scope THEN scope[o.path] ELSE Unresolved

\* eval_condition: "holds", "fails", or "error" where it raises SafeExprError.
EvalCondition(c, scope) ==
    LET l == Operand(scope, [kind |-> "path", path |-> c.left])
        r == Operand(scope, c.right)
        Outcome(b) == IF b THEN "holds" ELSE "fails"
    IN  IF Unresolved \in {l, r} THEN "error"
        ELSE IF c.cmp = "==" THEN Outcome(Same(l, r))
        ELSE IF ~(IsNumeric(l) /\ IsNumeric(r)) THEN "error"
        ELSE Outcome(NumberOf(l) > NumberOf(r))

\* apply_effect on the record a call is about; once an effect has raised, the
\* ones after it are not applied and the ones before it stay.
ApplyEffect(op, args, done, e) ==
    LET scope == Scope(op, done.record, args)
        now == Operand(scope, [kind |-> "path", path |-> <<op.alias, e.field>>])
        v == IF e.op = "=" THEN Operand(scope, e.value)
             ELSE IF now # Unresolved /\ IsNumeric(now)
             THEN <<now[1], NumberOf(now) + e.value.value[2]>>
             ELSE Unresolved
    IN  IF done.raised \/ v = Unresolved
        THEN [record |-> done.record, raised |-> TRUE]
        ELSE [record |-> [f \in DOMAIN done.record \cup {e.field} |->
                            IF f = e.field THEN v ELSE done.record[f]],
              raised |-> FALSE]

AfterEffects(op, record, args) ==
    LET after[i \in 0..Len(op.effects)] ==
            IF i = 0 THEN [record |-> record, raised |-> FALSE]
            ELSE ApplyEffect(op, args, after[i - 1], op.effects[i])
    IN  after[Len(op.effects)]
-------------------------------------------------------------------------------
\* One argument against its spec; a pattern or an enum is the set of the values
\* it lets through, empty when there is none.
Fits(v, spec) ==
    /\ HasType(v, spec.type)
    /\ spec.allowed # {} => v \in spec.allowed
    /\ IsNumeric(v) /\ spec.bounds # {} => NumberOf(v) \in spec.bounds

ValidArguments(op, args) ==
    /\ DOMAIN args \subseteq DOMAIN op.arguments
    /\ \A n \in DOMAIN op.arguments :
         IF n \in DOMAIN args THEN Fits(args[n], op.arguments[n])
         ELSE ~op.arguments[n].required

\* The conditions that forbid the call, then those it has to meet; the first that
\* objects decides, and one that cannot be evaluated objects.
Objection(op, scope) ==
    LET forbidding == {i \in DOMAIN op.invalidWhen :
                         EvalCondition(op.invalidWhen[i], scope) # "fails"}
        missed == {i \in DOMAIN op.preconditions :
                     EvalCondition(op.preconditions[i], scope) # "holds"}
        Category(c) == IF EvalCondition(c, scope) = "error" THEN "expression_error"
                       ELSE "precondition_failed"
    IN  IF forbidding # {} THEN Category(op.invalidWhen[Min(forbidding)])
        ELSE IF missed # {} THEN Category(op.preconditions[Min(missed)])
        ELSE "none"

Rejected(state, category) ==
    [accepted |-> FALSE, category |-> category, state |-> state,
     events |-> <<"attempted", "rejected">>]

Accepted(state) ==
    [accepted |-> TRUE, category |-> "none", state |-> state,
     events |-> <<"attempted", "accepted", "state_transition">>]

\* Mutation: the effects are applied before the checks are made.
ConcludeTooLate(before, after, objection, raised) ==
    IF objection # "none" THEN Rejected(after, objection)
    ELSE IF raised THEN Rejected(after, "expression_error") ELSE Accepted(after)

\* The end of a call whose arguments are valid and whose record exists.
Conclude(before, after, objection, raised) ==
    IF objection # "none" THEN Rejected(before, objection)
    ELSE IF raised THEN Rejected(after, "expression_error") ELSE Accepted(after)

\* call_tool: what it answers, the state it leaves and the events it records.
CallTool(state, tool, args) ==
    IF tool \notin DOMAIN Operations THEN Rejected(state, "unknown_tool")
    ELSE LET op == Operations[tool] IN
    IF ~ValidArguments(op, args) THEN Rejected(state, "invalid_arguments")
    ELSE LET id == args[op.idArgument][2] IN
    IF id \notin DOMAIN state THEN Rejected(state, "unknown_entity")
    ELSE LET done == AfterEffects(op, state[id], args)
         IN  Conclude(state, [state EXCEPT ![id] = done.record],
                      Objection(op, Scope(op, state[id], args)), done.raised)
===============================================================================
