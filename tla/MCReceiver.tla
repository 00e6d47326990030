----------------------------- MODULE MCReceiver -----------------------------
(* Receiver on a small instance: two policy files and two events. *)
EXTENDS Receiver

CONSTANTS absent, unparsable, broken, never

Text(t) == [kind |-> "text", content |-> t]

Policy(id, enabled, types, conditions) ==
  [id |-> id, valid |-> TRUE, enabled |-> enabled, appliesTo |-> types,
   environments |-> {"production"}, conditions |-> conditions]

Condition(operator, value) == [field |-> "actor.kind", operator |-> operator, value |-> value]

Approved == Policy("p", TRUE, {"login", "secret.exposed"}, {Condition("eq", Text(<<"human">>))})
Matched  == Policy("p", TRUE, {"login", "secret.exposed"}, {Condition("matches", broken)})
Open     == Policy("q", TRUE, {"secret.exposed"}, {})

MCFiles == <<"a.json", "b.json">>
MCContents ==
  {absent, unparsable, <<Approved, [Open EXCEPT !.valid = FALSE]>>, <<Matched, Open>>,
   <<[Approved EXCEPT !.enabled = FALSE]>>}

Event(type, environment) ==
  [type |-> type, environment |-> environment, fields |-> [f \in {"actor.kind"} |-> Text(<<"human">>)]]

MCPayloads == {Event("login", "production"), Event("secret.exposed", "production"),
               Event("login", "staging")}
=============================================================================
