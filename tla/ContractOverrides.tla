------------------------- MODULE ContractOverrides -------------------------
(***************************************************************************)
(* load_contract_overrides and get_override of                             *)
(* src/backend/rules/contract_overrides.py, as functions of the manifest.  *)
(* A manifest is a sequence of entries; a rule is what its topic's parser  *)
(* makes of it, or Malformed when the parser raises.                       *)
(***************************************************************************)
EXTENDS Naturals, Sequences

CONSTANTS
  AccountIds, Malformed, NULL,
  Rules   \* Rules[topic]: the results of the topic's parser

Topics == {"cancellation", "service_credit", "sla"}

ASSUME RulesAssumption == DOMAIN Rules = Topics
ASSUME MalformedAssumption == \A topic \in Topics : {Malformed, NULL} \cap Rules[topic] = {}

\* A topic that is not in _TOPIC_PARSERS is "other".
Entries ==
  {[account_id |-> a, topic |-> topic, rule |-> r] :
     a \in AccountIds, topic \in Topics, r \in {Malformed} \cup UNION {Rules[x] : x \in Topics}}
    \cup [account_id : AccountIds, topic : {"other"}, rule : {Malformed}]

Entry == {e \in Entries : e.topic \in Topics => e.rule \in Rules[e.topic] \cup {Malformed}}

\* AccountContractOverrides, without the account_id: NULL where it has no topic.
NoOverrides == [topic \in Topics |-> NULL]

\* ValueError for an unknown topic, or the parser's own error.
Rejected(e) == e.topic \notin Topics \/ e.rule = Malformed

\* Mutant: the first entry of a topic is kept.
RegisteredOnce(registry, e) ==
  IF registry[e.account_id][e.topic] # NULL THEN registry
  ELSE [registry EXCEPT ![e.account_id][e.topic] = e.rule]

\* Mutant: an entry replaces everything its account had.
RegisteredAlone(registry, e) ==
  [registry EXCEPT ![e.account_id] = [NoOverrides EXCEPT ![e.topic] = e.rule]]

\* `registry[account_id] = existing.model_copy(update={field_name: parse(rule)})`
Registered(registry, e) == [registry EXCEPT ![e.account_id][e.topic] = e.rule]

\* Mutant: a faulty entry does not matter.
LoadsLeniently(manifest) == manifest \in Seq(Entry)

\* A manifest loads as a whole or not at all.  An account without an entry is
\* given NoOverrides here, for which get_override returns None.
Loads(manifest) == \A i \in DOMAIN manifest : ~Rejected(manifest[i])

load_contract_overrides(manifest) ==
  LET after[n \in 0..Len(manifest)] ==
        IF n = 0 THEN [a \in AccountIds |-> NoOverrides]
                 ELSE Registered(after[n - 1], manifest[n])
  IN  after[Len(manifest)]

get_override(registry, account) == registry[account]

\* The latest entry of manifest m for account a on a topic, 0 if there is none.
Latest(m, a, topic) ==
  LET at == {i \in DOMAIN m : m[i].account_id = a /\ m[i].topic = topic}
  IN  IF at = {} THEN 0 ELSE CHOOSE i \in at : \A j \in at : j <= i
=============================================================================
