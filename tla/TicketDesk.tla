----------------------------- MODULE TicketDesk -----------------------------
(***************************************************************************)
(* The SLA rule asked again and again of one ticket, as data packs with    *)
(* later snapshot times are ingested, somebody settles the ticket's        *)
(* severity, and the manifest of contract overrides is edited: entries are *)
(* added at its end or reordered.  The edits come from outside src/.       *)
(***************************************************************************)
EXTENDS ContractOverrides, Integers

CONSTANTS
  Times,        \* the times that occur, in minutes
  Severities,   \* severities that occur; the loaders keep P1, P2 and P3
  Accounts,     \* Accounts[a]: the plan of account a
  Policy,       \* PolicyDefaults
  MaxEntries    \* bound on the length of the manifest

Rule == INSTANCE RuleEngine

SlaTarget == [amount : Int, unit : {"minutes", "hours", "days"}, is_business_time : BOOLEAN]

IsTargets(f) == \A s \in DOMAIN f : f[s] \in SlaTarget

ASSUME PlanTargetsAssumption ==
  \A plan \in DOMAIN Policy.sla_targets : IsTargets(Policy.sla_targets[plan])
ASSUME ContractTargetsAssumption == \A rule \in Rules["sla"] : IsTargets(rule)
ASSUME TicketTimesAssumption == Times \subseteq Int
ASSUME AccountsAssumption == DOMAIN Accounts = AccountIds

Confidences == {"explicit", "inferred", "unresolved"}

Ticket == [account_id : AccountIds, created_at : Times,
           severity : Severities \cup {NULL}, confidence : Confidences]

VARIABLES
  now,        \* the snapshot time of the data pack
  ticket,     \* the ticket, with what the caller makes of its severity
  manifest    \* the entries of config/contract_overrides.yaml

vars == <<now, ticket, manifest>>

TypeOK == now \in Times /\ ticket \in Ticket /\ manifest \in Seq(Entry)

\* Severity is not a stored field: nobody has settled it yet.
Init ==
  /\ now \in Times
  /\ ticket \in [account_id : AccountIds, created_at : Times,
                 severity : {NULL}, confidence : {"unresolved"}]
  /\ manifest = <<>>

-----------------------------------------------------------------------------

Wait ==
  /\ now' \in {t \in Times : t > now}
  /\ UNCHANGED <<ticket, manifest>>

\* Mutant: the two arguments change places.
TriageSwapped(severity, confidence) ==
  /\ ticket' = [ticket EXCEPT !.severity = confidence, !.confidence = severity]
  /\ UNCHANGED <<now, manifest>>

\* Somebody reads the ticket, or corrects an earlier reading.  The pair may be
\* inconsistent: a confidence without a severity.
Triage(severity, confidence) ==
  /\ ticket' = [ticket EXCEPT !.severity = severity, !.confidence = confidence]
  /\ UNCHANGED <<now, manifest>>

Amend(e) ==
  /\ Len(manifest) < MaxEntries
  /\ manifest' = Append(manifest, e)
  /\ UNCHANGED <<now, ticket>>

\* Two neighbouring entries change places.
Swap(i) ==
  /\ i \in DOMAIN manifest /\ i + 1 \in DOMAIN manifest
  /\ manifest' = [manifest EXCEPT ![i] = manifest[i + 1], ![i + 1] = manifest[i]]
  /\ UNCHANGED <<now, ticket>>

Next ==
  \/ Wait
  \/ \E s \in Severities \cup {NULL}, c \in Confidences : Triage(s, c)
  \/ \E e \in Entry : Amend(e)
  \/ \E i \in 1..MaxEntries : Swap(i)

Spec == Init /\ [][Next]_vars

-----------------------------------------------------------------------------
(* The rule, for the account's targets as they are loaded *)

NoTargets == [s \in {} |-> NULL]

\* SlaOverride.targets, empty where the account has no override on the topic.
targets ==
  LET override == get_override(load_contract_overrides(manifest), ticket.account_id).sla
  IN  IF override = NULL THEN NoTargets ELSE override

sla == Rule!check_sla_status(Accounts[ticket.account_id], ticket, now, targets, Policy)

-----------------------------------------------------------------------------
(* Properties *)

Progress == {<<"within_target", "at_target">>, <<"within_target", "breached">>,
             <<"at_target", "breached">>}

\* While nobody touches the ticket or the contracts, a later snapshot only
\* moves the answer towards breach; a breach is never taken back, and what
\* was unknown stays so unless the ticket was created after the snapshot.
BreachIsFinal ==
  [][Loads(manifest) /\ UNCHANGED <<ticket, manifest>> /\ sla' # sla =>
       \/ <<sla.status, sla'.status>> \in Progress
       \/ "created_at" \in sla.missing /\ now < ticket.created_at]_vars

\* A severity that is missing or unresolved is never judged, and an answer is
\* never more confident than the reading of the severity it rests on.
NeverInventsSeverity ==
  Loads(manifest) =>
    /\ sla.status # "unknown" => ticket.severity # NULL /\ ticket.confidence # "unresolved"
    /\ sla.status # "unknown" => sla.confidence = ticket.confidence

\* Loading gives every account, on every topic, the rule of the latest entry
\* for that account and topic, whatever entries surround it.
LatestEntryCounts ==
  Loads(manifest) =>
    \A a \in AccountIds, topic \in Topics :
      load_contract_overrides(manifest)[a][topic] =
        LET i == Latest(manifest, a, topic) IN
          IF i = 0 THEN NULL ELSE manifest[i].rule

\* The rule that counts for the ticket's account on SLA, NULL if none does.
SlaRule(m) ==
  LET i == Latest(m, ticket.account_id, "sla") IN IF i = 0 THEN NULL ELSE m[i].rule

\* Adding or reordering entries changes no answer about this ticket unless it
\* changes the latest SLA entry of the ticket's own account.
UnrelatedEntriesLocal ==
  [][UNCHANGED <<now, ticket>> /\ Loads(manifest) /\ Loads(manifest')
       /\ SlaRule(manifest) = SlaRule(manifest') => sla' = sla]_vars
=============================================================================
