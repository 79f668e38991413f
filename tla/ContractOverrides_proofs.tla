---------------------- MODULE ContractOverrides_proofs ----------------------
(***************************************************************************)
(* Theorems about the contract overrides and the two modules that use      *)
(* them.  What load_contract_overrides computes is recursive in the        *)
(* manifest; it is settled, for manifests of any length, by induction on   *)
(* the entries read so far (LoadedReflects).  The theorems about a ticket  *)
(* judged under the overrides (TicketDesk) and about how a process comes   *)
(* by them and by the policy (RuleConfig) follow.                          *)
(***************************************************************************)
EXTENDS TicketDesk, RuleConfig, FiniteSetTheorems, WellFoundedInduction, TLAPS

\* A set of numbers with 0 and with every successor is all of them.
LEMMA Induct ==
  ASSUME NEW S \in SUBSET Nat, 0 \in S, \A n \in S : n + 1 \in S
  PROVE  S = Nat
<1> SUFFICES ASSUME Nat \ S # {} PROVE FALSE
  OBVIOUS
<1> DEFINE R == OpToRel(<, Nat)
<1>1. IsWellFoundedOn(R, Nat)
  BY NatLessThanWellFounded
<1>2. \A i, j \in Nat : i < j => <<i, j>> \in R
  BY DEF OpToRel
<1> HIDE DEF R
<1>3. PICK m \in Nat \ S : \A k \in Nat \ S : <<k, m>> \notin R
  BY <1>1, WFMin
<1>4. m # 0 /\ m - 1 \in Nat /\ m - 1 < m /\ (m - 1) + 1 = m
  BY <1>3
<1>5. m - 1 \in S
  BY <1>2, <1>3, <1>4
<1> QED
  BY <1>3, <1>4, <1>5

-----------------------------------------------------------------------------
(* Loading the manifest *)

\* What a manifest m has made of the registry after each of its entries.
Loading(m, after) ==
  after = [n \in 0..Len(m) |->
             IF n = 0 THEN [a \in AccountIds |-> NoOverrides]
                      ELSE Registered(after[n - 1], m[n])]

LEMMA LoadingExists ==
  ASSUME NEW m \in Seq(Entry)
  PROVE  \E after : Loading(m, after) /\ load_contract_overrides(m) = after[Len(m)]
<1> DEFINE First(N, g) ==
             g = [n \in 0..N |->
                    IF n = 0 THEN [a \in AccountIds |-> NoOverrides]
                             ELSE Registered(g[n - 1], m[n])]
           OK == {N \in Nat : \E g : First(N, g)}
<1>1. 0 \in OK
  <2> DEFINE g == [n \in 0..0 |-> [a \in AccountIds |-> NoOverrides]]
  <2>1. First(0, g)
    OBVIOUS
  <2> QED
    BY <2>1
<1>2. ASSUME NEW N \in OK PROVE N + 1 \in OK
  <2>1. PICK g : First(N, g)
    OBVIOUS
  <2> DEFINE h == [n \in 0..(N + 1) |->
                     IF n = 0 THEN [a \in AccountIds |-> NoOverrides]
                              ELSE Registered(g[n - 1], m[n])]
  <2>2. \A n \in 0..N : n \in 0..(N + 1) /\ h[n] = g[n]
    <3>1. N \in Nat
      OBVIOUS
    <3>2. \A n \in 0..N : n \in 0..(N + 1)
      BY <3>1
    <3>3. \A n \in 0..N : h[n] = IF n = 0 THEN [a \in AccountIds |-> NoOverrides]
                                          ELSE Registered(g[n - 1], m[n])
      BY <3>2, Zenon
    <3>4. \A n \in 0..N : g[n] = IF n = 0 THEN [a \in AccountIds |-> NoOverrides]
                                          ELSE Registered(g[n - 1], m[n])
      BY <2>1, Zenon
    <3> QED
      BY <3>2, <3>3, <3>4, Zenon
  <2>3. First(N + 1, h)
    <3>1. \A n \in 0..(N + 1) : n # 0 => n - 1 \in 0..N
      <4>1. N \in Nat
        OBVIOUS
      <4> HIDE DEF h, First, OK
      <4> QED
        BY <4>1
    <3>2. \A n \in 0..(N + 1) : n # 0 => g[n - 1] = h[n - 1]
      <4> HIDE DEF h, First, OK
      <4> QED
        BY <2>2, <3>1, Zenon
    <3> QED
      BY <3>2, Zenon
  <2> HIDE DEF h, First
  <2>4. N + 1 \in Nat
    OBVIOUS
  <2> QED
    BY <2>3, <2>4
<1> HIDE DEF OK
<1>3. OK = Nat
  BY <1>1, <1>2, Induct DEF OK
<1>4. \E g : First(Len(m), g)
  BY <1>3 DEF OK
<1>5. /\ Loading(m, CHOOSE g : First(Len(m), g))
      /\ load_contract_overrides(m) = (CHOOSE g : First(Len(m), g))[Len(m)]
  BY <1>4, Zenon DEF Loading, load_contract_overrides
<1> QED
  BY <1>5

\* Entry i is the last of the first n entries for account a on a topic.
LastOf(m, n, a, topic, i) ==
  /\ i \in 1..n /\ m[i].account_id = a /\ m[i].topic = topic
  /\ \A j \in 1..n : m[j].account_id = a /\ m[j].topic = topic => j <= i

\* The registry after n entries is what the last entries among them say.
Reflects(m, n, registry) ==
  \A a \in AccountIds, topic \in Topics :
    \/ /\ \A i \in 1..n : ~(m[i].account_id = a /\ m[i].topic = topic)
       /\ registry[a][topic] = NULL
    \/ \E i \in 1..n : LastOf(m, n, a, topic, i) /\ registry[a][topic] = m[i].rule

Shape(registry) ==
  /\ DOMAIN registry = AccountIds
  /\ \A a \in AccountIds : DOMAIN registry[a] = Topics

LEMMA RegisteredKeepsReflecting ==
  ASSUME NEW m \in Seq(Entry), NEW n \in Nat, n + 1 \in 1..Len(m),
         ~Rejected(m[n + 1]),
         NEW registry, Shape(registry), Reflects(m, n, registry)
  PROVE  /\ Shape(Registered(registry, m[n + 1]))
         /\ Reflects(m, n + 1, Registered(registry, m[n + 1]))
<1> DEFINE e == m[n + 1]
           new == Registered(registry, e)
<1>1. e \in Entry /\ e.account_id \in AccountIds /\ e.topic \in Topics
  BY DEF Entry, Entries, Rejected
<1>2. new = [registry EXCEPT ![e.account_id] =
               [registry[e.account_id] EXCEPT ![e.topic] = e.rule]]
  BY DEF Registered
<1>3. /\ DOMAIN new = AccountIds
      /\ \A a \in AccountIds : DOMAIN new[a] = Topics
      /\ new[e.account_id][e.topic] = e.rule
      /\ \A a \in AccountIds, topic \in Topics :
           ~(e.account_id = a /\ e.topic = topic) => new[a][topic] = registry[a][topic]
  BY <1>1, <1>2 DEF Shape
<1>4. Shape(new)
  BY <1>3 DEF Shape
<1> HIDE DEF new, e
<1>5. ASSUME NEW a \in AccountIds, NEW topic \in Topics
      PROVE  \/ /\ \A i \in 1..(n + 1) : ~(m[i].account_id = a /\ m[i].topic = topic)
                /\ new[a][topic] = NULL
             \/ \E i \in 1..(n + 1) : LastOf(m, n + 1, a, topic, i) /\ new[a][topic] = m[i].rule
  <2>1. \A i \in 1..(n + 1) : i = n + 1 \/ i \in 1..n
    OBVIOUS
  <2>2. CASE e.account_id = a /\ e.topic = topic
    <3>1. LastOf(m, n + 1, a, topic, n + 1)
      BY <2>2 DEF LastOf, e
    <3>2. new[a][topic] = m[n + 1].rule
      BY <1>3, <2>2 DEF e
    <3> QED
      BY <3>1, <3>2
  <2>3. CASE ~(e.account_id = a /\ e.topic = topic)
    <3>1. new[a][topic] = registry[a][topic]
      BY <1>3, <2>3
    <3>2. ~(m[n + 1].account_id = a /\ m[n + 1].topic = topic)
      BY <2>3 DEF e
    <3>3. CASE /\ \A i \in 1..n : ~(m[i].account_id = a /\ m[i].topic = topic)
               /\ registry[a][topic] = NULL
      BY <2>1, <3>1, <3>2, <3>3
    <3>4. ASSUME NEW i \in 1..n, LastOf(m, n, a, topic, i), registry[a][topic] = m[i].rule
          PROVE  /\ i \in 1..(n + 1) /\ LastOf(m, n + 1, a, topic, i)
                 /\ new[a][topic] = m[i].rule
      <4>1. i \in 1..(n + 1)
        OBVIOUS
      <4>2. \A j \in 1..(n + 1) : m[j].account_id = a /\ m[j].topic = topic => j <= i
        BY <2>1, <3>2, <3>4 DEF LastOf
      <4> QED
        BY <3>1, <3>4, <4>1, <4>2 DEF LastOf
    <3> QED
      BY <3>3, <3>4 DEF Reflects
  <2> QED
    BY <2>2, <2>3
<1> QED
  BY <1>4, <1>5 DEF Reflects, new, e

\* Loading a manifest reflects all of its entries.
LEMMA LoadedReflects ==
  ASSUME NEW m \in Seq(Entry), Loads(m)
  PROVE  Reflects(m, Len(m), load_contract_overrides(m))
<1>1. PICK after : Loading(m, after) /\ load_contract_overrides(m) = after[Len(m)]
  BY LoadingExists
<1> DEFINE OK == {n \in Nat : n <= Len(m) => Shape(after[n]) /\ Reflects(m, n, after[n])}
<1>2. 0 \in OK
  <2>1. after[0] = [a \in AccountIds |-> NoOverrides]
    BY <1>1 DEF Loading
  <2>2. Shape(after[0]) /\ Reflects(m, 0, after[0])
    BY <2>1 DEF Shape, Reflects, NoOverrides
  <2> QED
    BY <2>2
<1>3. ASSUME NEW n \in OK PROVE n + 1 \in OK
  <2>1. n \in Nat /\ n + 1 \in Nat
    OBVIOUS
  <2> SUFFICES ASSUME n + 1 <= Len(m)
               PROVE  Shape(after[n + 1]) /\ Reflects(m, n + 1, after[n + 1])
    BY <2>1
  <2>2. n + 1 \in 1..Len(m) /\ n + 1 \in 0..Len(m) /\ n + 1 # 0 /\ (n + 1) - 1 = n /\ n <= Len(m)
    BY <2>1
  <2>3. Shape(after[n]) /\ Reflects(m, n, after[n])
    BY <2>2
  <2>4. after[n + 1] = Registered(after[n], m[n + 1])
    BY <1>1, <2>2 DEF Loading
  <2>5. ~Rejected(m[n + 1])
    BY <2>2 DEF Loads
  <2> HIDE DEF OK
  <2> QED
    BY <2>1, <2>2, <2>3, <2>4, <2>5, RegisteredKeepsReflecting
<1> HIDE DEF OK
<1>4. OK = Nat
  BY <1>2, <1>3, Induct DEF OK
<1>5. Len(m) \in Nat /\ Len(m) <= Len(m)
  OBVIOUS
<1> QED
  BY <1>1, <1>4, <1>5 DEF OK

\* load_contract_overrides keeps the latest entry of each account and topic.
LEMMA LoadedIsLatest ==
  ASSUME NEW m \in Seq(Entry), Loads(m), NEW a \in AccountIds, NEW topic \in Topics
  PROVE  LET i == Latest(m, a, topic) IN
         /\ load_contract_overrides(m)[a][topic] = IF i = 0 THEN NULL ELSE m[i].rule
         /\ i # 0 => i \in DOMAIN m /\ m[i].topic = topic
<1> DEFINE at == {i \in DOMAIN m : m[i].account_id = a /\ m[i].topic = topic}
<1>1. DOMAIN m = 1..Len(m) /\ Len(m) \in Nat
  OBVIOUS
<1>2. Reflects(m, Len(m), load_contract_overrides(m))
  BY LoadedReflects
<1>3. CASE \A i \in 1..Len(m) : ~(m[i].account_id = a /\ m[i].topic = topic)
  <2>1. Latest(m, a, topic) = 0
    BY <1>1, <1>3 DEF Latest
  <2>2. ~ \E i \in 1..Len(m) : LastOf(m, Len(m), a, topic, i)
    BY <1>3 DEF LastOf
  <2> QED
    BY <1>2, <2>1, <2>2 DEF Reflects
<1>4. CASE ~ \A i \in 1..Len(m) : ~(m[i].account_id = a /\ m[i].topic = topic)
  <2>1. PICK i \in 1..Len(m) : /\ LastOf(m, Len(m), a, topic, i)
                               /\ load_contract_overrides(m)[a][topic] = m[i].rule
    BY <1>2, <1>4 DEF Reflects
  <2>2. i \in at /\ \A j \in at : j <= i
    BY <1>1, <2>1 DEF LastOf
  <2>3. \A k \in at : (\A j \in at : j <= k) => k = i
    BY <1>1, <2>2
  <2>4. Latest(m, a, topic) = i
    <3>1. at # {} /\ Latest(m, a, topic) = CHOOSE k \in at : \A j \in at : j <= k
      BY <2>2 DEF Latest
    <3> HIDE DEF at
    <3> QED
      BY <2>2, <2>3, <3>1
  <2>5. i # 0 /\ i \in DOMAIN m /\ m[i].topic = topic
    BY <1>1, <2>1 DEF LastOf
  <2> QED
    BY <2>1, <2>4, <2>5
<1> QED
  BY <1>3, <1>4

-----------------------------------------------------------------------------
(* The ticket *)

LEMMA StepType == TypeOK /\ [Next]_vars => TypeOK'
<1> SUFFICES ASSUME TypeOK, [Next]_vars PROVE TypeOK'
  OBVIOUS
<1>1. CASE Wait
  BY <1>1 DEF Wait, TypeOK
<1>2. ASSUME NEW s \in Severities \cup {NULL}, NEW c \in Confidences, Triage(s, c)
      PROVE  TypeOK'
  BY <1>2 DEF Triage, TypeOK, Ticket
<1>3. ASSUME NEW e \in Entry, Amend(e) PROVE TypeOK'
  BY <1>3 DEF Amend, TypeOK
<1>4. ASSUME NEW i \in 1..MaxEntries, Swap(i) PROVE TypeOK'
  <2>1. manifest' \in Seq(Entry)
    BY <1>4 DEF Swap, TypeOK
  <2> QED
    BY <1>4, <2>1 DEF Swap, TypeOK
<1>5. CASE UNCHANGED vars
  BY <1>5 DEF vars, TypeOK
<1> QED
  BY <1>1, <1>2, <1>3, <1>4, <1>5 DEF Next

\* The state keeps its types: a manifest is only ever a sequence of entries.
THEOREM TypeCorrect == Spec => []TypeOK
<1>1. Init => TypeOK
  BY DEF Init, TypeOK, Ticket, Confidences
<1> QED
  BY <1>1, StepType, PTL DEF Spec

\* Loading keeps the latest entry of every account on every topic.
THEOREM LatestCounts == Spec => []LatestEntryCounts
<1>1. TypeOK => LatestEntryCounts
  BY LoadedIsLatest DEF TypeOK, LatestEntryCounts
<1> QED
  BY <1>1, TypeCorrect, PTL

\* No verdict rests on a severity nobody settled.
THEOREM SeverityNotInvented == Spec => []NeverInventsSeverity
<1>1. NeverInventsSeverity
  BY DEF NeverInventsSeverity, sla, Rule!check_sla_status, Rule!Unknown, Rule!Judged
<1> QED
  BY <1>1, PTL

\* The targets of a ticket's account are those of its latest SLA entry.
LEMMA TargetsOfLatest ==
  ASSUME TypeOK, Loads(manifest)
  PROVE  /\ targets = IF SlaRule(manifest) = NULL THEN NoTargets ELSE SlaRule(manifest)
         /\ SlaRule(manifest) \in Rules["sla"] \cup {NULL}
<1> DEFINE a == ticket.account_id
           i == Latest(manifest, a, "sla")
<1>1. a \in AccountIds /\ "sla" \in Topics /\ manifest \in Seq(Entry)
  BY DEF TypeOK, Ticket, Topics
<1>2. /\ load_contract_overrides(manifest)[a]["sla"] = IF i = 0 THEN NULL ELSE manifest[i].rule
      /\ i # 0 => i \in DOMAIN manifest /\ manifest[i].topic = "sla"
  BY <1>1, LoadedIsLatest
<1>3. load_contract_overrides(manifest)[a].sla = SlaRule(manifest)
  BY <1>2 DEF SlaRule
<1>4. i # 0 => manifest[i].rule \in Rules["sla"]
  BY <1>1, <1>2 DEF Loads, Rejected, Entry
<1> QED
  BY <1>3, <1>4 DEF targets, get_override, SlaRule

\* Entries other than the latest SLA entry of the account change no answer.
THEOREM OtherEntriesDoNotCount == Spec => UnrelatedEntriesLocal
<1>1. ASSUME TypeOK, TypeOK', UNCHANGED <<now, ticket>>, Loads(manifest), Loads(manifest'),
             SlaRule(manifest) = SlaRule(manifest')
      PROVE  sla' = sla
  <2>1. targets = IF SlaRule(manifest) = NULL THEN NoTargets ELSE SlaRule(manifest)
    BY <1>1, TargetsOfLatest
  <2>2. targets' = (IF SlaRule(manifest) = NULL THEN NoTargets ELSE SlaRule(manifest))'
    <3>1. (TypeOK /\ Loads(manifest))' =>
            (targets = IF SlaRule(manifest) = NULL THEN NoTargets ELSE SlaRule(manifest))'
      BY TargetsOfLatest, PTL
    <3> QED
      BY <1>1, <3>1
  <2>3. targets' = targets
    <3>1. (SlaRule(manifest))' = SlaRule(manifest)
      BY <1>1 DEF SlaRule
    <3>2. targets' = IF (SlaRule(manifest))' = NULL THEN NoTargets ELSE (SlaRule(manifest))'
      BY <2>2 DEF NoTargets
    <3> QED
      BY <2>1, <3>1, <3>2
  <2> QED
    BY <1>1, <2>3 DEF sla
<1>2. TypeOK /\ TypeOK' /\ [Next]_vars =>
        [UNCHANGED <<now, ticket>> /\ Loads(manifest) /\ Loads(manifest')
           /\ SlaRule(manifest) = SlaRule(manifest') => sla' = sla]_vars
  BY <1>1
<1> QED
  BY <1>2, TypeCorrect, PTL DEF Spec, UnrelatedEntriesLocal

\* The target that counts, where there is one, is a number of minutes.
LEMMA TargetInMinutes ==
  ASSUME TypeOK, Loads(manifest)
  PROVE  LET target == Rule!_resolve_target(Accounts[ticket.account_id], ticket.severity,
                                            targets, Policy)
         IN  target = NULL \/ Rule!to_timedelta(target) \in Int
<1> DEFINE target == Rule!_resolve_target(Accounts[ticket.account_id], ticket.severity,
                                          targets, Policy)
<1>1. IsTargets(targets)
  BY TargetsOfLatest, ContractTargetsAssumption DEF NoTargets, IsTargets
<1>2. target = NULL \/ target \in SlaTarget
  BY <1>1, PlanTargetsAssumption DEF IsTargets, Rule!_resolve_target
<1> HIDE DEF target
<1>3. ASSUME target \in SlaTarget PROVE Rule!to_timedelta(target) \in Int
  <2>1. target.amount \in Int /\ target.unit \in {"minutes", "hours", "days"}
    BY <1>3 DEF SlaTarget
  <2>2. CASE target.unit = "minutes"
    BY <2>1, <2>2 DEF Rule!to_timedelta
  <2>3. CASE target.unit = "hours"
    BY <2>1, <2>3 DEF Rule!to_timedelta
  <2>4. CASE target.unit = "days"
    BY <2>1, <2>4 DEF Rule!to_timedelta
  <2> QED
    BY <2>1, <2>2, <2>3, <2>4
<1> QED
  BY <1>2, <1>3 DEF target

\* With the ticket and the contracts untouched, only breach comes nearer.
THEOREM BreachStays == Spec => BreachIsFinal
<1>1. ASSUME TypeOK, [Next]_vars, Loads(manifest), UNCHANGED <<ticket, manifest>>, sla' # sla
      PROVE  \/ <<sla.status, sla'.status>> \in Progress
             \/ "created_at" \in sla.missing /\ now < ticket.created_at
  <2> DEFINE target == Rule!_resolve_target(Accounts[ticket.account_id], ticket.severity,
                                            targets, Policy)
             spent   == now - ticket.created_at
             later   == now' - ticket.created_at
             limit   == Rule!to_timedelta(target)
             Settled == ticket.severity # NULL /\ ticket.confidence # "unresolved"
  <2>1. now \in Int /\ now' \in Int /\ ticket.created_at \in Int
    BY <1>1, StepType, TicketTimesAssumption DEF TypeOK, Ticket
  <2>2. now <= now'
    <3>1. now' = now \/ now' > now
      BY <1>1 DEF Next, Wait, Triage, Amend, Swap, vars
    <3> QED
      BY <2>1, <3>1
  <2>3. ticket' = ticket /\ manifest' = manifest /\ targets' = targets
    BY <1>1 DEF targets
  <2>4. target = NULL \/ limit \in Int
    BY <1>1, TargetInMinutes
  <2> HIDE DEF target, limit
  <2>5. CASE spent < 0
    BY <2>1, <2>5 DEF sla, Rule!check_sla_status, Rule!Elapsed, Rule!Unknown
  <2>6. CASE ~(spent < 0)
    <3>1. ~(later < 0) /\ spent <= later /\ spent \in Int /\ later \in Int
      BY <2>1, <2>2, <2>6
    <3>2. Settled /\ target # NULL
      BY <1>1, <2>3, <2>6, <3>1
      DEF sla, Rule!check_sla_status, Rule!Elapsed, Rule!Unknown, target
    <3>3. sla.status = CASE spent < limit -> "within_target"
                         [] spent = limit -> "at_target"
                         [] spent > limit -> "breached"
      BY <2>6, <3>2 DEF sla, Rule!check_sla_status, Rule!Elapsed, Rule!Judged, target, limit
    <3>4. sla'.status = CASE later < limit -> "within_target"
                          [] later = limit -> "at_target"
                          [] later > limit -> "breached"
      BY <2>3, <3>1, <3>2 DEF sla, Rule!check_sla_status, Rule!Elapsed, Rule!Judged, target, limit
    <3>5. sla.status # sla'.status
      BY <1>1, <2>3, <2>6, <3>1, <3>2, <3>3, <3>4
      DEF sla, Rule!check_sla_status, Rule!Elapsed, Rule!Judged, target, limit
    <3>6. limit \in Int
      BY <2>4, <3>2
    <3> QED
      BY <3>1, <3>3, <3>4, <3>5, <3>6 DEF Progress
  <2> QED
    BY <2>5, <2>6
<1>2. TypeOK /\ [Next]_vars =>
        [Loads(manifest) /\ UNCHANGED <<ticket, manifest>> /\ sla' # sla =>
           \/ <<sla.status, sla'.status>> \in Progress
           \/ "created_at" \in sla.missing /\ now < ticket.created_at]_vars
  BY <1>1
<1> QED
  BY <1>2, TypeCorrect, PTL DEF Spec, BreachIsFinal

-----------------------------------------------------------------------------
(* The configuration of a process *)

\* The variables of RuleConfig are functions of processes and files.
Domains ==
  /\ DOMAIN disk = Files /\ DOMAIN saving = Files
  /\ DOMAIN path = Processes /\ DOMAIN config = Processes /\ DOMAIN met = Processes
  /\ \A p \in Processes : DOMAIN path[p] = Files /\ DOMAIN config[p] = Files /\ DOMAIN met[p] = Files

\* A real file that nobody is saving is absent or holds a whole document.
PartsOnlyWhileSaving ==
  \A f \in Files :
    IF saving[f] = NULL THEN disk[f] \in {Absent} \cup Supplied[f]
    ELSE saving[f] \in Supplied[f] /\ disk[f] \in Started(f, saving[f])

OneOpening == \A p \in Processes : \A f, g \in Opening(p) : f = g

\* Which file a process chose tells how the real one has been.
PathsMet ==
  \A p \in Processes, f \in Files :
    /\ path[p][f] \in {NULL, "real", "example"}
    /\ met[p][f] \subseteq {"missing", "present", "saving"}
    /\ path[p][f] = "example" => "missing" \in met[p][f]
    /\ path[p][f] = "real" => "present" \in met[p][f]

\* Until a process has loaded a file the history includes the moment at hand.
MomentMet ==
  \A p \in Processes, f \in Files :
    config[p][f] = NULL => Moment(disk[f], saving[f]) \subseteq met[p][f]

\* What loads is the example, a document, or the beginning of one for a
\* process that has met the file while it was saved.
FromTexts ==
  \A p \in Processes, f \in Files :
    config[p][f] \notin {NULL, Raised} =>
      \/ \E d \in Documents(f) : config[p][f] = Load(f, d)
      \/ /\ ~Undisturbed(p, f)
         /\ \E d \in Supplied[f] : \E t \in Started(f, d) : config[p][f] = Load(f, t)

ConfigInv ==
  /\ Domains
  /\ PartsOnlyWhileSaving
  /\ OneOpening
  /\ PathsMet
  /\ MomentMet
  /\ FromTexts

LEMMA PartsNext ==
  PartsOnlyWhileSaving' <=>
    \A f \in Files :
      IF saving'[f] = NULL THEN disk'[f] \in {Absent} \cup Supplied[f]
      ELSE saving'[f] \in Supplied[f] /\ disk'[f] \in Started(f, saving'[f])
  BY DEF PartsOnlyWhileSaving, Started, StartedManifest, StartedPolicy

LEMMA FromTextsNext ==
  FromTexts' <=>
    \A p \in Processes, f \in Files :
      config'[p][f] \notin {NULL, Raised} =>
        \/ \E d \in Documents(f) : config'[p][f] = Load(f, d)
        \/ /\ ~("saving" \notin met'[p][f])
           /\ \E d \in Supplied[f] : \E t \in Started(f, d) : config'[p][f] = Load(f, t)
  BY DEF FromTexts, Undisturbed

LEMMA MomentNext ==
  MomentMet' <=>
    \A p \in Processes, f \in Files :
      config'[p][f] = NULL => Moment(disk'[f], saving'[f]) \subseteq met'[p][f]
  BY DEF MomentMet, Moment

LEMMA ConfigInitInv == ConfigInit => ConfigInv
<1> SUFFICES ASSUME ConfigInit PROVE ConfigInv
  OBVIOUS
<1> USE DEF ConfigInit, Nothing
<1>1. Domains
  BY DEF Domains
<1>2. PartsOnlyWhileSaving
  BY DEF PartsOnlyWhileSaving
<1>3. OneOpening
  BY DEF OneOpening, Opening
<1>4. \A p \in Processes, f \in Files :
        path[p][f] = NULL /\ config[p][f] = NULL /\ met[p][f] = {"missing"}
  OBVIOUS
<1>5. NULL \notin {"real", "example"}
  BY SentinelsAssumption
<1>6. PathsMet
  BY <1>4, <1>5 DEF PathsMet
<1>7. MomentMet /\ FromTexts
  BY DEF MomentMet, Moment, FromTexts
<1> QED
  BY <1>1, <1>2, <1>3, <1>6, <1>7 DEF ConfigInv

LEMMA RestartKeeps ==
  ASSUME ConfigInv, NEW p \in Processes, Restart(p)
  PROVE  ConfigInv'
<1>1. /\ disk' = disk /\ saving' = saving
      /\ \A f \in Files : /\ path'[p][f] = NULL /\ config'[p][f] = NULL
                          /\ met'[p][f] = Moment(disk[f], saving[f])
      /\ \A q \in Processes : q # p =>
           path'[q] = path[q] /\ config'[q] = config[q] /\ met'[q] = met[q]
  BY DEF ConfigInv, Domains, Restart, Nothing
<1>2. Domains'
  BY DEF ConfigInv, Domains, Restart, Nothing
<1>3. PartsOnlyWhileSaving'
  BY <1>1, PartsNext DEF ConfigInv, PartsOnlyWhileSaving
<1>4. OneOpening'
  BY <1>1 DEF ConfigInv, OneOpening, Opening
<1>5. PathsMet'
  <2>1. \A f \in Files : Moment(disk[f], saving[f]) \subseteq {"missing", "present", "saving"}
    BY DEF Moment
  <2> SUFFICES ASSUME NEW q \in Processes, NEW g \in Files
               PROVE  /\ path'[q][g] \in {NULL, "real", "example"}
                      /\ met'[q][g] \subseteq {"missing", "present", "saving"}
                      /\ path'[q][g] = "example" => "missing" \in met'[q][g]
                      /\ path'[q][g] = "real" => "present" \in met'[q][g]
    BY DEF PathsMet
  <2>2. CASE q = p
    BY <1>1, <2>1, <2>2, SentinelsAssumption
  <2>3. CASE q # p
    BY <1>1, <2>3 DEF ConfigInv, PathsMet
  <2> QED
    BY <2>2, <2>3
<1>6. MomentMet'
  BY <1>1, MomentNext DEF ConfigInv, MomentMet
<1>7. FromTexts'
  BY <1>1, FromTextsNext DEF ConfigInv, FromTexts, Undisturbed
<1> QED
  BY <1>2, <1>3, <1>4, <1>5, <1>6, <1>7 DEF ConfigInv

LEMMA ResolveKeeps ==
  ASSUME ConfigInv, NEW p \in Processes, NEW f \in Files, Resolve(p, f)
  PROVE  ConfigInv'
<1>1. /\ disk' = disk /\ saving' = saving /\ config' = config /\ met' = met
      /\ path'[p][f] = default_config_path(f)
      /\ \A q \in Processes, g \in Files : ~(q = p /\ g = f) => path'[q][g] = path[q][g]
  BY DEF ConfigInv, Domains, Resolve
<1>2. Domains'
  BY DEF ConfigInv, Domains, Resolve
<1>3. PartsOnlyWhileSaving'
  BY <1>1, PartsNext DEF ConfigInv, PartsOnlyWhileSaving
<1>4. OneOpening'
  <2>1. \A g \in Files : g # f => g \notin Opening(p)'
    BY <1>1 DEF Resolve, Opening
  <2>2. \A q \in Processes : q # p => Opening(q)' = Opening(q)
    BY <1>1 DEF Opening
  <2> QED
    BY <2>1, <2>2 DEF ConfigInv, OneOpening, Opening
<1>5. PathsMet'
  <2>1. Moment(disk[f], saving[f]) \subseteq met[p][f]
    BY DEF ConfigInv, MomentMet, Resolve
  <2>2. /\ path'[p][f] \in {"real", "example"}
        /\ path'[p][f] = "example" => "missing" \in met[p][f]
        /\ path'[p][f] = "real" => "present" \in met[p][f]
    BY <1>1, <2>1 DEF default_config_path, Moment
  <2> QED
    BY <1>1, <2>2 DEF ConfigInv, PathsMet
<1>6. MomentMet'
  BY <1>1, MomentNext DEF ConfigInv, MomentMet
<1>7. FromTexts'
  BY <1>1, FromTextsNext DEF ConfigInv, FromTexts, Undisturbed
<1> QED
  BY <1>2, <1>3, <1>4, <1>5, <1>6, <1>7 DEF ConfigInv

\* What p would get by reading the file it resolved.
Answer(p, f) ==
  IF path[p][f] = "example" THEN Load(f, Example[f])
  ELSE IF disk[f] = Absent THEN Raised
  ELSE Load(f, disk[f])

\* A file on disk holds a document, or the beginning of one, in which case
\* whoever is about to read it has met it while it was saved.
LEMMA OnDisk ==
  ASSUME ConfigInv, NEW p \in Processes, NEW f \in Files, config[p][f] = NULL, disk[f] # Absent
  PROVE  \/ disk[f] \in Supplied[f]
         \/ /\ ~Undisturbed(p, f)
            /\ \E d \in Supplied[f] : disk[f] \in Started(f, d)
<1>1. CASE saving[f] = NULL
  BY <1>1 DEF ConfigInv, PartsOnlyWhileSaving
<1>2. CASE saving[f] # NULL
  <2>1. saving[f] \in Supplied[f] /\ disk[f] \in Started(f, saving[f])
    BY <1>2 DEF ConfigInv, PartsOnlyWhileSaving
  <2>2. Moment(disk[f], saving[f]) \subseteq met[p][f]
    BY DEF ConfigInv, MomentMet
  <2>3. "saving" \in met[p][f]
    BY <1>2, <2>2 DEF Moment
  <2> QED
    BY <2>1, <2>3 DEF Undisturbed
<1> QED
  BY <1>1, <1>2

LEMMA ReadKeeps ==
  ASSUME ConfigInv, NEW p \in Processes, NEW f \in Files, Read(p, f)
  PROVE  ConfigInv'
<1>1. /\ disk' = disk /\ saving' = saving /\ path' = path /\ met' = met
      /\ config'[p][f] = Answer(p, f)
      /\ \A q \in Processes, g \in Files : ~(q = p /\ g = f) => config'[q][g] = config[q][g]
  BY DEF ConfigInv, Domains, Read, Answer
<1>2. Domains'
  BY DEF ConfigInv, Domains, Read
<1>3. PartsOnlyWhileSaving'
  BY <1>1, PartsNext DEF ConfigInv, PartsOnlyWhileSaving
<1>4. config[p][f] = NULL
  BY DEF Read, Opening
<1>5. OneOpening'
  <2>1. \A q \in Processes : Opening(q)' \subseteq Opening(q)
    BY <1>1, <1>4 DEF Opening
  <2> QED
    BY <2>1 DEF ConfigInv, OneOpening
<1>6. PathsMet'
  BY <1>1 DEF ConfigInv, PathsMet
<1>7. MomentMet'
  BY <1>1, <1>4, MomentNext DEF ConfigInv, MomentMet
<1>8. Answer(p, f) \notin {NULL, Raised} =>
        \/ \E d \in Documents(f) : Answer(p, f) = Load(f, d)
        \/ /\ ~Undisturbed(p, f)
           /\ \E d \in Supplied[f] : \E t \in Started(f, d) : Answer(p, f) = Load(f, t)
  <2>1. CASE path[p][f] = "example"
    BY <2>1 DEF Answer, Documents
  <2>2. CASE path[p][f] # "example" /\ disk[f] # Absent
    <3>1. Answer(p, f) = Load(f, disk[f])
      BY <2>2 DEF Answer
    <3> QED
      BY <1>4, <2>2, <3>1, OnDisk DEF Documents
  <2>3. CASE path[p][f] # "example" /\ disk[f] = Absent
    BY <2>3 DEF Answer
  <2> QED
    BY <2>1, <2>2, <2>3
<1>9. FromTexts'
  <2> SUFFICES ASSUME NEW q \in Processes, NEW g \in Files, config'[q][g] \notin {NULL, Raised}
               PROVE  \/ \E d \in Documents(g) : config'[q][g] = Load(g, d)
                      \/ /\ ~("saving" \notin met'[q][g])
                         /\ \E d \in Supplied[g] : \E t \in Started(g, d) : config'[q][g] = Load(g, t)
    BY FromTextsNext
  <2>1. CASE q = p /\ g = f
    BY <1>1, <1>8, <2>1 DEF Undisturbed
  <2>2. CASE ~(q = p /\ g = f)
    BY <1>1, <2>2 DEF ConfigInv, FromTexts, Undisturbed
  <2> QED
    BY <2>1, <2>2
<1> QED
  BY <1>2, <1>3, <1>5, <1>6, <1>7, <1>9 DEF ConfigInv

\* Whoever is at a file changes that file, and adds to what the processes that
\* have not loaded it have met.
LEMMA PutKeeps ==
  ASSUME ConfigInv, NEW f \in Files, NEW text, NEW d, Put(f, text, d),
         IF d = NULL THEN text \in {Absent} \cup Supplied[f]
         ELSE d \in Supplied[f] /\ text \in Started(f, d)
  PROVE  ConfigInv'
<1>1. /\ path' = path /\ config' = config
      /\ disk'[f] = text /\ saving'[f] = d
      /\ \A g \in Files : g # f => disk'[g] = disk[g] /\ saving'[g] = saving[g]
  BY DEF ConfigInv, Domains, Put
<1>2. /\ DOMAIN met' = Processes
      /\ \A p \in Processes : DOMAIN met'[p] = Files
      /\ \A p \in Processes, g \in Files :
           met'[p][g] = IF g = f /\ config[p][g] = NULL THEN met[p][g] \cup Moment(text, d)
                        ELSE met[p][g]
  BY DEF Put
<1>3. Domains'
  BY <1>1, <1>2 DEF ConfigInv, Domains, Put
<1>4. PartsOnlyWhileSaving'
  BY <1>1, PartsNext DEF ConfigInv, PartsOnlyWhileSaving
<1>5. OneOpening'
  BY <1>1 DEF ConfigInv, OneOpening, Opening
<1>6. Moment(text, d) \subseteq {"missing", "present", "saving"}
  BY DEF Moment
<1>7. \A p \in Processes, g \in Files :
        /\ met[p][g] \subseteq met'[p][g]
        /\ met'[p][g] \subseteq met[p][g] \cup Moment(text, d)
  BY <1>2
<1>8. PathsMet'
  BY <1>1, <1>6, <1>7 DEF ConfigInv, PathsMet
<1>9. MomentMet'
  <2> SUFFICES ASSUME NEW q \in Processes, NEW g \in Files, config'[q][g] = NULL
               PROVE  Moment(disk'[g], saving'[g]) \subseteq met'[q][g]
    BY MomentNext
  <2>1. CASE g = f
    BY <1>1, <1>2, <2>1
  <2>2. CASE g # f
    BY <1>1, <1>7, <2>2 DEF ConfigInv, MomentMet
  <2> QED
    BY <2>1, <2>2
<1>10. FromTexts'
  BY <1>1, <1>7, FromTextsNext DEF ConfigInv, FromTexts, Undisturbed
<1> QED
  BY <1>3, <1>4, <1>5, <1>8, <1>9, <1>10 DEF ConfigInv

LEMMA SaveKeeps ==
  ASSUME ConfigInv, NEW f \in Files, NEW d \in Supplied[f], Save(f, d)
  PROVE  ConfigInv'
<1>1. PICK part \in Started(f, d) : Put(f, part, d)
  BY DEF Save
<1>2. d # NULL
  BY SentinelsAssumption DEF Documents
<1> QED
  BY <1>1, <1>2, PutKeeps

LEMMA SavedKeeps ==
  ASSUME ConfigInv, NEW f \in Files, Saved(f)
  PROVE  ConfigInv'
<1>1. saving[f] \in Supplied[f] /\ Put(f, saving[f], NULL)
  BY DEF ConfigInv, PartsOnlyWhileSaving, Saved
<1> QED
  BY <1>1, PutKeeps

LEMMA RemoveKeeps ==
  ASSUME ConfigInv, NEW f \in Files, Remove(f)
  PROVE  ConfigInv'
BY PutKeeps DEF Remove

LEMMA ConfigStep == ConfigInv /\ [ConfigNext]_configvars => ConfigInv'
<1> SUFFICES ASSUME ConfigInv, [ConfigNext]_configvars PROVE ConfigInv'
  OBVIOUS
<1>1. CASE ConfigNext
  BY <1>1, RestartKeeps, ResolveKeeps, ReadKeeps, SaveKeeps, SavedKeeps, RemoveKeeps DEF ConfigNext
<1>2. CASE UNCHANGED configvars
  <2>1. disk' = disk /\ saving' = saving /\ path' = path /\ config' = config /\ met' = met
    BY <1>2 DEF configvars
  <2>2. Domains' /\ OneOpening' /\ PathsMet'
    BY <2>1 DEF ConfigInv, Domains, OneOpening, Opening, PathsMet
  <2>3. PartsOnlyWhileSaving'
    BY <2>1, PartsNext DEF ConfigInv, PartsOnlyWhileSaving
  <2>4. MomentMet'
    BY <2>1, MomentNext DEF ConfigInv, MomentMet
  <2>5. FromTexts'
    BY <2>1, FromTextsNext DEF ConfigInv, FromTexts, Undisturbed
  <2> QED
    BY <2>2, <2>3, <2>4, <2>5 DEF ConfigInv
<1> QED
  BY <1>1, <1>2

LEMMA ConfigInvariance == ConfigSpec => []ConfigInv
BY ConfigInitInv, ConfigStep, PTL DEF ConfigSpec

\* The state keeps its types: a process opens one file at a time, and what it
\* got is an outcome of the loader on a document or on the beginning of one.
THEOREM ConfigTypeCorrect == ConfigSpec => []ConfigTypeOK
<1>1. ConfigInv => ConfigTypeOK
  <2> SUFFICES ASSUME ConfigInv PROVE ConfigTypeOK
    OBVIOUS
  <2>1. ASSUME NEW f \in Files
        PROVE  saving[f] \in {NULL} \cup Supplied[f] /\ disk[f] \in {Absent} \cup Texts(f)
    BY DEF ConfigInv, PartsOnlyWhileSaving, Texts
  <2>2. ASSUME NEW p \in Processes PROVE Cardinality(Opening(p)) <= 1
    <3>1. CASE Opening(p) = {}
      BY <3>1, FS_EmptySet
    <3>2. CASE Opening(p) # {}
      <4>1. PICK f : f \in Opening(p)
        BY <3>2
      <4>2. Opening(p) = {f}
        BY <4>1 DEF ConfigInv, OneOpening
      <4>3. Cardinality(Opening(p)) = 1
        BY <4>2, FS_Singleton, Zenon
      <4> QED
        BY <4>3
    <3> QED
      BY <3>1, <3>2
  <2>3. ASSUME NEW p \in Processes, NEW f \in Files
        PROVE  config[p][f] \in {NULL} \cup Outcomes(f)
    <3>1. CASE \E d \in Documents(f) : config[p][f] = Load(f, d)
      BY <3>1 DEF Documents, Outcomes, Texts
    <3>2. CASE \E d \in Supplied[f] : \E t \in Started(f, d) : config[p][f] = Load(f, t)
      <4>1. PICK d, t : d \in Supplied[f] /\ t \in Started(f, d) /\ config[p][f] = Load(f, t)
        BY <3>2
      <4>2. t \in Texts(f)
        BY <4>1 DEF Texts
      <4> QED
        BY <4>1, <4>2 DEF Outcomes
    <3>3. CASE config[p][f] \in {NULL, Raised}
      BY <3>3 DEF Outcomes
    <3> QED
      BY <3>1, <3>2, <3>3 DEF ConfigInv, FromTexts
  <2> QED
    BY <2>1, <2>2, <2>3 DEF ConfigInv, PathsMet, ConfigTypeOK
<1> QED
  BY <1>1, ConfigInvariance, PTL

\* To a process the two steps of a load are one, but for an error where the
\* file was there and then missing: however files come and go.
THEOREM LoadsAreAtOneMoment == ConfigSpec => LoadedAtOneMoment
<1> DEFINE AtOneMoment(p, f) ==
             \/ disk[f] # Absent /\ config'[p][f] = Load(f, disk[f])
             \/ "missing" \in met[p][f] /\ config'[p][f] = Load(f, Example[f])
             \/ {"missing", "present"} \subseteq met[p][f] /\ config'[p][f] = Raised
<1>1. ConfigInv /\ ConfigNext =>
        \A p \in Processes, f \in Files :
          config[p][f] = NULL /\ config'[p][f] # NULL => AtOneMoment(p, f)
  <2> SUFFICES ASSUME ConfigInv, ConfigNext, NEW p \in Processes, NEW f \in Files,
                      config[p][f] = NULL, config'[p][f] # NULL
               PROVE  AtOneMoment(p, f)
    OBVIOUS
  <2>1. Read(p, f)
    <3>1. ASSUME NEW q \in Processes, Restart(q) PROVE FALSE
      BY <3>1 DEF Restart, Nothing, ConfigInv, Domains
    <3>2. ASSUME NEW q \in Processes, NEW g \in Files, Resolve(q, g) PROVE FALSE
      BY <3>2 DEF Resolve
    <3>3. ASSUME NEW q \in Processes, NEW g \in Files, Read(q, g) PROVE q = p /\ g = f
      BY <3>3 DEF Read, ConfigInv, Domains
    <3>4. ASSUME NEW g \in Files, NEW text, NEW d, Put(g, text, d) PROVE FALSE
      BY <3>4 DEF Put
    <3> QED
      BY <3>1, <3>2, <3>3, <3>4 DEF ConfigNext, Save, Saved, Remove
  <2>2. config'[p][f] = Answer(p, f)
    BY <2>1 DEF Read, Answer, ConfigInv, Domains
  <2>3. path[p][f] \in {"real", "example"}
    BY <2>1 DEF Read, Opening, ConfigInv, PathsMet
  <2>4. CASE path[p][f] = "example"
    BY <2>2, <2>4 DEF Answer, ConfigInv, PathsMet
  <2>5. CASE path[p][f] = "real" /\ disk[f] = Absent
    <3>1. "present" \in met[p][f]
      BY <2>5 DEF ConfigInv, PathsMet
    <3>2. "missing" \in met[p][f]
      BY <2>5 DEF ConfigInv, MomentMet, Moment
    <3> QED
      BY <2>2, <2>5, <3>1, <3>2 DEF Answer
  <2>6. CASE path[p][f] = "real" /\ disk[f] # Absent
    BY <2>2, <2>6 DEF Answer
  <2> QED
    BY <2>3, <2>4, <2>5, <2>6
<1>2. ConfigInv /\ [ConfigNext]_configvars =>
        [\A p \in Processes, f \in Files :
           config[p][f] = NULL /\ config'[p][f] # NULL => AtOneMoment(p, f)]_configvars
  BY <1>1
<1> QED
  BY <1>2, ConfigInvariance, PTL DEF ConfigSpec, LoadedAtOneMoment

\* A process has a policy of one document, of which no more than one section
\* is cut short, and none for a process that met no saving.
THEOREM PoliciesOfOneDocument == ConfigSpec => []PolicyOfOneDocument
<1>1. ConfigInv => PolicyOfOneDocument
  <2> DEFINE pd == "policy_defaults"
  <2> SUFFICES ASSUME ConfigInv, NEW p \in Processes, config[p][pd] \notin {NULL, Raised}
               PROVE  \E d \in Documents(pd) :
                        /\ DOMAIN d = Sections
                        /\ \/ config[p][pd] = PolicyDefaults(d)
                           \/ /\ ~Undisturbed(p, pd)
                              /\ \E x \in Sections : \E part \in Cut(d[x]) :
                                   config[p][pd] = PolicyDefaults([d EXCEPT ![x] = part])
    BY DEF PolicyOfOneDocument
  <2>1. \A t : config[p][pd] = Load(pd, t) =>
          t # Unloadable /\ DOMAIN t = Sections /\ config[p][pd] = PolicyDefaults(t)
    BY DEF Load, load_policy_defaults
  <2>2. CASE \E d \in Documents(pd) : config[p][pd] = Load(pd, d)
    BY <2>1, <2>2
  <2>3. CASE /\ ~Undisturbed(p, pd)
             /\ \E d \in Supplied[pd] : \E t \in Started(pd, d) : config[p][pd] = Load(pd, t)
    <3>1. PICK d, t : d \in Supplied[pd] /\ t \in Started(pd, d) /\ config[p][pd] = Load(pd, t)
      BY <2>3
    <3>2. d \in Documents(pd)
      BY <3>1 DEF Documents
    <3>3. t # Unloadable /\ DOMAIN t = Sections /\ config[p][pd] = PolicyDefaults(t)
      BY <2>1, <3>1
    <3>4. t \in StartedPolicy(d)
      BY <3>1, <3>3 DEF Started
    <3>5. CASE t = d
      BY <3>2, <3>3, <3>5
    <3>6. CASE \E x \in DOMAIN d : \E part \in Cut(d[x]) : t = [d EXCEPT ![x] = part]
      <4>1. PICK x, part : x \in DOMAIN d /\ part \in Cut(d[x]) /\ t = [d EXCEPT ![x] = part]
        BY <3>6
      <4>2. DOMAIN d = Sections
        BY <3>3, <4>1
      <4> QED
        BY <2>3, <3>2, <3>3, <4>1, <4>2
    <3> QED
      BY <3>4, <3>5, <3>6 DEF StartedPolicy
  <2> QED
    BY <2>2, <2>3 DEF ConfigInv, FromTexts, Files
<1> QED
  BY <1>1, ConfigInvariance, PTL

LEMMA LoadedSays ==
  ASSUME NEW m \in Seq(Entry), Loads(m)
  PROVE  Says(m, load_contract_overrides(m))
BY LoadedIsLatest DEF Says

\* A process's registry has the rules of the first entries of one manifest and
\* no more than one rule of an entry cut short; it has them all, as they are,
\* if the process met no saving.
THEOREM RegistriesOfOneManifest == ConfigSpec => []ContractsOfOneManifest
<1>1. ConfigInv => ContractsOfOneManifest
  <2> DEFINE co == "contract_overrides"
             Fits(p, d, n) ==
               /\ \A i \in 1..n : ~Rejected(d[i])
               /\ \/ /\ Says(SubSeq(d, 1, n), config[p][co])
                     /\ n = Len(d) \/ ~Undisturbed(p, co)
                  \/ /\ n < Len(d) /\ ~Undisturbed(p, co)
                     /\ \E e \in Cut(d[n + 1]) :
                          ~Rejected(e) /\ Says(Append(SubSeq(d, 1, n), e), config[p][co])
  <2> SUFFICES ASSUME ConfigInv, NEW p \in Processes, config[p][co] \notin {NULL, Raised}
               PROVE  \E d \in Documents(co) : \E n \in 0..Len(d) : Fits(p, d, n)
    BY DEF ContractsOfOneManifest
  <2>1. ASSUME NEW t, config[p][co] = Load(co, t)
        PROVE  t # Unloadable /\ Loads(t) /\ config[p][co] = load_contract_overrides(t)
    BY <2>1 DEF Load
  <2>2. \A d \in Documents(co) : d \in Seq(Entry)
    BY DocumentsAssumption DEF Files
  <2>3. ASSUME NEW d \in Documents(co), NEW n \in 0..Len(d), Loads(SubSeq(d, 1, n)),
               config[p][co] = load_contract_overrides(SubSeq(d, 1, n)),
               n = Len(d) \/ ~Undisturbed(p, co)
        PROVE  Fits(p, d, n)
    <3>1. d \in Seq(Entry)
      BY <2>2
    <3>2. /\ SubSeq(d, 1, n) \in Seq(Entry)
          /\ \A i \in 1..n : i \in DOMAIN SubSeq(d, 1, n) /\ SubSeq(d, 1, n)[i] = d[i]
      BY <3>1
    <3>3. \A i \in 1..n : ~Rejected(d[i])
      BY <2>3, <3>2 DEF Loads
    <3>4. Says(SubSeq(d, 1, n), config[p][co])
      BY <2>3, <3>2, LoadedSays
    <3> QED
      BY <2>3, <3>3, <3>4
  <2>4. CASE \E d \in Documents(co) : config[p][co] = Load(co, d)
    <3>1. PICK d \in Documents(co) : config[p][co] = Load(co, d)
      BY <2>4
    <3>2. d \in Seq(Entry)
      BY <2>2
    <3>3. Len(d) \in 0..Len(d) /\ SubSeq(d, 1, Len(d)) = d
      BY <3>2
    <3> QED
      BY <2>1, <2>3, <3>1, <3>3
  <2>5. CASE /\ ~Undisturbed(p, co)
             /\ \E d \in Supplied[co] : \E t \in Started(co, d) : config[p][co] = Load(co, t)
    <3>1. PICK d, t : d \in Supplied[co] /\ t \in Started(co, d) /\ config[p][co] = Load(co, t)
      BY <2>5
    <3>2. d \in Documents(co) /\ d \in Seq(Entry)
      BY <2>2, <3>1 DEF Documents
    <3>3. t # Unloadable /\ Loads(t) /\ config[p][co] = load_contract_overrides(t)
      BY <2>1, <3>1
    <3>4. t \in StartedManifest(d)
      BY <3>1, <3>3 DEF Started
    <3>5. CASE \E n \in 0..Len(d) : t = SubSeq(d, 1, n)
      <4>1. PICK n \in 0..Len(d) : t = SubSeq(d, 1, n)
        BY <3>5
      <4>2. Fits(p, d, n)
        BY <2>3, <2>5, <3>2, <3>3, <4>1
      <4> QED
        BY <3>2, <4>2
    <3>6. CASE \E n \in 0..(Len(d) - 1) : \E e \in Cut(d[n + 1]) : t = Append(SubSeq(d, 1, n), e)
      <4>1. PICK n, e : /\ n \in 0..(Len(d) - 1) /\ e \in Cut(d[n + 1])
                        /\ t = Append(SubSeq(d, 1, n), e)
        BY <3>6
      <4>2. n \in 0..Len(d) /\ n < Len(d) /\ n + 1 \in 1..Len(d) /\ Len(d) \in Nat /\ n \in Nat
        BY <3>2, <4>1
      <4>3. e \in Entry
        <5>1. d[n + 1] \in Entry
          BY <3>2, <4>2
        <5> QED
          BY <4>1, <5>1, CutAssumption
      <4>4. /\ SubSeq(d, 1, n) \in Seq(Entry) /\ Len(SubSeq(d, 1, n)) = n
            /\ \A i \in 1..n : SubSeq(d, 1, n)[i] = d[i]
        BY <3>2, <4>2
      <4>5. t \in Seq(Entry) /\ DOMAIN t = 1..(n + 1) /\ t[n + 1] = e /\ \A i \in 1..n : t[i] = d[i]
        BY <4>1, <4>2, <4>3, <4>4
      <4>6. ~Rejected(e) /\ \A i \in 1..n : ~Rejected(d[i])
        <5>1. \A i \in 1..(n + 1) : ~Rejected(t[i])
          BY <3>3, <4>5 DEF Loads
        <5>2. n + 1 \in 1..(n + 1) /\ \A i \in 1..n : i \in 1..(n + 1)
          BY <4>2
        <5> QED
          BY <4>5, <5>1, <5>2
      <4>7. Says(t, config[p][co])
        BY <3>3, <4>5, LoadedSays
      <4>8. Fits(p, d, n)
        BY <2>5, <4>1, <4>2, <4>6, <4>7
      <4> QED
        BY <3>2, <4>2, <4>8
    <3> QED
      BY <3>4, <3>5, <3>6 DEF StartedManifest
  <2> QED
    BY <2>4, <2>5 DEF ConfigInv, FromTexts, Files
<1> QED
  BY <1>1, ConfigInvariance, PTL

-----------------------------------------------------------------------------
(* Which documents stand in for which *)

\* What an undisturbed process loads is a whole document.
UndisturbedAsMeant ==
  \A p \in Processes, f \in Files :
    Undisturbed(p, f) =>
      config[p][f] \in {NULL, Raised} \cup {Load(f, d) : d \in Documents(f)}

\* Where nobody was saving a file from the start of a process to its load, the
\* process has the configuration somebody meant, or an error: ConfigAsMeant
\* fails only by a file that is read while it is saved.
THEOREM UndisturbedLoadsAsMeant == ConfigSpec => []UndisturbedAsMeant
<1>1. ConfigInv => UndisturbedAsMeant
  BY DEF ConfigInv, FromTexts, UndisturbedAsMeant
<1> QED
  BY <1>1, ConfigInvariance, PTL

\* A process uses the example of a file only where it has met the real one
\* missing.
ExamplesForMissing ==
  \A p \in Processes, f \in Files : path[p][f] = "example" => "missing" \in met[p][f]

\* To mix real contracts with the example policy, the real policy has to be
\* missing at some moment between the start of the process and its load.
THEOREM ExamplesOnlyForMissing == ConfigSpec => []ExamplesForMissing
<1>1. ConfigInv => ExamplesForMissing
  BY DEF ConfigInv, PathsMet, ExamplesForMissing
<1> QED
  BY <1>1, ConfigInvariance, PTL
=============================================================================
