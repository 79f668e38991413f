----------------------------- MODULE RuleConfig -----------------------------
(***************************************************************************)
(* How a process comes by the configuration of the rules: each loader of   *)
(* policy_defaults.py and contract_overrides.py asks whether its real file *)
(* exists, then reads that file or the public example.  The two loaders    *)
(* resolve their files separately, in either order, while a person saves   *)
(* and removes the real files from outside src/.                           *)
(*                                                                         *)
(* A loader takes whatever yaml.safe_load makes of the text it finds, and  *)
(* the text of a file that is being saved may break off anywhere.          *)
(***************************************************************************)
EXTENDS ContractOverrides, FiniteSets

CONSTANTS
  Processes,
  Example,      \* Example[f]: the committed config/<f>.example.yaml
  Supplied,     \* Supplied[f]: the documents somebody may write to config/<f>.yaml
  Cut(_),       \* what an entry, or a section, reads as when its text breaks off inside
  Unloadable,   \* a text that makes the loader raise: of the parser, or for want of a key
  Absent, Raised

Files    == {"policy_defaults", "contract_overrides"}
Sections == {"sla_targets", "cancellation", "service_credit"}

Documents(f) == {Example[f]} \cup Supplied[f]

ASSUME DocumentsAssumption ==
  \A f \in Files : \A d \in Documents(f) :
    IF f = "policy_defaults" THEN DOMAIN d \subseteq Sections ELSE d \in Seq(Entry)
ASSUME CutAssumption == \A e \in Entry : Cut(e) \subseteq Entry
ASSUME SentinelsAssumption ==
  /\ \A f \in Files : {NULL, Absent, Unloadable} \cap Documents(f) = {}
  /\ NULL \notin {"real", "example"}

VARIABLES
  disk,     \* disk[f]: what config/<f>.yaml holds
  saving,   \* saving[f]: the document being written to it, NULL if none
  path,     \* path[p][f]: what default_config_path returned to p, NULL before
  config,   \* config[p][f]: what p's load returned or raised, NULL before
  met       \* history: met[p][f] is how f has been from p's start to its load

configvars == <<disk, saving, path, config, met>>

Nothing == [f \in Files |-> NULL]

\* How a file is that holds text while d is being written to it.
Moment(text, d) ==
  {IF text = Absent THEN "missing" ELSE "present"} \cup (IF d = NULL THEN {} ELSE {"saving"})

ConfigInit ==
  /\ disk = [f \in Files |-> Absent]
  /\ saving = Nothing
  /\ path = [p \in Processes |-> Nothing]
  /\ config = [p \in Processes |-> Nothing]
  /\ met = [p \in Processes |-> [f \in Files |-> {"missing"}]]

-----------------------------------------------------------------------------
(* The loaders, as functions of a document *)

_SEVERITIES == {"P1", "P2", "P3"}

\* _parse_sla_target is the identity on a target that has its three fields.
SlaTargets(raw) ==
  [plan \in DOMAIN raw |-> [s \in DOMAIN raw[plan] \cap _SEVERITIES |-> raw[plan][s]]]

PolicyDefaults(raw) ==
  [sla_targets                           |-> SlaTargets(raw["sla_targets"]),
   cancellation_free_window_minutes      |-> raw["cancellation"].free_window_minutes,
   cancellation_fee_after_window_inr     |-> raw["cancellation"].fee_after_window_inr,
   credit_default_delay_threshold_hours  |-> raw["service_credit"].default_delay_threshold_hours,
   credit_default_cap_inr                |-> raw["service_credit"].default_credit_cap_inr,
   credit_default_percent                |-> raw["service_credit"].default_credit_percent,
   credit_manager_approval_threshold_inr |-> raw["service_credit"].manager_approval_threshold_inr]

\* Mutant: a section that is missing is taken from the example.
PolicyOrExample(raw) ==
  PolicyDefaults([x \in Sections |->
                    IF x \in DOMAIN raw THEN raw[x] ELSE Example["policy_defaults"][x]])

\* A section that is missing raises.
load_policy_defaults(raw) == IF DOMAIN raw = Sections THEN PolicyDefaults(raw) ELSE Raised

\* The loader of file f, applied to document d.
Load(f, d) ==
  IF d = Unloadable THEN Raised
  ELSE IF f = "policy_defaults" THEN load_policy_defaults(d)
  ELSE IF Loads(d) THEN load_contract_overrides(d)
  ELSE Raised

-----------------------------------------------------------------------------
(* A process *)

\* Mutant: the example wins where there is one.
ExampleFirst(f) == "example"

default_config_path(f) == IF disk[f] # Absent THEN "real" ELSE "example"

Running(p) == \A f \in Files : config[p][f] # Raised
Opening(p) == {f \in Files : path[p][f] # NULL /\ config[p][f] = NULL}

\* Mutant: both paths are resolved before either file is read.
ResolveBoth(p, f) ==
  /\ Running(p) /\ path[p][f] = NULL
  /\ path' = [path EXCEPT ![p][f] = default_config_path(f)]
  /\ UNCHANGED <<disk, saving, config, met>>

\* A process reads the file it resolved before it resolves another.
Resolve(p, f) ==
  /\ Running(p) /\ Opening(p) = {} /\ config[p][f] = NULL
  /\ path' = [path EXCEPT ![p][f] = default_config_path(f)]
  /\ UNCHANGED <<disk, saving, config, met>>

\* Reading a file that went away meanwhile raises.
Read(p, f) ==
  /\ Running(p) /\ f \in Opening(p)
  /\ config' = [config EXCEPT ![p][f] =
       IF path[p][f] = "example" THEN Load(f, Example[f])
       ELSE IF disk[f] = Absent THEN Raised
       ELSE Load(f, disk[f])]
  /\ UNCHANGED <<disk, saving, path, met>>

\* The process ends, and another starts in its place.
Restart(p) ==
  /\ path' = [path EXCEPT ![p] = Nothing]
  /\ config' = [config EXCEPT ![p] = Nothing]
  /\ met' = [met EXCEPT ![p] = [f \in Files |-> Moment(disk[f], saving[f])]]
  /\ UNCHANGED <<disk, saving>>

-----------------------------------------------------------------------------
(* The person who keeps the real files *)

\* File f comes to hold text, with d still to be written in full.
Put(f, text, d) ==
  /\ disk' = [disk EXCEPT ![f] = text]
  /\ saving' = [saving EXCEPT ![f] = d]
  /\ met' = [p \in Processes |->
               [g \in Files |-> IF g = f /\ config[p][g] = NULL THEN met[p][g] \cup Moment(text, d)
                                ELSE met[p][g]]]
  /\ UNCHANGED <<path, config>>

\* The entries before the one at which the text of manifest d breaks off are
\* as in d.  A text that is still empty loads, as no entries at all, whereas
\* "overrides:" with nothing after it raises.  The other sections of a policy
\* are as in d too, whatever the order they are written in: a policy that lacks
\* a section does not load.
StartedManifest(d) ==
  {SubSeq(d, 1, n) : n \in 0..Len(d)}
    \cup UNION {{Append(SubSeq(d, 1, n), e) : e \in Cut(d[n + 1])} : n \in 0..(Len(d) - 1)}

StartedPolicy(d) == {d} \cup UNION {{[d EXCEPT ![x] = part] : part \in Cut(d[x])} : x \in DOMAIN d}

\* What the beginning of the text of d may be read as.
Started(f, d) ==
  {Unloadable} \cup (IF f = "contract_overrides" THEN StartedManifest(d) ELSE StartedPolicy(d))

\* A process reads a file once, so one beginning stands for all.
Save(f, d) ==
  /\ saving[f] = NULL
  /\ \E part \in Started(f, d) : Put(f, part, d)

Saved(f) == saving[f] # NULL /\ Put(f, saving[f], NULL)

Remove(f) == saving[f] = NULL /\ disk[f] # Absent /\ Put(f, Absent, NULL)

-----------------------------------------------------------------------------

ConfigNext ==
  \/ \E p \in Processes : Restart(p) \/ \E f \in Files : Resolve(p, f) \/ Read(p, f)
  \/ \E f \in Files : Saved(f) \/ Remove(f) \/ \E d \in Supplied[f] : Save(f, d)

ConfigSpec == ConfigInit /\ [][ConfigNext]_configvars

\* What config/<f>.yaml may hold, and what the loader of f may make of it.
Texts(f)    == Supplied[f] \cup UNION {Started(f, d) : d \in Supplied[f]}
Outcomes(f) == {Raised} \cup {Load(f, t) : t \in {Example[f]} \cup Texts(f)}

ConfigTypeOK ==
  /\ \A f \in Files : saving[f] \in {NULL} \cup Supplied[f] /\ disk[f] \in {Absent} \cup Texts(f)
  /\ \A p \in Processes :
       /\ Cardinality(Opening(p)) <= 1
       /\ \A f \in Files : /\ path[p][f] \in {NULL, "real", "example"}
                           /\ config[p][f] \in {NULL} \cup Outcomes(f)
                           /\ met[p][f] \subseteq {"missing", "present", "saving"}

-----------------------------------------------------------------------------
(* Properties *)

\* A loader asks whether its file exists and reads it later, and files appear,
\* change and vanish between.  Still a process gets what loading at some one
\* moment since it started would have given it: the text at hand, or the
\* example if the file was missing then.  Only where the file was there at one
\* moment and missing at another may it get an error instead.
LoadedAtOneMoment ==
  [][\A p \in Processes, f \in Files :
       config[p][f] = NULL /\ config'[p][f] # NULL =>
         \/ disk[f] # Absent /\ config'[p][f] = Load(f, disk[f])
         \/ "missing" \in met[p][f] /\ config'[p][f] = Load(f, Example[f])
         \/ {"missing", "present"} \subseteq met[p][f] /\ config'[p][f] = Raised]_configvars

\* Nobody was saving f from p's start to its load.
Undisturbed(p, f) == "saving" \notin met[p][f]

\* A policy has all its sections from one document, the example or one that
\* somebody supplied: none is missing, and none is another document's.  One
\* section may be cut short, but not for a process that was undisturbed.
PolicyOfOneDocument ==
  \A p \in Processes :
    LET policy == config[p]["policy_defaults"] IN
      policy \notin {NULL, Raised} =>
        \E d \in Documents("policy_defaults") :
          /\ DOMAIN d = Sections
          /\ \/ policy = PolicyDefaults(d)
             \/ /\ ~Undisturbed(p, "policy_defaults")
                /\ \E x \in Sections : \E part \in Cut(d[x]) :
                     policy = PolicyDefaults([d EXCEPT ![x] = part])

\* The registry has the rule of the latest entry in m on everything.
Says(m, registry) ==
  \A a \in AccountIds, topic \in Topics :
    LET i == Latest(m, a, topic) IN registry[a][topic] = IF i = 0 THEN NULL ELSE m[i].rule

\* A registry mixes no two manifests and passes over no faulty entry: it has
\* the rules of the latest entries in the first entries of one manifest, all
\* of them sound.  It may lack the later ones, and one rule may be that of an
\* entry cut short, but not for a process that was undisturbed.
ContractsOfOneManifest ==
  \A p \in Processes :
    LET registry == config[p]["contract_overrides"] IN
      registry \notin {NULL, Raised} =>
        \E d \in Documents("contract_overrides") : \E n \in 0..Len(d) :
          /\ \A i \in 1..n : ~Rejected(d[i])
          /\ \/ /\ Says(SubSeq(d, 1, n), registry)
                /\ n = Len(d) \/ ~Undisturbed(p, "contract_overrides")
             \/ /\ n < Len(d) /\ ~Undisturbed(p, "contract_overrides")
                /\ \E e \in Cut(d[n + 1]) :
                     ~Rejected(e) /\ Says(Append(SubSeq(d, 1, n), e), registry)

\* "Load and validate": a configuration that loads is a document as a whole,
\* as somebody meant it.
ConfigAsMeant ==
  \A p \in Processes, f \in Files :
    config[p][f] \in {NULL, Raised} \cup {Load(f, d) : d \in Documents(f)}

\* "The example is not a safe stand-in for real answers": a process that holds
\* real contracts also has the real policy (docstring of default_config_path).
ExampleStandsInForNothing ==
  \A p \in Processes :
    /\ \A f \in Files : config[p][f] \notin {NULL, Raised} /\ met[p][f] \in {{"missing"}, {"present"}}
    /\ path[p]["contract_overrides"] = "real"
    => path[p]["policy_defaults"] = "real"
=============================================================================
