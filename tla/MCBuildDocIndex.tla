-------------------------- MODULE MCBuildDocIndex --------------------------
(* Instances of BuildDocIndex for TLC: a policy, then a contract; texts of one *)
(* and two sections and an empty one.                                          *)
EXTENDS BuildDocIndex

CONSTANTS policy, contract, acct, short, long, blank

GeneralPolicy == [filename |-> policy, customer_account_id |-> General]
OwnContract   == [filename |-> contract, customer_account_id |-> acct]

MCManifests == {<<GeneralPolicy, OwnContract>>, <<OwnContract>>}

MCSectionsOf == [x \in Texts |-> CASE x = short -> 1 [] x = long -> 2 [] x = blank -> 0]

MCFolders ==
  {[f \in Files |-> IF f = policy THEN x ELSE y] :
     x \in {long, blank, Absent}, y \in {short, Unreadable, Absent}}
=============================================================================
