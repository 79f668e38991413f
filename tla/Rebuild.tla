------------------------------ MODULE Rebuild ------------------------------
(***************************************************************************)
(* What a consumer of var/app.db may count on while build_database runs:   *)
(* at any time the file is the complete dataset of one workbook, or it is  *)
(* under reconstruction and reflects none.  A run withdraws what was there *)
(* and publishes its own workbook in one step; a run that gives up         *)
(* publishes nothing.  BuildDb implements this as long as at most two runs *)
(* overlap.                                                                *)
(***************************************************************************)
CONSTANTS Workbooks, Runs, NoBook

VARIABLES
  content,   \* the workbook whose dataset the file is, or NoBook
  job        \* job[r]: the workbook run r is ingesting, or NoBook

Init == content = NoBook /\ job = [r \in Runs |-> NoBook]

Begin(r, w) ==
  /\ job[r] = NoBook
  /\ job' = [job EXCEPT ![r] = w]
  /\ UNCHANGED content

Withdraw(r) ==
  /\ job[r] # NoBook
  /\ content' = NoBook
  /\ UNCHANGED job

Publish(r) ==
  /\ job[r] # NoBook
  /\ content = NoBook
  /\ content' = job[r]
  /\ job' = [job EXCEPT ![r] = NoBook]

GiveUp(r) ==
  /\ job[r] # NoBook
  /\ job' = [job EXCEPT ![r] = NoBook]
  /\ UNCHANGED content

Next ==
  \E r \in Runs :
    \/ \E w \in Workbooks : Begin(r, w)
    \/ Withdraw(r)
    \/ Publish(r)
    \/ GiveUp(r)

Spec == Init /\ [][Next]_<<content, job>>
=============================================================================
