--------------------------- MODULE MCGeneralLedger ---------------------------
(* Finite instances of GeneralLedger.  What holds of requests served one   *)
(* at a time and what holds whatever happens are checked in the same run:  *)
(* calm remembers whether anything irregular has happened.                 *)
EXTENDS GeneralLedger, TLC

VARIABLE calm  \* no overlap, edit, lost entry or switched account so far

Overlap == \E r, s \in Requests : r # s /\ handler'[r] # Idle /\ handler'[s] # Idle
Edition == \E x \in Expenses : expense[x].exists /\ expense'[x].amount # expense[x].amount
Lost == \E r \in Requests : DropExpense(r)

MCInit == Init /\ calm = TRUE
MCNext == Next /\ calm' = (calm /\ ~ Overlap /\ ~ Edition /\ ~ Lost /\ active' = active)
MCSpec == MCInit /\ [][MCNext]_<<vars, calm>>

\* Bounds: a behaviour that is no longer calm has one document; the one account
\* that is ever switched off is revenue, while at most one request is in flight.
OneDocument ==
    calm' \/ /\ Cardinality({d \in Documents : doc'[d] # NoRow}) <= 1
             /\ \/ active' = Accounts
                \/ active' = Accounts \ {"revenue"} /\ ~ Overlap

Interchangeable == Permutations(Requests) \cup Permutations(Documents)

\* In calm behaviours: closing retains what the business has earned.
CalmRetainedWasEarned == calm => RetainedWasEarned
=============================================================================
