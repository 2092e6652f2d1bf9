----------------------------- MODULE WorkQueue -----------------------------
(***************************************************************************)
(* What the thread pool of src/src/mumule.h promises its client, without   *)
(* threads, counters or locks: items are numbered from 1 in the order of   *)
(* submission, each is claimed at most once and finished after it was      *)
(* claimed, a sync returns only when everything submitted is finished, and *)
(* the numbering restarts only from such a quiet state.                    *)
(***************************************************************************)
EXTENDS Naturals

VARIABLES
  submitted,  \* how many items have been submitted
  claimed,    \* the items some worker has taken
  finished,   \* the items whose work is over
  syncing     \* the client is inside a sync

qvars == <<submitted, claimed, finished, syncing>>

QInit == submitted = 0 /\ claimed = {} /\ finished = {} /\ syncing = FALSE

QSubmit ==
  /\ ~syncing
  /\ submitted' \in Nat /\ submitted' >= submitted
  /\ UNCHANGED <<claimed, finished, syncing>>

QClaim ==
  /\ \E i \in (1..submitted) \ claimed : claimed' = claimed \union {i}
  /\ UNCHANGED <<submitted, finished, syncing>>

QFinish ==
  /\ \E i \in claimed \ finished : finished' = finished \union {i}
  /\ UNCHANGED <<submitted, claimed, syncing>>

QSync ==
  /\ ~syncing
  /\ syncing' = TRUE
  /\ UNCHANGED <<submitted, claimed, finished>>

QSyncReturn ==
  /\ syncing
  /\ finished = 1..submitted
  /\ syncing' = FALSE
  /\ UNCHANGED <<submitted, claimed, finished>>

QClear ==
  /\ ~syncing
  /\ finished = 1..submitted
  /\ submitted' = 0 /\ claimed' = {} /\ finished' = {}
  /\ UNCHANGED syncing

QNext == QSubmit \/ QClaim \/ QFinish \/ QSync \/ QSyncReturn \/ QClear

QSpec == QInit /\ [][QNext]_qvars
=============================================================================
