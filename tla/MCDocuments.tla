---------------------------- MODULE MCDocuments ----------------------------
(***************************************************************************)
(* Contracts and Sync for TLC, in one run: what enters the platform as a   *)
(* document and through a connector.  A behaviour is one of either module, *)
(* as machine says, and leaves the variables of the other alone.  The      *)
(* source of the connection has two records.                               *)
(***************************************************************************)
EXTENDS MCContracts, SyncState

VARIABLE machine

Syncs == INSTANCE Sync

SumSymmetry == Symmetry \cup Permutations(Records)

\* While there are two sync jobs no worker dies and one of them is repeated.
Bound ==
  machine = "sync" /\ (\A r \in SyncRuns : synRuns[r].at # "none") =>
    synDeaths = 0 /\ Cardinality({r \in SyncRuns : synRuns[r].tries > 1}) <= 1

\* While contracts are at work there is no connection.
NoSync == synProvider = "stripe" /\ synSource = [x \in Records |-> 0] /\ synConn = "none"

SumInit ==
  /\ Syncs!Init /\ Init
  /\ \/ machine = "contract" /\ NoSync
     \/ machine = "sync" /\ terms = {}

SumNext ==
  \/ machine = "contract" /\ Next /\ UNCHANGED <<machine, syncVars>>
  \/ machine = "sync" /\ Syncs!Next /\ UNCHANGED <<machine, vars>>

SumSpec == SumInit /\ [][SumNext]_<<machine, vars, syncVars>>
=============================================================================
