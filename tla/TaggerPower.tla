----------------------------- MODULE TaggerPower -----------------------------
(***************************************************************************)
(* TaggerRun on a machine that may lose power.  The cache is opened in WAL *)
(* mode with synchronous=NORMAL (store/driver.go's open): SQLite commits   *)
(* without waiting for the disk, so that a power failure may take back the *)
(* last commits, of whichever table, but never tears or reorders them.     *)
(* Hydrus, another program on another machine perhaps, forgets nothing.    *)
(***************************************************************************)
EXTENDS TaggerRun

VARIABLE durable  \* the cache's tables as they would be found after a power loss

powerVars == <<vars, durable>>

Tables == [refs |-> refs, state |-> state, chunks |-> chunks, tags |-> tags,
           ledger |-> ledger]

PowerInit == Init /\ durable = Tables

\* Mutant: commits reach the disk out of order, the ledger's before all others.
SyncLedgerFirst ==
  /\ durable # Tables
  /\ \/ durable' = Tables
     \/ durable' = [durable EXCEPT !.ledger = ledger, !.state = state]
  /\ UNCHANGED vars

\* The write-ahead log reaches the disk, up to the last commit.
Sync ==
  /\ durable # Tables
  /\ durable' = Tables
  /\ UNCHANGED vars

\* The tables are what had reached the disk, and every process is gone.  What it
\* had sent is on its way still.
PowerLoss ==
  /\ Fault
  /\ refs' = durable.refs
  /\ state' = durable.state
  /\ chunks' = durable.chunks
  /\ tags' = durable.tags
  /\ ledger' = durable.ledger
  /\ pc' = [p \in Proc |-> "idle"]
  /\ cancelled' = [p \in Proc |-> FALSE]
  /\ files' = [p \in Proc |-> {}]
  /\ work' = [p \in Proc |-> {}]
  /\ chunk' = [p \in Proc |-> {}]
  /\ reading' = [p \in Proc |-> {}]
  /\ free' = [p \in Proc |-> Concurrency]
  /\ outdated' = [p \in Proc |-> {}]
  /\ extracted' = [p \in Proc |-> {}]
  /\ fetched' = [p \in Proc |-> [f \in File |-> None]]
  /\ candidates' = [p \in Proc |-> [f \in File |-> None]]
  /\ request' = [p \in Proc |-> NoRequest]
  /\ pushed' = [p \in Proc |-> {}]
  /\ pending' = [p \in Proc |-> NothingPending]
  /\ status' = [p \in Proc |-> IF pc[p] = "idle" THEN status[p] ELSE "killed"]
  /\ UNCHANGED <<outside, durable, flawed>>

PowerNext == (Next /\ UNCHANGED durable) \/ Sync \/ PowerLoss

PowerSpec == PowerInit /\ [][PowerNext]_powerVars

\* Nothing is assumed of Sync: the log may stay off the disk for ever.
PowerFairSpec ==
  PowerSpec /\ \A p \in Proc : WF_powerVars(Step(p) /\ UNCHANGED durable)

-----------------------------------------------------------------------------
\* Whatever moment the power fails at, what is found on the disk claims no more
\* than Hydrus and the disk itself hold: the ledger only pushes Hydrus got, the
\* versions only artifacts and tags that are there (driver.go's pragmas beneath
\* the order of host.go's saves: artifact, version, tags, push, ledger).
DurableBacked ==
  \A f \in File :
    /\ durable.ledger[f] # None => durable.ledger[f] \in hydrus[f]
    /\ durable.state[f].extract <= durable.chunks[f]
    /\ durable.state[f].derive > 0 => durable.tags[f] # None
    /\ durable.state[f].extract <= build.extract
    /\ durable.state[f].derive <= build.derive
    /\ durable.chunks[f] <= build.extract

=============================================================================
