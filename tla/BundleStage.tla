----------------------------- MODULE BundleStage -----------------------------
(***************************************************************************)
(* Directories of raw payload on disk: the private stage a bundle or a     *)
(* trainer export works in, and the stage write_derived_bundle renames     *)
(* into its destination (packages/export/sediment_export/                  *)
(* _record_storage.py, derived_bundle.py).                                 *)
(*                                                                         *)
(* A private stage is found again after its owner died by the lock file    *)
(* beside it: a lock nobody holds proves the owner is gone.  Every new     *)
(* private stage first sweeps what earlier owners left.  A publication     *)
(* stage, .<destination>.<random>, is not claimed, and an interrupted one  *)
(* stays for the operator (left out: a destination that is itself named    *)
(* sediment-*, whose stage has the prefix of the private ones and is       *)
(* claimed and swept like them).  Stage names are random, so a name        *)
(* belongs to one owner for ever.                                          *)
(***************************************************************************)
EXTENDS Naturals, FiniteSets

CONSTANTS
    Exports,     \* runs that work in a private stage, each in a process of its own
    Publishers,  \* runs that publish a bundle at the one destination
    Members      \* the files of a bundle, the manifest included

Owners == Exports \union Publishers
NoOwner == "no owner"

ASSUME StageAssumption ==
    /\ "manifest" \in Members
    /\ Exports \intersect Publishers = {}
    /\ NoOwner \notin Owners

VARIABLES
    pc,       \* run -> the step it is at; "dead" after a crash
    stage,    \* run -> its stage directory: "none", "empty" or "data"
    lockName, \* export -> its lock file: "none", "pending" or "named"
    locker,   \* export -> the process that holds the lock of that file
    todo,     \* export -> lock names its sweep still has to look at
    target,   \* export -> the lock its sweep has open
    written,  \* publisher -> members written in its stage
    sealed,   \* publisher -> members that take no more records
    synced,   \* publisher -> members that survive a loss of power
    dest,     \* the publisher whose stage became the destination
    destFiles \* the members at the destination

files == <<written, sealed, synced, dest, destFiles>>
sweep == <<todo, target>>
vars == <<pc, stage, lockName, locker, todo, target, written, sealed, synced, dest, destFiles>>

Init ==
    /\ pc = [o \in Owners |-> "new"]
    /\ stage = [o \in Owners |-> "none"]
    /\ lockName = [o \in Exports |-> "none"]
    /\ locker = [o \in Exports |-> NoOwner]
    /\ todo = [o \in Exports |-> {}]
    /\ target = [o \in Exports |-> NoOwner]
    /\ written = [p \in Publishers |-> {}]
    /\ sealed = [p \in Publishers |-> {}]
    /\ synced = [p \in Publishers |-> {}]
    /\ dest = NoOwner
    /\ destFiles = {}

Step(o, from, to) == pc[o] = from /\ pc' = [pc EXCEPT ![o] = to]

-----------------------------------------------------------------------------
(* _remove_abandoned_stages                                                *)

SweepLists(o) ==
    /\ Step(o, "new", "sweeping")
    /\ todo' = [todo EXCEPT ![o] = {s \in Exports : lockName[s] = "named"}]
    /\ UNCHANGED <<stage, lockName, locker, target, files>>

\* open: a lock file that is gone by now is passed over.
SweepOpens(o, s) ==
    /\ pc[o] = "sweeping" /\ s \in todo[o]
    /\ todo' = [todo EXCEPT ![o] = @ \ {s}]
    /\ IF lockName[s] = "named"
       THEN target' = [target EXCEPT ![o] = s] /\ pc' = [pc EXCEPT ![o] = "opened"]
       ELSE UNCHANGED <<target, pc>>
    /\ UNCHANGED <<stage, lockName, locker, files>>

\* flock LOCK_NB on the open file, which its name may have left meanwhile.
SweepLocks(o) ==
    /\ pc[o] = "opened"
    /\ IF locker[target[o]] = NoOwner
       THEN /\ locker' = [locker EXCEPT ![target[o]] = o]
            /\ pc' = [pc EXCEPT ![o] = "owning"]
            /\ UNCHANGED target
       ELSE /\ pc' = [pc EXCEPT ![o] = "sweeping"]
            /\ target' = [target EXCEPT ![o] = NoOwner]
            /\ UNCHANGED locker
    /\ UNCHANGED <<stage, lockName, todo, files>>

\* Mutant: the lock name goes before the stage it leads to.
SweepUnlinksFirst(o) ==
    /\ Step(o, "owning", "removed")
    /\ lockName' = [lockName EXCEPT ![target[o]] = "none"]
    /\ UNCHANGED <<stage, locker, sweep, files>>

\* rmtree; a removal that fails leaves the stage and its lock name.
SweepRemoves(o) ==
    /\ Step(o, "owning", "removed")
    /\ stage' = [stage EXCEPT ![target[o]] = "none"]
    /\ UNCHANGED <<lockName, locker, sweep, files>>

SweepFails(o) ==
    /\ Step(o, "owning", "sweeping")
    /\ locker' = [locker EXCEPT ![target[o]] = NoOwner]
    /\ target' = [target EXCEPT ![o] = NoOwner]
    /\ UNCHANGED <<stage, lockName, todo, files>>

SweepUnlinks(o) ==
    /\ Step(o, "removed", "sweeping")
    /\ lockName' = [lockName EXCEPT ![target[o]] = "none"]
    /\ locker' = [locker EXCEPT ![target[o]] = NoOwner]
    /\ target' = [target EXCEPT ![o] = NoOwner]
    /\ UNCHANGED <<stage, todo, files>>

-----------------------------------------------------------------------------
(* RecordStore of a private stage                                          *)

MakeStage(o) ==
    /\ Step(o, "sweeping", "made") /\ todo[o] = {}
    /\ stage' = [stage EXCEPT ![o] = "empty"]
    /\ UNCHANGED <<lockName, locker, sweep, files>>

\* Mutant: the file has its sweepable name before it is locked.
ClaimNamed(o) ==
    /\ Step(o, "made", "pending")
    /\ lockName' = [lockName EXCEPT ![o] = "named"]
    /\ UNCHANGED <<stage, locker, sweep, files>>

\* _claim_stage: the lock is taken under a name no sweeper looks for.
ClaimPending(o) ==
    /\ Step(o, "made", "pending")
    /\ lockName' = [lockName EXCEPT ![o] = "pending"]
    /\ UNCHANGED <<stage, locker, sweep, files>>

ClaimLocks(o) ==
    /\ locker[o] = NoOwner
    /\ Step(o, "pending", "locked")
    /\ locker' = [locker EXCEPT ![o] = o]
    /\ UNCHANGED <<stage, lockName, sweep, files>>

ClaimRenames(o) ==
    /\ Step(o, "locked", "using")
    /\ lockName' = [lockName EXCEPT ![o] = "named"]
    /\ UNCHANGED <<stage, locker, sweep, files>>

\* FileRecords.append and _capture.  An append that fails, for its size or
\* for the quota, truncates the file to the last whole record.
WriteRecords(o) ==
    /\ pc[o] = "using"
    /\ stage' = [stage EXCEPT ![o] = "data"]
    /\ UNCHANGED <<pc, lockName, locker, sweep, files>>

\* close(): the payload, then the lock name, then the lock.
CloseRemoves(o) ==
    /\ Step(o, "using", "closing")
    /\ stage' = [stage EXCEPT ![o] = "none"]
    /\ UNCHANGED <<lockName, locker, sweep, files>>

CloseUnlinks(o) ==
    /\ Step(o, "closing", "unlinked")
    /\ lockName' = [lockName EXCEPT ![o] = "none"]
    /\ UNCHANGED <<stage, locker, sweep, files>>

CloseUnlocks(o) ==
    /\ Step(o, "unlinked", "ended")
    /\ locker' = [locker EXCEPT ![o] = NoOwner]
    /\ UNCHANGED <<stage, lockName, sweep, files>>

-----------------------------------------------------------------------------
(* write_derived_bundle                                                    *)

PublishBegins(p) ==
    /\ dest = NoOwner
    /\ Step(p, "new", "filling")
    /\ stage' = [stage EXCEPT ![p] = "empty"]
    /\ UNCHANGED <<lockName, locker, sweep, files>>

PublishWrites(p, f) ==
    /\ pc[p] = "filling" /\ f \in Members \ (written[p] \union {"manifest"})
    /\ written' = [written EXCEPT ![p] = @ \union {f}]
    /\ stage' = [stage EXCEPT ![p] = "data"]
    /\ UNCHANGED <<pc, lockName, locker, sweep, sealed, synced, dest, destFiles>>

\* Mutant: sealing only forbids further appends.
SealUnsynced(p, f) ==
    /\ pc[p] = "filling" /\ f \in written[p] \ sealed[p]
    /\ sealed' = [sealed EXCEPT ![p] = @ \union {f}]
    /\ UNCHANGED <<pc, stage, lockName, locker, sweep, written, synced, dest, destFiles>>

\* seal(): fsync, then no more records.
Seal(p, f) ==
    /\ pc[p] = "filling" /\ f \in written[p] \ sealed[p]
    /\ sealed' = [sealed EXCEPT ![p] = @ \union {f}]
    /\ synced' = [synced EXCEPT ![p] = @ \union {f}]
    /\ UNCHANGED <<pc, stage, lockName, locker, sweep, written, dest, destFiles>>

\* The manifest states what every member holds, so it comes last; it is
\* synced as it is written.
PublishManifest(p) ==
    /\ sealed[p] = Members \ {"manifest"}
    /\ Step(p, "filling", "described")
    /\ written' = [written EXCEPT ![p] = @ \union {"manifest"}]
    /\ synced' = [synced EXCEPT ![p] = @ \union {"manifest"}]
    /\ UNCHANGED <<stage, lockName, locker, sweep, sealed, dest, destFiles>>

\* The second look at the destination, between which and the rename another
\* publisher may finish.  A bundle that is there is left alone.
PublishChecks(p) ==
    /\ pc[p] = "described"
    /\ pc' = [pc EXCEPT ![p] = IF dest = NoOwner THEN "checked" ELSE "refused"]
    /\ UNCHANGED <<stage, lockName, locker, sweep, files>>

\* Mutant: the stage replaces whatever is there.
RenameReplaces(p) ==
    /\ Step(p, "checked", "ended")
    /\ stage' = [stage EXCEPT ![p] = "none"]
    /\ dest' = p /\ destFiles' = written[p]
    /\ UNCHANGED <<lockName, locker, sweep, written, sealed, synced>>

\* rename(2) of a directory onto one that is not empty fails.
PublishRenames(p) ==
    /\ pc[p] = "checked"
    /\ IF destFiles = {}
       THEN /\ pc' = [pc EXCEPT ![p] = "ended"]
            /\ stage' = [stage EXCEPT ![p] = "none"]
            /\ dest' = p /\ destFiles' = written[p]
       ELSE /\ pc' = [pc EXCEPT ![p] = "refused"]
            /\ UNCHANGED <<stage, dest, destFiles>>
    /\ UNCHANGED <<lockName, locker, sweep, written, sealed, synced>>

\* Writing, syncing or looking at the destination raises.
PublishFails(p) ==
    /\ pc[p] \in {"filling", "described", "checked"}
    /\ pc' = [pc EXCEPT ![p] = "refused"]
    /\ UNCHANGED <<stage, lockName, locker, sweep, files>>

\* The context manager removes the stage of a publication that was refused or
\* failed.
PublishCleans(p) ==
    /\ Step(p, "refused", "ended")
    /\ stage' = [stage EXCEPT ![p] = "none"]
    /\ UNCHANGED <<lockName, locker, sweep, files>>

-----------------------------------------------------------------------------
(* Faults: a process is killed, or the machine loses power                 *)

Alive(o) == pc[o] \notin {"ended", "dead"}

Crash(o) ==
    /\ Alive(o)
    /\ pc' = [pc EXCEPT ![o] = "dead"]
    /\ locker' = [s \in Exports |-> IF locker[s] = o THEN NoOwner ELSE locker[s]]
    /\ UNCHANGED <<stage, lockName, sweep, files>>

\* Bytes that were not synced may be lost, wherever their directory is by now.
\* Names are not: directory operations are taken to be journaled in order, and a
\* rename that is undone takes all that was done after it along, which leaves a
\* state of an earlier loss (until the destination's parent is synced a bundle may
\* go back to its stage that way).
PowerLoss ==
    /\ \E o \in Owners : Alive(o)
    /\ pc' = [o \in Owners |-> IF Alive(o) THEN "dead" ELSE pc[o]]
    /\ locker' = [s \in Exports |-> NoOwner]
    /\ \E lost \in SUBSET (IF dest = NoOwner THEN {} ELSE destFiles \ synced[dest]) :
          destFiles' = destFiles \ lost
    /\ UNCHANGED <<stage, lockName, sweep, written, sealed, synced, dest>>

-----------------------------------------------------------------------------

ExportNext(o) ==
    \/ SweepLists(o) \/ (\E s \in Exports : SweepOpens(o, s)) \/ SweepLocks(o)
    \/ SweepRemoves(o) \/ SweepFails(o) \/ SweepUnlinks(o)
    \/ MakeStage(o) \/ ClaimPending(o) \/ ClaimLocks(o) \/ ClaimRenames(o)
    \/ WriteRecords(o) \/ CloseRemoves(o) \/ CloseUnlinks(o) \/ CloseUnlocks(o)

PublisherNext(p) ==
    \/ PublishBegins(p) \/ (\E f \in Members : PublishWrites(p, f) \/ Seal(p, f))
    \/ PublishManifest(p) \/ PublishChecks(p) \/ PublishRenames(p)
    \/ PublishFails(p) \/ PublishCleans(p)

Next ==
    \/ \E o \in Exports : ExportNext(o)
    \/ \E p \in Publishers : PublisherNext(p)
    \/ \E o \in Owners : Crash(o)
    \/ PowerLoss

Spec == Init /\ [][Next]_vars

-----------------------------------------------------------------------------
(* Properties                                                              *)

\* The types of the variables.
StageTypeOK ==
    /\ pc \in [Owners -> {"new", "sweeping", "opened", "owning", "removed", "made", "pending",
                          "locked", "using", "closing", "unlinked", "filling", "described",
                          "checked", "refused", "ended", "dead"}]
    /\ stage \in [Owners -> {"none", "empty", "data"}]
    /\ lockName \in [Exports -> {"none", "pending", "named"}]
    /\ locker \in [Exports -> Exports \union {NoOwner}]
    /\ todo \in [Exports -> SUBSET Exports]
    /\ target \in [Exports -> Exports \union {NoOwner}]
    /\ written \in [Publishers -> SUBSET Members]
    /\ sealed \in [Publishers -> SUBSET Members] /\ synced \in [Publishers -> SUBSET Members]
    /\ dest \in Publishers \union {NoOwner} /\ destFiles \in SUBSET Members

\* No sweep takes the stage of a run that is alive, although a sweep may
\* open a lock file that its owner is creating or giving up ("so no sweeper
\* can win the claim", _record_storage.py).
LiveStageKept ==
    \A o \in Exports :
        pc[o] \in {"made", "pending", "locked", "using"} => stage[o] # "none"

\* Payload that outlives its run keeps the lock name the next sweep finds it
\* by, wherever the run, its close() or a sweep of it was cut short.
PayloadIsFindable ==
    \A o \in Exports : stage[o] = "data" => lockName[o] = "named"

\* A bundle that is at the destination is whole, at once and after a loss of
\* power.
PublishedIsWhole == dest # NoOwner => destFiles = Members

\* "without replacing a destination": of publishers that race, the first one
\* whose rename lands stays.
NeverReplaced == [][dest # NoOwner => dest' = dest]_vars

=============================================================================
