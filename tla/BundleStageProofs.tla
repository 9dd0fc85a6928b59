-------------------------- MODULE BundleStageProofs --------------------------
(***************************************************************************)
(* Proofs about private stages and the publication of bundles, for any     *)
(* number of exports, publishers and bundle members.                       *)
(***************************************************************************)
EXTENDS BundleStage, TLAPS

-----------------------------------------------------------------------------
(* The inductive invariant                                                 *)

\* Steps after which the lock file of an export has had its sweepable name
WasNamed(s) == pc[s] \in {"using", "closing", "unlinked", "ended", "dead"}

\* A lock name a sweeper can find, has listed or has open is that of an export
\* that locked the file before it took the name
ListedWereNamed ==
    /\ \A s \in Exports : lockName[s] = "named" => pc[s] \in {"using", "closing", "dead"}
    /\ \A o \in Exports : \A s \in todo[o] : WasNamed(s)
    /\ \A o \in Exports : target[o] # NoOwner => WasNamed(target[o])

\* Who holds which lock: an export its own from the claim to the end of
\* close(), a sweeper the one of its target
LocksHeld ==
    /\ \A o \in Exports : pc[o] \in {"locked", "using", "closing", "unlinked"} => locker[o] = o
    /\ \A o \in Exports : pc[o] \in {"opened", "owning", "removed"} => target[o] # NoOwner
    /\ \A o \in Exports : pc[o] \in {"owning", "removed"} => locker[target[o]] = o

\* The payload goes before the name that leads to it
PayloadFirst ==
    /\ \A o \in Exports : pc[o] = "using" => lockName[o] = "named"
    /\ \A o \in Exports : pc[o] = "closing" => stage[o] = "none"
    /\ \A o \in Exports : pc[o] = "removed" => stage[target[o]] = "none"

PrivateInv == ListedWereNamed /\ LocksHeld /\ PayloadFirst /\ LiveStageKept
              /\ PayloadIsFindable

\* What a publisher seals is written and synced, so what it describes is whole,
\* and stays whole at the destination
BundleInv ==
    /\ \A p \in Publishers : sealed[p] \subseteq written[p] \intersect synced[p]
    /\ \A p \in Publishers : pc[p] \in {"described", "checked"} =>
                                written[p] = Members /\ synced[p] = Members
    /\ dest # NoOwner => destFiles = Members /\ synced[dest] = Members

-----------------------------------------------------------------------------
(* Types                                                                   *)

\* Every step of an export keeps the types
LEMMA ExportTypes ==
    ASSUME StageTypeOK, NEW o \in Exports, ExportNext(o)
    PROVE  StageTypeOK'
<1> USE DEF Step, files, sweep, StageTypeOK, Owners
<1>1. CASE SweepLists(o)
  BY <1>1 DEF SweepLists
<1>2. CASE \E s \in Exports : SweepOpens(o, s)
  BY <1>2 DEF SweepOpens
<1>3. CASE SweepLocks(o)
  BY <1>3 DEF SweepLocks
<1>4. CASE SweepRemoves(o) \/ SweepFails(o) \/ SweepUnlinks(o)
  BY <1>4 DEF SweepRemoves, SweepFails, SweepUnlinks
<1>5. CASE MakeStage(o) \/ ClaimPending(o) \/ ClaimLocks(o) \/ ClaimRenames(o)
  BY <1>5 DEF MakeStage, ClaimPending, ClaimLocks, ClaimRenames
<1>6. CASE WriteRecords(o) \/ CloseRemoves(o) \/ CloseUnlinks(o) \/ CloseUnlocks(o)
  BY <1>6 DEF WriteRecords, CloseRemoves, CloseUnlinks, CloseUnlocks
<1> QED
  BY <1>1, <1>2, <1>3, <1>4, <1>5, <1>6 DEF ExportNext

\* Every step of a publisher keeps the types
LEMMA PublisherTypes ==
    ASSUME StageTypeOK, NEW p \in Publishers, PublisherNext(p)
    PROVE  StageTypeOK'
<1> USE StageAssumption DEF Step, files, sweep, StageTypeOK, Owners
<1>1. CASE PublishBegins(p) \/ PublishChecks(p) \/ PublishFails(p)
               \/ PublishCleans(p)
  BY <1>1 DEF PublishBegins, PublishChecks, PublishFails, PublishCleans
<1>2. CASE \E f \in Members : PublishWrites(p, f)
  BY <1>2 DEF PublishWrites
<1>3. CASE \E f \in Members : Seal(p, f)
  BY <1>3 DEF Seal
<1>4. CASE PublishManifest(p)
  BY <1>4 DEF PublishManifest
<1>5. CASE PublishRenames(p)
  BY <1>5 DEF PublishRenames
<1> QED
  BY <1>1, <1>2, <1>3, <1>4, <1>5 DEF PublisherNext

\* Every step keeps the types
LEMMA StageTypes == StageTypeOK /\ [Next]_vars => StageTypeOK'
<1> SUFFICES ASSUME StageTypeOK, [Next]_vars PROVE StageTypeOK'
  OBVIOUS
<1>1. CASE \E o \in Exports : ExportNext(o)
  BY <1>1, ExportTypes
<1>2. CASE \E p \in Publishers : PublisherNext(p)
  BY <1>2, PublisherTypes
<1>3. CASE \E o \in Owners : Crash(o)
  BY <1>3 DEF Crash, Alive, StageTypeOK, files, sweep
<1>4. CASE PowerLoss
  BY <1>4 DEF PowerLoss, Alive, StageTypeOK, files, sweep
<1>5. CASE UNCHANGED vars
  BY <1>5 DEF vars, StageTypeOK
<1> QED
  BY <1>1, <1>2, <1>3, <1>4, <1>5 DEF Next

\* The types hold at the start
LEMMA StageTypesInit == Init => StageTypeOK
BY DEF Init, StageTypeOK

-----------------------------------------------------------------------------
(* Private stages                                                          *)

\* Every step of an export keeps the private stages findable and safe
LEMMA ExportKeepsPrivate ==
    ASSUME StageTypeOK, PrivateInv, NEW o \in Exports, ExportNext(o)
    PROVE  PrivateInv'
<1> USE StageAssumption DEF Step, files, sweep, StageTypeOK, Owners, PrivateInv, ListedWereNamed, LocksHeld,
            PayloadFirst, LiveStageKept, PayloadIsFindable, WasNamed
<1>1. CASE SweepLists(o)
  <2>1. /\ pc' = [pc EXCEPT ![o] = "sweeping"] /\ pc[o] = "new"
        /\ todo' = [todo EXCEPT ![o] = {s \in Exports : lockName[s] = "named"}]
        /\ UNCHANGED <<stage, lockName, locker, target>>
    BY <1>1 DEF SweepLists
  <2>2. ListedWereNamed'
    BY <2>1
  <2>3. LocksHeld' /\ PayloadFirst' /\ LiveStageKept' /\ PayloadIsFindable'
    BY <2>1
  <2> QED
    BY <2>2, <2>3
<1>2. ASSUME NEW s \in Exports, SweepOpens(o, s)
      PROVE  PrivateInv'
  <2>1. CASE lockName[s] = "named"
    BY <1>2, <2>1 DEF SweepOpens
  <2>2. CASE lockName[s] # "named"
    BY <1>2, <2>2 DEF SweepOpens
  <2> QED
    BY <2>1, <2>2
<1>3. CASE SweepLocks(o)
  <2>1. CASE locker[target[o]] = NoOwner
    <3>1. /\ locker' = [locker EXCEPT ![target[o]] = o]
          /\ pc' = [pc EXCEPT ![o] = "owning"] /\ pc[o] = "opened"
          /\ UNCHANGED <<stage, lockName, todo, target>>
      BY <1>3, <2>1 DEF SweepLocks
    <3>2. target[o] \in Exports
      BY <3>1
    <3>3. LocksHeld'
      BY <2>1, <3>1, <3>2
    <3>4. ListedWereNamed' /\ PayloadFirst' /\ LiveStageKept' /\ PayloadIsFindable'
      BY <3>1
    <3> QED
      BY <3>3, <3>4
  <2>2. CASE locker[target[o]] # NoOwner
    BY <1>3, <2>2 DEF SweepLocks
  <2> QED
    BY <2>1, <2>2
<1>4. CASE SweepRemoves(o)
  BY <1>4 DEF SweepRemoves
<1>5. CASE SweepFails(o)
  BY <1>5 DEF SweepFails
<1>6. CASE SweepUnlinks(o)
  BY <1>6 DEF SweepUnlinks
<1>7. CASE MakeStage(o)
  BY <1>7 DEF MakeStage
<1>8. CASE ClaimPending(o)
  BY <1>8 DEF ClaimPending
<1>9. CASE ClaimLocks(o)
  BY <1>9 DEF ClaimLocks
<1>10. CASE ClaimRenames(o)
  BY <1>10 DEF ClaimRenames
<1>11. CASE WriteRecords(o)
  BY <1>11 DEF WriteRecords
<1>12. CASE CloseRemoves(o)
  BY <1>12 DEF CloseRemoves
<1>13. CASE CloseUnlinks(o)
  BY <1>13 DEF CloseUnlinks
<1>14. CASE CloseUnlocks(o)
  BY <1>14 DEF CloseUnlocks
<1> QED
  BY <1>1, <1>2, <1>3, <1>4, <1>5, <1>6, <1>7, <1>8, <1>9, <1>10, <1>11, <1>12,
     <1>13, <1>14 DEF ExportNext

\* A publisher touches no private stage
LEMMA PublisherKeepsPrivate ==
    ASSUME StageTypeOK, PrivateInv, NEW p \in Publishers, PublisherNext(p)
    PROVE  PrivateInv'
<1>1. /\ UNCHANGED <<lockName, locker, todo, target>>
      /\ \A o \in Exports : pc'[o] = pc[o] /\ stage'[o] = stage[o]
  <2> USE StageAssumption DEF Step, files, sweep, StageTypeOK, Owners
  <2>1. CASE PublishBegins(p) \/ PublishManifest(p) \/ PublishChecks(p) \/ PublishFails(p)
               \/ PublishCleans(p)
    BY <2>1 DEF PublishBegins, PublishManifest, PublishChecks, PublishFails, PublishCleans
  <2>2. CASE \E f \in Members : PublishWrites(p, f) \/ Seal(p, f)
    BY <2>2 DEF PublishWrites, Seal
  <2>3. CASE PublishRenames(p)
    BY <2>3 DEF PublishRenames
  <2> QED
    BY <2>1, <2>2, <2>3 DEF PublisherNext
<1> QED
  BY <1>1 DEF StageTypeOK, PrivateInv, ListedWereNamed, LocksHeld, PayloadFirst, LiveStageKept,
     PayloadIsFindable, WasNamed

\* The death of a process, or of all of them, leaves every payload findable
LEMMA FaultsKeepPrivate ==
    ASSUME StageTypeOK, PrivateInv, (\E o \in Owners : Crash(o)) \/ PowerLoss
    PROVE  PrivateInv'
<1> USE DEF files, sweep, StageTypeOK, Owners, PrivateInv, ListedWereNamed, LocksHeld,
            PayloadFirst, LiveStageKept, PayloadIsFindable, WasNamed, Alive
<1>1. CASE \E o \in Owners : Crash(o)
  BY <1>1 DEF Crash
<1>2. CASE PowerLoss
  BY <1>2 DEF PowerLoss
<1> QED
  BY <1>1, <1>2

\* Before anything runs there is no private stage
LEMMA PrivateInit == Init => PrivateInv
BY DEF Init, PrivateInv, ListedWereNamed, LocksHeld, PayloadFirst, LiveStageKept,
   PayloadIsFindable, Owners

-----------------------------------------------------------------------------
(* Publication                                                             *)

\* Every step of a publisher keeps what it publishes whole
LEMMA PublisherKeepsBundle ==
    ASSUME StageTypeOK, BundleInv, NEW p \in Publishers, PublisherNext(p)
    PROVE  BundleInv'
<1> USE StageAssumption DEF Step, files, sweep, StageTypeOK, Owners, BundleInv
<1>1. CASE PublishBegins(p) \/ PublishChecks(p) \/ PublishFails(p)
               \/ PublishCleans(p)
  BY <1>1 DEF PublishBegins, PublishChecks, PublishFails, PublishCleans
<1>2. CASE \E f \in Members : PublishWrites(p, f)
  BY <1>2 DEF PublishWrites
<1>3. CASE \E f \in Members : Seal(p, f)
  BY <1>3 DEF Seal
<1>4. CASE PublishManifest(p)
  BY <1>4 DEF PublishManifest
<1>5. CASE PublishRenames(p)
  BY <1>5 DEF PublishRenames
<1> QED
  BY <1>1, <1>2, <1>3, <1>4, <1>5 DEF PublisherNext

\* An export touches no bundle
LEMMA ExportKeepsBundle ==
    ASSUME StageTypeOK, BundleInv, NEW o \in Exports, ExportNext(o)
    PROVE  BundleInv'
<1>1. UNCHANGED files /\ \A p \in Publishers : pc'[p] = pc[p]
  <2> USE StageAssumption DEF Step, files, sweep, StageTypeOK, Owners
  <2>1. CASE SweepLists(o) \/ (\E s \in Exports : SweepOpens(o, s)) \/ SweepLocks(o)
    BY <2>1 DEF SweepLists, SweepOpens, SweepLocks
  <2>2. CASE SweepRemoves(o) \/ SweepFails(o) \/ SweepUnlinks(o)
    BY <2>2 DEF SweepRemoves, SweepFails, SweepUnlinks
  <2>3. CASE MakeStage(o) \/ ClaimPending(o) \/ ClaimLocks(o) \/ ClaimRenames(o)
    BY <2>3 DEF MakeStage, ClaimPending, ClaimLocks, ClaimRenames
  <2>4. CASE WriteRecords(o) \/ CloseRemoves(o) \/ CloseUnlinks(o) \/ CloseUnlocks(o)
    BY <2>4 DEF WriteRecords, CloseRemoves, CloseUnlinks, CloseUnlocks
  <2> QED
    BY <2>1, <2>2, <2>3, <2>4 DEF ExportNext
<1> QED
  BY <1>1 DEF files, BundleInv, StageTypeOK

\* A power loss takes only what was not synced, and nothing of a published
\* bundle is unsynced
LEMMA FaultsKeepBundle ==
    ASSUME StageTypeOK, BundleInv, (\E o \in Owners : Crash(o)) \/ PowerLoss
    PROVE  BundleInv'
<1> USE DEF files, sweep, StageTypeOK, Owners, BundleInv, Alive
<1>1. CASE \E o \in Owners : Crash(o)
  BY <1>1 DEF Crash
<1>2. CASE PowerLoss
  BY <1>2 DEF PowerLoss
<1> QED
  BY <1>1, <1>2

-----------------------------------------------------------------------------
(* Theorems                                                                *)

StageInv == StageTypeOK /\ PrivateInv /\ BundleInv

\* The invariant of the stage directories holds in every reachable state
LEMMA StageInvariant == Spec => []StageInv
<1>1. Init => StageInv
  <2>1. Init => BundleInv
    BY DEF Init, BundleInv, Owners
  <2> QED
    BY <2>1, StageTypesInit, PrivateInit DEF StageInv
<1>2. StageInv /\ [Next]_vars => StageInv'
  <2> SUFFICES ASSUME StageInv, [Next]_vars PROVE StageInv'
    OBVIOUS
  <2>0. StageTypeOK /\ PrivateInv /\ BundleInv /\ StageTypeOK'
    BY StageTypes DEF StageInv
  <2>1. CASE \E o \in Exports : ExportNext(o)
    BY <2>0, <2>1, ExportKeepsPrivate, ExportKeepsBundle DEF StageInv
  <2>2. CASE \E p \in Publishers : PublisherNext(p)
    BY <2>0, <2>2, PublisherKeepsPrivate, PublisherKeepsBundle DEF StageInv
  <2>3. CASE (\E o \in Owners : Crash(o)) \/ PowerLoss
    BY <2>0, <2>3, FaultsKeepPrivate, FaultsKeepBundle DEF StageInv
  <2>4. CASE UNCHANGED vars
    BY <2>0, <2>4 DEF vars, StageInv, StageTypeOK, PrivateInv, BundleInv, ListedWereNamed,
       LocksHeld, PayloadFirst, LiveStageKept, PayloadIsFindable, WasNamed
  <2> QED
    BY <2>1, <2>2, <2>3, <2>4 DEF Next
<1> QED
  BY <1>1, <1>2, PTL DEF Spec

\* No sweep takes the private stage of a run that is alive
THEOREM LiveStagesAreKept == Spec => []LiveStageKept
<1>1. StageInv => LiveStageKept
  BY DEF StageInv, PrivateInv
<1> QED
  BY <1>1, StageInvariant, PTL

\* Payload on disk always has the lock name by which the next sweep finds it,
\* wherever its run, its close() or a sweep was cut short
THEOREM PayloadStaysFindable == Spec => []PayloadIsFindable
<1>1. StageInv => PayloadIsFindable
  BY DEF StageInv, PrivateInv
<1> QED
  BY <1>1, StageInvariant, PTL

\* The bundle at the destination is whole, also after a loss of power
THEOREM PublishedStaysWhole == Spec => []PublishedIsWhole
<1>1. StageInv => PublishedIsWhole
  BY DEF StageInv, BundleInv, PublishedIsWhole
<1> QED
  BY <1>1, StageInvariant, PTL

\* write_derived_bundle never replaces a bundle: only a rename onto a missing
\* or empty destination sets it, and a published bundle is never empty
THEOREM DestinationIsFinal == Spec => NeverReplaced
<1>1. StageInv /\ [Next]_vars => [dest # NoOwner => dest' = dest]_vars
  <2> SUFFICES ASSUME StageInv, Next, dest # NoOwner PROVE dest' = dest
    BY DEF vars
  <2>1. destFiles # {}
    BY StageAssumption DEF StageInv, BundleInv
  <2>2. CASE \E o \in Exports : ExportNext(o)
    BY <2>2 DEF ExportNext, SweepLists, SweepOpens, SweepLocks, SweepRemoves, SweepFails,
       SweepUnlinks, MakeStage, ClaimPending, ClaimLocks, ClaimRenames, WriteRecords,
       CloseRemoves, CloseUnlinks, CloseUnlocks, files
  <2>3. CASE \E p \in Publishers : PublisherNext(p)
    BY <2>1, <2>3 DEF PublisherNext, PublishBegins, PublishWrites, Seal, PublishManifest,
       PublishChecks, PublishRenames, PublishFails, PublishCleans, files
  <2>4. CASE (\E o \in Owners : Crash(o)) \/ PowerLoss
    BY <2>4 DEF Crash, PowerLoss, files
  <2> QED
    BY <2>2, <2>3, <2>4 DEF Next
<1> QED
  BY <1>1, StageInvariant, PTL DEF Spec, NeverReplaced

=============================================================================
