---------------------------- MODULE SyncerProofs ----------------------------
(***************************************************************************)
(* The syncer leaves nothing behind but what its cap drops and what a pass *)
(* that failed as a whole was to look at, or what the queue forgets for a  *)
(* rescan elsewhere: for every set of paths, every cap and any number of   *)
(* changes, faults, cancellations and restarts.                            *)
(***************************************************************************)
EXTENDS Syncer, FiniteSetTheorems, TLAPS

\* A pass has failures only once it applies, the loop has one in hand just when it
\* waits for one, and a run starts with nothing carried forward.
PassInv ==
  /\ work \in {"none", "indexing"} => todo = {} /\ failures = {}
  /\ loop \in {"selecting", "draining"} => work = "none"
  /\ loop = "starting" => retries = {}

IInv == TypeOK /\ PassInv /\ NothingElseAbandoned

LEMMA BeneathItself ==
  ASSUME NEW paths \in SUBSET Path, NEW p \in paths
  PROVE  p \in Beneath(paths, p)
BY DEF Beneath, IsUnder, Path

LEMMA FilesFinite == \A s \in SUBSET Files : IsFiniteSet(s) /\ Cardinality(s) \in Nat
BY FilesAssumption, FS_Subset, FS_CardinalityType

\* bound keeps no more than its cap, and drops what it does not keep.
LEMMA CarriedForward ==
  ASSUME NEW paths \in SUBSET Files, dropped \subseteq Files, CarryForward(paths)
  PROVE  /\ retries' \subseteq Files /\ Cardinality(retries') <= MaxRetries
         /\ dropped \subseteq dropped' /\ dropped' \subseteq Files
         /\ paths \subseteq retries' \cup dropped'
<1>1. PICK kept \in Bounded(paths) :
        retries' = kept /\ dropped' = dropped \cup (paths \ kept)
  BY DEF CarryForward
<1>2. kept \subseteq paths /\ Cardinality(paths) \in Nat
  BY <1>1, FilesFinite DEF Bounded
<1>3. Cardinality(kept) <= MaxRetries
  BY <1>1, <1>2, LimitsAssumption DEF Bounded
<1> QED
  BY <1>1, <1>2, <1>3

LEMMA Initially == Init => IInv
<1> SUFFICES ASSUME Init
             PROVE  IInv
  OBVIOUS
<1>1. Cardinality(retries) <= MaxRetries
  BY FS_EmptySet, LimitsAssumption DEF Init
<1>2. TypeOK
  <2>1. late \in BOOLEAN /\ diverged \subseteq Files
    BY DEF Init
  <2>2. changes \in 0..MaxChanges /\ faults \in 0..MaxFaults /\ stops \in 0..MaxStops
    BY LimitsAssumption DEF Init
  <2> QED
    BY <1>1, <2>1, <2>2 DEF Init, TypeOK
<1>3. PassInv
  BY DEF Init, PassInv
<1>4. NothingElseAbandoned
  BY DEF Init, NothingElseAbandoned, InHand
<1> QED
  BY <1>2, <1>3, <1>4 DEF IInv

\* A batch of changes puts every path it names, and every retry, in the scope.
LEMMA ChangesKept ==
  ASSUME TypeOK, work = "none" => todo = {} /\ failures = {}, work = "none",
         NEW path \in Files, ChangesBatch(path), loop' \in {"handling", "flushing"},
         loop # "exited", NothingElseAbandoned
  PROVE  IInv'
<1>1. PICK more \in SUBSET owed :
        HandleChanges(more \cup {path}) /\ owed' = owed \ (more \cup {path})
  BY DEF ChangesBatch
<1> DEFINE named == more \cup {path}
<1>2. path \in owed /\ named \subseteq Files
  BY DEF ChangesBatch, TypeOK
<1>3. /\ retries' = {} /\ owed' = owed \ named
      /\ work' = "indexing" /\ todo' = {} /\ failures' = {}
      /\ scope' = UNION {Beneath(Files, p) : p \in named \cup retries}
  BY <1>1 DEF HandleChanges, StartPass
<1>4. UNCHANGED <<late, diverged, dropped, lost, forgotten, counters>>
  BY DEF ChangesBatch, abandoned
<1>5. \A p \in named \cup retries : p \in scope'
  BY <1>2, <1>3, BeneathItself, FilesAssumption DEF TypeOK
<1>6. TypeOK'
  <2>1. scope' \subseteq Files
    BY <1>3 DEF Beneath
  <2>2. Cardinality(retries') <= MaxRetries
    BY <1>3, FS_EmptySet, LimitsAssumption
  <2> QED
    BY <1>3, <1>4, <2>1, <2>2 DEF TypeOK, counters
<1>7. PassInv'
  BY <1>3 DEF PassInv
<1>8. NothingElseAbandoned'
  BY <1>3, <1>4, <1>5 DEF NothingElseAbandoned, InHand
<1> QED
  BY <1>6, <1>7, <1>8 DEF IInv

\* A rescan takes in every retry that it drops, and every path owed but those the queue
\* forgets.
LEMMA RescanKept ==
  ASSUME TypeOK, work = "none" => todo = {} /\ failures = {}, work = "none",
         NEW path \in Files, RescanBatch(path), loop' \in {"handling", "flushing"},
         loop # "exited", NothingElseAbandoned
  PROVE  IInv'
<1>1. PICK length \in 0..Len(path), held \in SUBSET owed :
        /\ HandleRescan(SubSeq(path, 1, length))
        /\ owed' = owed \ (held \cup Beneath(owed, SubSeq(path, 1, length)))
        /\ forgotten' = forgotten \cup (held \ Beneath(owed, SubSeq(path, 1, length)))
  BY DEF RescanBatch
<1> DEFINE prefix == SubSeq(path, 1, length)
<1>2. /\ retries' = retries \ Beneath(retries, prefix)
      /\ owed' = owed \ (held \cup Beneath(owed, prefix))
      /\ forgotten' = forgotten \cup (held \ Beneath(owed, prefix))
      /\ work' = "indexing" /\ todo' = {} /\ failures' = {}
      /\ scope' = Beneath(Files, prefix)
  BY <1>1 DEF HandleRescan, StartPass
<1>3. UNCHANGED <<late, diverged, dropped, lost, counters>>
  BY DEF RescanBatch
<1>4. Beneath(retries, prefix) \subseteq scope' /\ Beneath(owed, prefix) \subseteq scope'
  BY <1>2 DEF Beneath, TypeOK
<1>5. TypeOK'
  <2>1. scope' \subseteq Files
    BY <1>2 DEF Beneath
  <2>2. Cardinality(retries') <= MaxRetries
    <3>1. retries' \subseteq retries
      BY <1>2
    <3>2. IsFiniteSet(retries) /\ Cardinality(retries) \in Nat /\ Cardinality(retries') \in Nat
      BY <3>1, FilesFinite DEF TypeOK
    <3>3. Cardinality(retries') <= Cardinality(retries)
      BY <3>1, <3>2, FS_Subset
    <3> QED
      BY <3>2, <3>3, LimitsAssumption DEF TypeOK
  <2> QED
    BY <1>2, <1>3, <2>1, <2>2 DEF TypeOK, counters
<1>6. PassInv'
  BY <1>2 DEF PassInv
<1>7. NothingElseAbandoned'
  BY <1>2, <1>3, <1>4 DEF NothingElseAbandoned, InHand
<1> QED
  BY <1>5, <1>6, <1>7 DEF IInv

LEMMA Step == IInv /\ [Next]_vars => IInv'
<1> SUFFICES ASSUME IInv, [Next]_vars
             PROVE  IInv'
  OBVIOUS
<1> USE DEF IInv, counters, tree, abandoned, pass
<1>1. CASE PlanFor
  <2>1. TypeOK'
    BY <1>1 DEF PlanFor, TypeOK
  <2>2. PassInv'
    BY <1>1 DEF PlanFor, PassInv
  <2>3. NothingElseAbandoned'
    BY <1>1 DEF PlanFor, NothingElseAbandoned, InHand, PassInv
  <2> QED
    BY <2>1, <2>2, <2>3
<1>2. ASSUME NEW path \in Files, ApplyOne(path)
      PROVE  IInv'
  <2>1. TypeOK'
    BY <1>2 DEF ApplyOne, TypeOK
  <2>2. PassInv'
    BY <1>2 DEF ApplyOne, PassInv
  <2>3. NothingElseAbandoned'
    BY <1>2 DEF ApplyOne, NothingElseAbandoned, InHand
  <2> QED
    BY <2>1, <2>2, <2>3
<1>3. ASSUME NEW path \in Files, ActionFails(path)
      PROVE  IInv'
  <2>1. TypeOK'
    BY <1>3, LimitsAssumption DEF ActionFails, TypeOK
  <2>2. PassInv'
    BY <1>3 DEF ActionFails, PassInv
  <2>3. NothingElseAbandoned'
    BY <1>3 DEF ActionFails, NothingElseAbandoned, InHand
  <2> QED
    BY <2>1, <2>2, <2>3
<1>4. CASE StartupDone
  <2>1. /\ failures \subseteq Files /\ todo = {} /\ work = "applying" /\ retries = {}
        /\ CarryForward(failures) /\ dropped \subseteq Files
    BY <1>4 DEF StartupDone, Finished, TypeOK, PassInv
  <2>2. /\ retries' \subseteq Files /\ Cardinality(retries') <= MaxRetries
        /\ dropped \subseteq dropped' /\ dropped' \subseteq Files
        /\ failures \subseteq retries' \cup dropped'
    BY <2>1, CarriedForward
  <2>3. TypeOK'
    BY <1>4, <2>2 DEF StartupDone, EndPass, TypeOK
  <2>4. PassInv'
    BY <1>4 DEF StartupDone, EndPass, PassInv
  <2>5. NothingElseAbandoned'
    BY <1>4, <2>1, <2>2 DEF StartupDone, NothingElseAbandoned, InHand
  <2> QED
    BY <2>3, <2>4, <2>5
<1>5. CASE StartupFails
  BY <1>5, LimitsAssumption
     DEF StartupFails, PassError, EndPass, TypeOK, PassInv, NothingElseAbandoned
<1>6. ASSUME NEW path \in Files, SelectChanges(path)
      PROVE  IInv'
  BY <1>6, ChangesKept DEF SelectChanges, PassInv
<1>7. ASSUME NEW path \in Files, SelectRescan(path)
      PROVE  IInv'
  BY <1>7, RescanKept DEF SelectRescan, PassInv
<1>8. CASE HandleDone
  <2>1. /\ failures \cup retries \subseteq Files /\ todo = {} /\ work = "applying"
        /\ CarryForward(failures \cup retries) /\ dropped \subseteq Files
        /\ loop \in {"handling", "flushing"}
    BY <1>8 DEF HandleDone, Finished, TypeOK
  <2>2. /\ retries' \subseteq Files /\ Cardinality(retries') <= MaxRetries
        /\ dropped \subseteq dropped' /\ dropped' \subseteq Files
        /\ failures \cup retries \subseteq retries' \cup dropped'
    BY <2>1, CarriedForward
  <2>3. TypeOK'
    BY <1>8, <2>2 DEF HandleDone, EndPass, TypeOK
  <2>4. PassInv'
    BY <1>8 DEF HandleDone, EndPass, PassInv
  <2>5. NothingElseAbandoned'
    BY <1>8, <2>1, <2>2 DEF HandleDone, NothingElseAbandoned, InHand
  <2> QED
    BY <2>3, <2>4, <2>5
<1>9. CASE HandleFails
  <2>1. /\ retries \subseteq Files /\ todo = {} /\ failures = {} /\ work = "indexing"
        /\ CarryForward(retries) /\ dropped \subseteq Files
        /\ loop \in {"handling", "flushing"}
    BY <1>9 DEF HandleFails, PassError, TypeOK, PassInv
  <2>2. /\ retries' \subseteq Files /\ Cardinality(retries') <= MaxRetries
        /\ dropped \subseteq dropped' /\ dropped' \subseteq Files
        /\ retries \subseteq retries' \cup dropped'
    BY <2>1, CarriedForward
  <2>3. TypeOK'
    BY <1>9, <2>2, LimitsAssumption DEF HandleFails, PassError, EndPass, TypeOK
  <2>4. PassInv'
    BY <1>9 DEF HandleFails, EndPass, PassInv
  <2>5. NothingElseAbandoned'
    BY <1>9, <2>1, <2>2 DEF HandleFails, NothingElseAbandoned, InHand
  <2> QED
    BY <2>3, <2>4, <2>5
<1>10. CASE Cancelled
  BY <1>10, LimitsAssumption DEF Cancelled, TypeOK, PassInv, NothingElseAbandoned, InHand
<1>11. ASSUME NEW path \in Files, DrainBatch(path)
       PROVE  IInv'
  BY <1>11, ChangesKept, RescanKept DEF DrainBatch, PassInv
<1>12. CASE GraceElapses
  BY <1>12 DEF GraceElapses, TypeOK, PassInv, NothingElseAbandoned, InHand
<1>13. CASE GiveUp
  BY <1>13 DEF GiveUp, TypeOK, PassInv, NothingElseAbandoned
<1>14. CASE LastAttempt
  <2>1. TypeOK'
    BY <1>14 DEF LastAttempt, StartPass, TypeOK
  <2>2. PassInv'
    BY <1>14 DEF LastAttempt, StartPass, PassInv
  <2>3. NothingElseAbandoned'
    BY <1>14 DEF LastAttempt, StartPass, NothingElseAbandoned, InHand, PassInv
  <2> QED
    BY <2>1, <2>2, <2>3
<1>15. CASE LastAttemptDone
  <2>1. TypeOK'
    BY <1>15, LimitsAssumption DEF LastAttemptDone, PassError, TypeOK
  <2>2. PassInv'
    BY <1>15 DEF LastAttemptDone, PassInv
  <2>3. NothingElseAbandoned'
    BY <1>15 DEF LastAttemptDone, NothingElseAbandoned, InHand
  <2> QED
    BY <2>1, <2>2, <2>3
<1>16. ASSUME NEW path \in Files, Change(path)
       PROVE  IInv'
  BY <1>16, LimitsAssumption DEF Change, TypeOK, PassInv, NothingElseAbandoned, InHand
<1>17. ASSUME NEW path \in Files, Touch(path)
       PROVE  IInv'
  BY <1>17 DEF Touch, TypeOK, PassInv, NothingElseAbandoned, InHand
<1>18. CASE Crash
  BY <1>18, LimitsAssumption DEF Crash, TypeOK, PassInv, NothingElseAbandoned
<1>19. CASE Restart
  <2>1. Cardinality(retries') <= MaxRetries
    BY <1>19, FS_EmptySet, LimitsAssumption DEF Restart
  <2>2. diverged' \subseteq Files
    BY <1>19 DEF Restart, TypeOK
  <2>3. TypeOK'
    <3>1. late' \in BOOLEAN
      BY <1>19 DEF Restart
    <3>2. changes' \in 0..MaxChanges /\ faults' \in 0..MaxFaults /\ stops' \in 0..MaxStops
      BY <1>19, LimitsAssumption DEF Restart, TypeOK
    <3> QED
      BY <1>19, <2>1, <2>2, <3>1, <3>2 DEF Restart, StartPass, TypeOK
  <2>4. PassInv'
    BY <1>19 DEF Restart, StartPass, PassInv
  <2>5. NothingElseAbandoned'
    BY <1>19, <2>2 DEF Restart, StartPass, NothingElseAbandoned, InHand
  <2> QED
    BY <2>3, <2>4, <2>5
<1>20. CASE UNCHANGED vars
  BY <1>20 DEF vars, TypeOK, PassInv, NothingElseAbandoned, InHand
<1> QED
  BY <1>1, <1>2, <1>3, <1>4, <1>5, <1>6, <1>7, <1>8, <1>9, <1>10, <1>11, <1>12, <1>13,
     <1>14, <1>15, <1>16, <1>17, <1>18, <1>19, <1>20 DEF Next, Reconcile, Run

LEMMA Invariant == Spec => []IInv
<1> QED
  BY Initially, Step, PTL DEF Spec

\* The syncer's variables keep their types, and the retries their cap, whatever
\* batches, failures, cancellations and restarts there are.
THEOREM SyncerTypes == Spec => []TypeOK
BY Invariant, PTL DEF IInv

\* A path at which the trees differ is left behind only by the cap on the retries,
\* by a pass that failed as a whole, or by a rescan for which the queue forgot it.
THEOREM SyncerLeavesNothing == Spec => []NothingElseAbandoned
BY Invariant, PTL DEF IInv
=============================================================================
