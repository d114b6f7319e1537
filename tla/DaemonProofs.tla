---------------------------- MODULE DaemonProofs ----------------------------
(***************************************************************************)
(* The exit status tells the truth, for any number of syncs, attempts and  *)
(* actions, and however many links go and tasks fail.                      *)
(*                                                                         *)
(* Most steps are of one sync, and for those there is one lemma: if what   *)
(* the step makes of the sync is in order, everything is (SyncKeeps).      *)
(***************************************************************************)
EXTENDS Daemon, TLAPS

Stages == {"unopened", "open", "startup", "watching", "batch", "flushing", "flush",
           "final", "once", "closing", "ended", "joined"}
Out == {"closing", "ended", "joined"}
Outcomes == {"none", "ok", "stopped", "error"}
Lefts == Index..MaxActions
Attempts == 0..OnceAttempts
Flags == BOOLEAN
Calls == {"none", "sent", "restoring", "waiting", "reopening"}
OneShot == command # "watch"

Supervised ==
  /\ command \in {"sync", "dry", "watch"}
  /\ main \in {"opening", "running", "arming", "racing", "draining", "exited"}
  /\ exit \in {"none", "ok", "error", "killed"} /\ (exit = "none") = Running
  /\ results \subseteq Sync /\ lost \subseteq Sync
  /\ cancelled \in BOOLEAN /\ written \in BOOLEAN /\ deaf \in BOOLEAN
  /\ IF OneShot THEN main \in {"opening", "running", "exited"} ELSE main # "running"

Typed ==
  /\ stage \in [Sync -> Stages] /\ outcome \in [Sync -> Outcomes]
  /\ left \in [Sync -> Lefts] /\ call \in [Sync -> Calls]
  /\ attempt \in [Sync -> Attempts]
  /\ failing \in [Sync -> Flags] /\ retries \in [Sync -> Flags] /\ pending \in [Sync -> Flags]
  /\ grace \in [Sync -> Flags] /\ link \in [Sync -> Flags]

\* A sync is where its command may have it, and has a request out just in a pass.
Placed(s) ==
  /\ (call[s] # "none") = InPass(s)
  /\ IF OneShot THEN stage[s] \in {"unopened", "once"} \cup Out ELSE stage[s] # "once"
  /\ ~OneShot /\ main = "opening" => stage[s] \in {"unopened", "open"}
  /\ main \in {"arming", "racing", "draining"} => stage[s] \notin {"unopened", "open"}

\* A one-shot sync has applied and failed nothing before it knows the index, applies only
\* what is not a dry run, and comes to an error if an action fails.  What a task comes to is
\* known when its loop is over.
Told(s) ==
  /\ stage[s] \in {"flush", "final"} \cup Out => outcome[s] # "none"
  /\ OneShot =>
       /\ stage[s] = "unopened" => ~failing[s]
       /\ stage[s] = "once" => \/ left[s] = Index /\ ~failing[s]
                               \/ left[s] >= 1 /\ command = "sync"
       /\ stage[s] \in Out /\ failing[s] => outcome[s] = "error"
       /\ outcome[s] # "stopped"

\* One-shot syncs are opened one after the other, each when all before it are through
\* without an error.
InTurn ==
  OneShot =>
    /\ \A s, t \in Sync : t < s /\ stage[s] # "unopened" => stage[t] = "joined"
    /\ main = "opening" => \A s \in Sync : stage[s] \in {"unopened", "joined"}
    /\ Running => \A s \in Sync : stage[s] = "joined" => outcome[s] # "error"

\* What has been collected is in the results of the drain under way or was in those of
\* the one that a signal ended.
Collected ==
  /\ main \in {"arming", "racing", "draining"} =>
       \A s \in Sync : stage[s] = "joined" => s \in results \cup lost /\ cancelled
  /\ main \notin {"draining", "exited"} => lost = {}

IInv ==
  /\ Supervised /\ Typed /\ (\A s \in Sync : Placed(s) /\ Told(s))
  /\ InTurn /\ Collected /\ ExitTellsTruth

LEMMA TypesImplied == IInv => TypeOK
<1> SUFFICES ASSUME IInv
             PROVE  TypeOK
  OBVIOUS
<1>1. Supervised /\ Typed /\ \A s \in Sync : Placed(s)
  BY DEF IInv
<1>2. main \in {"arming", "racing", "draining"} => \A s \in Sync : stage[s] \notin {"unopened", "open", "once"}
  BY <1>1 DEF Placed, Supervised
<1>3. \A s \in Sync : (call[s] # "none") = InPass(s)
  BY <1>1 DEF Placed
<1>4. \A f \in {failing, retries, pending, grace, link} : f \in [Sync -> BOOLEAN]
  BY <1>1 DEF Typed, Flags
<1> QED
  BY <1>1, <1>2, <1>3, <1>4 DEF TypeOK, Supervised, Typed, Stages, Outcomes, Lefts, Attempts, Calls

LEMMA Initially == Init => IInv
<1> SUFFICES ASSUME Init
             PROVE  IInv
  OBVIOUS
<1>1. Supervised
  BY DEF Init, Supervised, Running, OneShot
<1>2. Typed
  BY SyncsAssumption, DaemonBounds DEF Init, Typed, Stages, Outcomes, Lefts, Attempts, Flags, Calls, Index
<1>3. \A s \in Sync : Placed(s) /\ Told(s)
  BY DEF Init, Placed, Told, InPass, OneShot, Out
<1>4. InTurn /\ Collected /\ ExitTellsTruth
  BY DEF Init, InTurn, Collected, ExitTellsTruth
<1> QED
  BY <1>1, <1>2, <1>3, <1>4 DEF IInv

-----------------------------------------------------------------------------
(* Steps of one sync *)

Sets(f, g, s, S) == \E v \in S : g = [f EXCEPT ![s] = v]

ElseSame(f, g, s) == \A t \in Sync \ {s} : g[t] = f[t]

LEMMA OnlyThere ==
  ASSUME NEW S, NEW f, NEW g, NEW s \in Sync, f \in [Sync -> S], Sets(f, g, s, S)
  PROVE  g \in [Sync -> S] /\ ElseSame(f, g, s)
<1>1. PICK v \in S : g = [f EXCEPT ![s] = v]
  BY DEF Sets
<1> QED
  BY <1>1 DEF ElseSame

LEMMA ExceptSets ==
  ASSUME NEW S, NEW f \in [Sync -> S], NEW s \in Sync, NEW v \in S
  PROVE  Sets(f, [f EXCEPT ![s] = v], s, S) /\ [f EXCEPT ![s] = v][s] = v
BY DEF Sets

LEMMA SameSets ==
  ASSUME NEW S, NEW f \in [Sync -> S], NEW s \in Sync
  PROVE  Sets(f, f, s, S)
<1>1. f[s] \in S /\ f = [f EXCEPT ![s] = f[s]]
  OBVIOUS
<1> QED
  BY <1>1 DEF Sets

\* What a request changes of a sync, and what else it has.
RequestValues(s) ==
  /\ Sets(stage, stage', s, Stages) /\ Sets(outcome, outcome', s, Outcomes)
  /\ Sets(left, left', s, Lefts) /\ Sets(failing, failing', s, Flags)
  /\ Sets(retries, retries', s, Flags)
  /\ Sets(call, call', s, Calls) /\ Sets(attempt, attempt', s, Attempts)
OtherValues(s) ==
  /\ Sets(pending, pending', s, Flags) /\ Sets(grace, grace', s, Flags)
  /\ Sets(link, link', s, Flags)

LEMMA SyncKeeps ==
  ASSUME IInv, NEW s \in Sync, UNCHANGED <<command, supervisor>>, Running,
         RequestValues(s), OtherValues(s), Placed(s)', Told(s)',
         stage[s] \notin {"unopened", "joined"}, stage'[s] \notin {"unopened", "joined"},
         written' \in BOOLEAN, command = "dry" => ~written'
  PROVE  IInv'
<1>1. /\ UNCHANGED <<command, main, cancelled, results, exit, lost, deaf>>
      /\ Supervised /\ Typed /\ (\A t \in Sync : Placed(t) /\ Told(t)) /\ InTurn /\ Collected
  BY DEF supervisor, IInv
<1>2. stage' \in [Sync -> Stages] /\ ElseSame(stage, stage', s)
  <2>1. stage \in [Sync -> Stages] /\ Sets(stage, stage', s, Stages)
    BY <1>1 DEF Typed, RequestValues
  <2> QED
    BY <2>1, OnlyThere
<1>3. outcome' \in [Sync -> Outcomes] /\ ElseSame(outcome, outcome', s)
  <2>1. outcome \in [Sync -> Outcomes] /\ Sets(outcome, outcome', s, Outcomes)
    BY <1>1 DEF Typed, RequestValues
  <2> QED
    BY <2>1, OnlyThere
<1>4. left' \in [Sync -> Lefts] /\ ElseSame(left, left', s)
  <2>1. left \in [Sync -> Lefts] /\ Sets(left, left', s, Lefts)
    BY <1>1 DEF Typed, RequestValues
  <2> QED
    BY <2>1, OnlyThere
<1>5. failing' \in [Sync -> Flags] /\ ElseSame(failing, failing', s)
  <2>1. failing \in [Sync -> Flags] /\ Sets(failing, failing', s, Flags)
    BY <1>1 DEF Typed, RequestValues
  <2> QED
    BY <2>1, OnlyThere
<1>6. call' \in [Sync -> Calls] /\ ElseSame(call, call', s)
  <2>1. call \in [Sync -> Calls] /\ Sets(call, call', s, Calls)
    BY <1>1 DEF Typed, RequestValues
  <2> QED
    BY <2>1, OnlyThere
<1>7. attempt' \in [Sync -> Attempts]
  <2>1. attempt \in [Sync -> Attempts] /\ Sets(attempt, attempt', s, Attempts)
    BY <1>1 DEF Typed, RequestValues
  <2> QED
    BY <2>1, OnlyThere
<1>8. retries' \in [Sync -> Flags]
  <2>1. retries \in [Sync -> Flags] /\ Sets(retries, retries', s, Flags)
    BY <1>1 DEF Typed, RequestValues
  <2> QED
    BY <2>1, OnlyThere
<1>9. pending' \in [Sync -> Flags]
  <2>1. pending \in [Sync -> Flags] /\ Sets(pending, pending', s, Flags)
    BY <1>1 DEF Typed, OtherValues
  <2> QED
    BY <2>1, OnlyThere
<1>10. grace' \in [Sync -> Flags]
  <2>1. grace \in [Sync -> Flags] /\ Sets(grace, grace', s, Flags)
    BY <1>1 DEF Typed, OtherValues
  <2> QED
    BY <2>1, OnlyThere
<1>11. link' \in [Sync -> Flags]
  <2>1. link \in [Sync -> Flags] /\ Sets(link, link', s, Flags)
    BY <1>1 DEF Typed, OtherValues
  <2> QED
    BY <2>1, OnlyThere
<1>12. Supervised'
  BY <1>1 DEF Supervised, Running, OneShot
<1>13. Typed'
  BY <1>2, <1>3, <1>4, <1>5, <1>6, <1>7, <1>8, <1>9, <1>10, <1>11 DEF Typed
<1>14. ASSUME NEW t \in Sync
      PROVE  Placed(t)' /\ Told(t)'
  <2>1. CASE t = s
    BY <2>1
  <2>2. CASE t # s
    BY <1>1, <1>2, <1>3, <1>4, <1>5, <1>6, <2>2 DEF Placed, Told, InPass, OneShot, ElseSame
  <2> QED
    BY <2>1, <2>2
<1>15. InTurn'
  BY <1>1, <1>2, <1>3 DEF InTurn, OneShot, Running, ElseSame
<1>16. Collected'
  BY <1>1, <1>2 DEF Collected, ElseSame
<1>17. ExitTellsTruth'
  BY <1>1 DEF Supervised, Running, ExitTellsTruth
<1> QED
  BY <1>12, <1>13, <1>14, <1>15, <1>16, <1>17 DEF IInv

-----------------------------------------------------------------------------
(* Requests and passes *)

Results == {"failed", "partial", "complete"}

LEMMA ReturnSets ==
  ASSUME Typed, NEW s \in Sync, NEW at \in Stages, NEW result \in Outcomes, Returns(s, at, result)
  PROVE  /\ Sets(stage, stage', s, Stages) /\ stage'[s] = at
         /\ Sets(outcome, outcome', s, Outcomes) /\ outcome'[s] = result
<1>1. stage \in [Sync -> Stages] /\ stage' = [stage EXCEPT ![s] = at]
  BY DEF Typed, Returns
<1>2. Sets(stage, stage', s, Stages) /\ stage'[s] = at
  BY <1>1, ExceptSets
<1>3. outcome \in [Sync -> Outcomes] /\ outcome' = [outcome EXCEPT ![s] = result]
  BY DEF Typed, Returns
<1>4. Sets(outcome, outcome', s, Outcomes) /\ outcome'[s] = result
  BY <1>3, ExceptSets
<1> QED
  BY <1>2, <1>4

\* With a pass ends its request; a one-shot sync whose pass did not do everything is on its
\* way out with an error.
LEMMA PassEnded ==
  ASSUME Typed, NEW s \in Sync, NEW result \in Results, PassEnds(s, result),
         stage[s] = "final" => outcome[s] # "none"
  PROVE  /\ Sets(stage, stage', s, Stages) /\ stage'[s] \in {"watching", "flushing", "closing", "ended"}
         /\ Sets(outcome, outcome', s, Outcomes) /\ Sets(retries, retries', s, Flags)
         /\ Sets(call, call', s, Calls) /\ call'[s] = "none"
         /\ Sets(attempt, attempt', s, Attempts)
         /\ stage'[s] \in Out => outcome'[s] # "none"
         /\ stage[s] = "once" => /\ stage'[s] \in Out
                                 /\ result # "complete" => outcome'[s] = "error"
                                 /\ outcome'[s] # "stopped"
<1>1. /\ stage \in [Sync -> Stages] /\ outcome \in [Sync -> Outcomes]
      /\ retries \in [Sync -> Flags] /\ call \in [Sync -> Calls] /\ attempt \in [Sync -> Attempts]
  BY DEF Typed
<1>2. Sets(call, call', s, Calls) /\ call'[s] = "none"
  <2>1. call' = [call EXCEPT ![s] = "none"] /\ "none" \in Calls
    BY DEF PassEnds, Calls
  <2> QED
    BY <1>1, <2>1, ExceptSets
<1>3. Sets(attempt, attempt', s, Attempts)
  <2>1. attempt' = [attempt EXCEPT ![s] = 0] /\ 0 \in Attempts
    BY SyncsAssumption DEF PassEnds, Attempts
  <2> QED
    BY <1>1, <2>1, ExceptSets
<1>4. /\ Sets(stage, stage, s, Stages) /\ Sets(outcome, outcome, s, Outcomes)
      /\ Sets(retries, retries, s, Flags)
  BY <1>1, SameSets
<1>5. {"watching", "flushing", "closing", "ended"} \subseteq Stages /\ {"error", "ok"} \subseteq Outcomes
  BY DEF Stages, Outcomes
<1>6. CASE /\ stage[s] = "startup" /\ result = "failed"
           /\ Returns(s, "closing", "error") /\ UNCHANGED retries
  BY <1>2, <1>3, <1>4, <1>5, <1>6, ReturnSets DEF Out
<1>7. CASE /\ stage[s] = "startup" /\ result # "failed"
           /\ stage' = [stage EXCEPT ![s] = "watching"]
           /\ retries' = [retries EXCEPT ![s] = (result = "partial")]
           /\ UNCHANGED outcome
  <2>1. Sets(stage, stage', s, Stages) /\ stage'[s] = "watching"
    BY <1>1, <1>5, <1>7, ExceptSets
  <2>2. Sets(retries, retries', s, Flags)
    <3>1. (result = "partial") \in Flags
      BY DEF Flags
    <3> QED
      BY <1>1, <1>7, <3>1, ExceptSets
  <2> QED
    BY <1>2, <1>3, <1>4, <1>7, <2>1, <2>2 DEF Out
<1>8. CASE /\ stage[s] \in {"batch", "flush"}
           /\ stage' = [stage EXCEPT ![s] = IF @ = "batch" THEN "watching" ELSE "flushing"]
           /\ \E kept \in {FALSE, retries[s]} :
                retries' = [retries EXCEPT ![s] = kept \/ result = "partial"]
           /\ UNCHANGED outcome
  <2> DEFINE at == IF stage[s] = "batch" THEN "watching" ELSE "flushing"
  <2>1. stage' = [stage EXCEPT ![s] = at] /\ at \in {"watching", "flushing"}
    BY <1>1, <1>8
  <2> HIDE DEF at
  <2>2. Sets(stage, stage', s, Stages) /\ stage'[s] = at
    BY <1>1, <1>5, <2>1, ExceptSets
  <2>3. Sets(retries, retries', s, Flags)
    <3>1. PICK kept \in {FALSE, retries[s]} :
            retries' = [retries EXCEPT ![s] = kept \/ result = "partial"]
      BY <1>8
    <3>2. (kept \/ result = "partial") \in Flags
      BY DEF Flags
    <3> QED
      BY <1>1, <3>1, <3>2, ExceptSets
  <2> QED
    BY <1>2, <1>3, <1>4, <1>8, <2>1, <2>2, <2>3 DEF Out
<1>9. CASE /\ stage[s] = "final"
           /\ stage' = [stage EXCEPT ![s] = "closing"]
           /\ UNCHANGED <<outcome, retries>>
  <2>1. Sets(stage, stage', s, Stages) /\ stage'[s] = "closing"
    BY <1>1, <1>5, <1>9, ExceptSets
  <2> QED
    BY <1>2, <1>3, <1>4, <1>9, <2>1 DEF Out
<1>10. CASE stage[s] = "once" /\ OnceEnds(s, result) /\ UNCHANGED retries
  <2>1. \/ result = "failed" /\ Returns(s, "ended", "error")
        \/ result = "partial" /\ Returns(s, "closing", "error")
        \/ result = "complete" /\ Returns(s, "closing", "ok")
    BY <1>10 DEF OnceEnds, Results
  <2>2. /\ Sets(stage, stage', s, Stages) /\ stage'[s] \in {"closing", "ended"}
        /\ Sets(outcome, outcome', s, Outcomes) /\ outcome'[s] \in {"error", "ok"}
        /\ result # "complete" => outcome'[s] = "error"
    BY <1>5, <2>1, ReturnSets
  <2> QED
    BY <1>2, <1>3, <1>4, <1>10, <2>2 DEF Out
<1> QED
  BY <1>6, <1>7, <1>8, <1>9, <1>10 DEF PassEnds

\* A request that has returned leaves the sync in order: with a request out again, or its
\* pass ended and that told of.
LEMMA RequestReturned ==
  ASSUME IInv, NEW s \in Sync, call[s] # "none", NEW ok \in BOOLEAN, RequestReturns(s, ok),
         UNCHANGED <<command, supervisor>>
  PROVE  /\ RequestValues(s) /\ Placed(s)' /\ Told(s)'
         /\ stage[s] \notin {"unopened", "joined"} /\ stage'[s] \notin {"unopened", "joined"}
         /\ written' \in BOOLEAN /\ (command = "dry" => ~written')
<1>1. /\ Supervised /\ Typed /\ Placed(s) /\ Told(s)
      /\ command' = command /\ main' = main
  BY DEF IInv, supervisor
<1>2. InPass(s) /\ (OneShot => stage[s] = "once") /\ (~OneShot => main # "opening" /\ stage[s] # "once")
  BY <1>1 DEF Placed, InPass, Out
<1>3. stage[s] \notin {"unopened", "open", "joined"} /\ stage[s] \notin Out
  BY <1>2 DEF InPass, Out
<1>4. /\ OneShot => (left[s] = Index /\ ~failing[s]) \/ (left[s] >= 1 /\ command = "sync")
      /\ command \in {"sync", "dry", "watch"} /\ written \in BOOLEAN /\ (command = "dry" => ~written)
  <2>1. OneShot => (left[s] = Index /\ ~failing[s]) \/ (left[s] >= 1 /\ command = "sync")
    BY <1>1, <1>2 DEF Told
  <2>2. command \in {"sync", "dry", "watch"} /\ written \in BOOLEAN
    BY <1>1 DEF Supervised
  <2>3. command = "dry" => ~written
    BY DEF ExitTellsTruth, IInv
  <2> QED
    BY <2>1, <2>2, <2>3
<1>5. /\ stage \in [Sync -> Stages] /\ outcome \in [Sync -> Outcomes] /\ left \in [Sync -> Lefts]
      /\ failing \in [Sync -> Flags] /\ retries \in [Sync -> Flags]
      /\ call \in [Sync -> Calls] /\ attempt \in [Sync -> Attempts]
  BY <1>1 DEF Typed
<1>6. /\ Sets(stage, stage, s, Stages) /\ Sets(outcome, outcome, s, Outcomes)
      /\ Sets(left, left, s, Lefts) /\ Sets(failing, failing, s, Flags)
      /\ Sets(retries, retries, s, Flags)
  BY <1>5, SameSets
<1>7. ASSUME NEW result \in Results, PassEnds(s, result),
             Sets(left, left', s, Lefts), Sets(failing, failing', s, Flags),
             OneShot /\ failing'[s] => result # "complete"
      PROVE  /\ RequestValues(s) /\ Placed(s)' /\ Told(s)' /\ stage'[s] \notin {"unopened", "joined"}
  <2>1. /\ Sets(stage, stage', s, Stages) /\ stage'[s] \in {"watching", "flushing", "closing", "ended"}
        /\ Sets(outcome, outcome', s, Outcomes) /\ Sets(retries, retries', s, Flags)
        /\ Sets(call, call', s, Calls) /\ call'[s] = "none"
        /\ Sets(attempt, attempt', s, Attempts)
        /\ stage'[s] \in Out => outcome'[s] # "none"
        /\ stage[s] = "once" => /\ stage'[s] \in Out
                                /\ result # "complete" => outcome'[s] = "error"
                                /\ outcome'[s] # "stopped"
    <3>1. stage[s] = "final" => outcome[s] # "none"
      BY <1>1 DEF Told
    <3> QED
      BY <1>1, <1>7, <3>1, PassEnded
  <2>2. RequestValues(s)
    BY <1>7, <2>1 DEF RequestValues
  <2>3. Placed(s)'
    BY <1>1, <1>2, <2>1 DEF Placed, InPass, OneShot
  <2>4. Told(s)'
    BY <1>1, <1>2, <1>7, <2>1 DEF Told, OneShot, Out
  <2> QED
    BY <2>1, <2>2, <2>3, <2>4
<1>8. ASSUME call' = [call EXCEPT ![s] = "sent"], attempt' = [attempt EXCEPT ![s] = 0],
             UNCHANGED <<stage, outcome, retries>>,
             Sets(left, left', s, Lefts), Sets(failing, failing', s, Flags),
             OneShot => left'[s] >= 1 /\ command = "sync"
      PROVE  /\ RequestValues(s) /\ Placed(s)' /\ Told(s)' /\ stage'[s] \notin {"unopened", "joined"}
  <2>1. "sent" \in Calls /\ 0 \in Attempts
    BY SyncsAssumption DEF Calls, Attempts
  <2>2. Sets(call, call', s, Calls) /\ call'[s] = "sent"
    BY <1>5, <1>8, <2>1, ExceptSets
  <2>3. Sets(attempt, attempt', s, Attempts)
    BY <1>5, <1>8, <2>1, ExceptSets
  <2>4. RequestValues(s)
    BY <1>6, <1>8, <2>2, <2>3 DEF RequestValues
  <2>5. Placed(s)'
    BY <1>1, <1>2, <1>8, <2>2 DEF Placed, InPass, OneShot
  <2>6. Told(s)'
    BY <1>1, <1>2, <1>3, <1>8 DEF Told, OneShot
  <2> QED
    BY <1>3, <1>8, <2>4, <2>5, <2>6
<1>9. CASE left[s] = Index /\ ~ok /\ PassEnds(s, "failed") /\ UNCHANGED <<passVars, written>>
  <2>1. Sets(left, left', s, Lefts) /\ Sets(failing, failing', s, Flags) /\ written' = written
    BY <1>6, <1>9 DEF passVars
  <2> QED
    BY <1>3, <1>4, <1>7, <1>9, <2>1 DEF Results
<1>10. CASE /\ left[s] = Index /\ ok /\ UNCHANGED written
            /\ \E planned \in 0..MaxActions :
                 IF planned = 0 \/ command = "dry"
                 THEN PassEnds(s, "complete") /\ UNCHANGED passVars
                 ELSE /\ left' = [left EXCEPT ![s] = planned]
                      /\ call' = [call EXCEPT ![s] = "sent"] /\ attempt' = [attempt EXCEPT ![s] = 0]
                      /\ UNCHANGED <<stage, outcome, retries, failing>>
  <2>1. PICK planned \in 0..MaxActions :
          IF planned = 0 \/ command = "dry"
          THEN PassEnds(s, "complete") /\ UNCHANGED passVars
          ELSE /\ left' = [left EXCEPT ![s] = planned]
               /\ call' = [call EXCEPT ![s] = "sent"] /\ attempt' = [attempt EXCEPT ![s] = 0]
               /\ UNCHANGED <<stage, outcome, retries, failing>>
    BY <1>10
  <2>2. CASE planned = 0 \/ command = "dry"
    <3>1. PassEnds(s, "complete") /\ left' = left /\ failing' = failing
      BY <2>1, <2>2 DEF passVars
    <3>2. OneShot => ~failing[s]
      BY <1>4, <1>10 DEF Index
    <3> QED
      BY <1>3, <1>4, <1>6, <1>7, <1>10, <3>1, <3>2 DEF Results
  <2>3. CASE planned # 0 /\ command # "dry"
    <3>1. planned \in Lefts /\ planned >= 1
      BY <2>3, DaemonBounds DEF Lefts, Index
    <3>2. Sets(left, left', s, Lefts) /\ left'[s] = planned
      BY <1>5, <2>1, <2>3, <3>1, ExceptSets
    <3>3. Sets(failing, failing', s, Flags)
      BY <1>6, <2>1, <2>3
    <3> QED
      BY <1>3, <1>4, <1>8, <1>10, <2>1, <2>3, <3>1, <3>2, <3>3 DEF OneShot
  <2> QED
    BY <2>2, <2>3
<1>11. CASE /\ left[s] # Index
            /\ failing' = [failing EXCEPT ![s] = @ \/ ~ok] /\ written' = (written \/ ok)
            /\ left' = [left EXCEPT ![s] = @ - 1]
            /\ IF left[s] > 1
               THEN /\ call' = [call EXCEPT ![s] = "sent"] /\ attempt' = [attempt EXCEPT ![s] = 0]
                    /\ UNCHANGED <<stage, outcome, retries>>
               ELSE PassEnds(s, IF failing'[s] THEN "partial" ELSE "complete")
  <2>1. left[s] - 1 \in Lefts /\ (left[s] > 1 => left[s] - 1 >= 1)
    BY <1>5, <1>11, DaemonBounds DEF Lefts, Index
  <2>2. left' = [left EXCEPT ![s] = left[s] - 1]
    BY <1>11
  <2>3. Sets(left, left', s, Lefts) /\ left'[s] = left[s] - 1
    BY <1>5, <2>1, <2>2, ExceptSets
  <2>4. Sets(failing, failing', s, Flags)
    <3>1. failing' = [failing EXCEPT ![s] = failing[s] \/ ~ok]
      BY <1>11
    <3>2. (failing[s] \/ ~ok) \in Flags
      BY DEF Flags
    <3> QED
      BY <1>5, <3>1, <3>2, ExceptSets
  <2>5. OneShot => command = "sync"
    BY <1>4, <1>11
  <2>6. written' \in BOOLEAN /\ (command = "dry" => ~written')
    BY <1>4, <1>11, <2>5 DEF OneShot
  <2>7. CASE left[s] > 1
    <3>1. /\ call' = [call EXCEPT ![s] = "sent"] /\ attempt' = [attempt EXCEPT ![s] = 0]
          /\ UNCHANGED <<stage, outcome, retries>>
      BY <1>11, <2>7
    <3> QED
      BY <1>3, <1>8, <2>1, <2>3, <2>4, <2>5, <2>6, <2>7, <3>1
  <2>8. CASE ~(left[s] > 1)
    <3> DEFINE result == IF failing'[s] THEN "partial" ELSE "complete"
    <3>1. result \in Results /\ PassEnds(s, result) /\ (failing'[s] => result # "complete")
      BY <1>11, <2>8 DEF Results
    <3> HIDE DEF result
    <3> QED
      BY <1>3, <1>7, <2>3, <2>4, <2>6, <3>1
  <2> QED
    BY <2>7, <2>8
<1> QED
  BY <1>9, <1>10, <1>11 DEF RequestReturns

-----------------------------------------------------------------------------
(* The steps of a sync, one by one *)

LEMMA ValuesSame ==
  ASSUME Typed, NEW s \in Sync
  PROVE  /\ Sets(stage, stage, s, Stages) /\ Sets(outcome, outcome, s, Outcomes)
         /\ Sets(left, left, s, Lefts) /\ Sets(failing, failing, s, Flags)
         /\ Sets(retries, retries, s, Flags) /\ Sets(pending, pending, s, Flags)
         /\ Sets(grace, grace, s, Flags) /\ Sets(link, link, s, Flags)
         /\ Sets(call, call, s, Calls) /\ Sets(attempt, attempt, s, Attempts)
<1>1. /\ stage \in [Sync -> Stages] /\ outcome \in [Sync -> Outcomes] /\ left \in [Sync -> Lefts]
      /\ failing \in [Sync -> Flags] /\ retries \in [Sync -> Flags] /\ pending \in [Sync -> Flags]
      /\ grace \in [Sync -> Flags] /\ link \in [Sync -> Flags]
      /\ call \in [Sync -> Calls] /\ attempt \in [Sync -> Attempts]
  BY DEF Typed
<1>2. Sets(stage, stage, s, Stages) /\ Sets(outcome, outcome, s, Outcomes)
  BY <1>1, SameSets
<1>3. Sets(left, left, s, Lefts) /\ Sets(failing, failing, s, Flags)
  BY <1>1, SameSets
<1>4. Sets(retries, retries, s, Flags) /\ Sets(pending, pending, s, Flags)
  BY <1>1, SameSets
<1>5. Sets(grace, grace, s, Flags) /\ Sets(link, link, s, Flags)
  BY <1>1, SameSets
<1>6. Sets(call, call, s, Calls) /\ Sets(attempt, attempt, s, Attempts)
  BY <1>1, SameSets
<1> QED
  BY <1>2, <1>3, <1>4, <1>5, <1>6

LEMMA OthersSame ==
  ASSUME Typed, NEW s \in Sync, UNCHANGED <<pending, grace, link>>
  PROVE  OtherValues(s)
BY ValuesSame DEF OtherValues

LEMMA RequestSame ==
  ASSUME Typed, NEW s \in Sync, UNCHANGED <<stage, outcome, left, failing, retries, call, attempt>>
  PROVE  RequestValues(s)
BY ValuesSame DEF RequestValues

LEMMA FlagSets ==
  ASSUME Typed, NEW s \in Sync, NEW v \in BOOLEAN, NEW f, NEW g, f \in [Sync -> Flags],
         g = [f EXCEPT ![s] = v]
  PROVE  Sets(f, g, s, Flags) /\ g[s] = v
<1>1. v \in Flags
  BY DEF Flags
<1> QED
  BY <1>1, ExceptSets

\* What Placed and Told say of a sync that is not through and goes on in the same stage.
LEMMA SameStage ==
  ASSUME IInv, NEW s \in Sync, UNCHANGED <<command, supervisor, stage, outcome, left, failing>>,
         (call'[s] = "none") = (call[s] = "none")
  PROVE  Placed(s)' /\ Told(s)'
<1>1. Placed(s) /\ Told(s) /\ command' = command /\ main' = main
  BY DEF IInv, supervisor
<1>2. Placed(s)'
  BY <1>1 DEF Placed, InPass, OneShot
<1>3. Told(s)'
  BY <1>1 DEF Told, OneShot
<1> QED
  BY <1>2, <1>3

LEMMA NotWritten == IInv => written \in BOOLEAN /\ (command = "dry" => ~written)
<1>1. IInv => written \in BOOLEAN
  BY DEF IInv, Supervised
<1>2. IInv => (command = "dry" => ~written)
  BY DEF IInv, ExitTellsTruth
<1> QED
  BY <1>1, <1>2

\* With a request out, a sync is neither waiting to be opened nor through.
LEMMA Under ==
  ASSUME IInv, NEW s \in Sync, call[s] # "none"
  PROVE  stage[s] \notin {"unopened", "joined"}
BY DEF IInv, Placed, InPass

LEMMA RequestKeeps ==
  ASSUME IInv, NEW s \in Sync, Running, call[s] # "none", NEW ok \in BOOLEAN,
         RequestReturns(s, ok), UNCHANGED <<command, supervisor, pending, grace, link>>
  PROVE  IInv'
<1>1. Typed /\ UNCHANGED <<command, supervisor>>
  BY DEF IInv
<1>2. OtherValues(s)
  BY <1>1, OthersSame
<1>3. /\ RequestValues(s) /\ Placed(s)' /\ Told(s)'
      /\ stage[s] \notin {"unopened", "joined"} /\ stage'[s] \notin {"unopened", "joined"}
      /\ written' \in BOOLEAN /\ (command = "dry" => ~written')
  BY <1>1, RequestReturned
<1> QED
  BY <1>1, <1>2, <1>3, SyncKeeps

LEMMA AnsweredKeeps ==
  ASSUME IInv, NEW s \in Sync, Answered(s)
  PROVE  IInv'
<1>1. /\ Running /\ call[s] # "none" /\ UNCHANGED <<command, supervisor, pending, grace, link>>
      /\ RequestReturns(s, TRUE) \/ RequestReturns(s, FALSE)
  BY DEF Answered
<1> QED
  BY <1>1, RequestKeeps

LEMMA GivesUpKeeps ==
  ASSUME IInv, NEW s \in Sync, Running, call[s] # "none", GivesUp(s), UNCHANGED link
  PROVE  IInv'
<1>1. RequestReturns(s, FALSE) /\ UNCHANGED <<command, supervisor, pending, grace, link>>
  BY DEF GivesUp
<1> QED
  BY <1>1, RequestKeeps

\* The request is passed on between the link's states.
LEMMA LinkKeeps ==
  ASSUME IInv, NEW s \in Sync, Running, call[s] # "none",
         NEW at \in Calls \ {"none"}, call' = [call EXCEPT ![s] = at],
         Sets(attempt, attempt', s, Attempts), Sets(link, link', s, Flags),
         UNCHANGED <<command, supervisor, stage, outcome, passVars, queueVars, written>>
  PROVE  IInv'
<1>1. Typed /\ call \in [Sync -> Calls] /\ at \in Calls /\ at # "none"
  BY DEF IInv, Typed
<1>2. UNCHANGED <<command, supervisor, stage, outcome, left, failing, retries, pending, grace, written>>
  BY DEF passVars, queueVars
<1>3. Sets(call, call', s, Calls) /\ call'[s] = at
  BY <1>1, ExceptSets
<1>4. RequestValues(s) /\ OtherValues(s)
  BY <1>1, <1>2, <1>3, ValuesSame DEF RequestValues, OtherValues
<1>5. Placed(s)' /\ Told(s)'
  BY <1>1, <1>2, <1>3, SameStage
<1>6. stage[s] \notin {"unopened", "joined"} /\ stage'[s] \notin {"unopened", "joined"}
  BY <1>2, Under
<1> QED
  BY <1>2, <1>4, <1>5, <1>6, NotWritten, SyncKeeps

LEMMA TransportFailsKeeps ==
  ASSUME IInv, NEW s \in Sync, TransportFails(s)
  PROVE  IInv'
<1>1. /\ Typed /\ link \in [Sync -> Flags]
      /\ "restoring" \in Calls \ {"none"} /\ FALSE \in BOOLEAN
  BY DEF IInv, Typed, Calls
<1>2. /\ Running /\ call[s] # "none"
      /\ call' = [call EXCEPT ![s] = "restoring"] /\ link' = [link EXCEPT ![s] = FALSE]
      /\ UNCHANGED <<command, supervisor, stage, outcome, passVars, queueVars, attempt, written>>
  BY DEF TransportFails
<1>3. Sets(attempt, attempt', s, Attempts)
  BY <1>1, <1>2, ValuesSame
<1>4. Sets(link, link', s, Flags)
  BY <1>1, <1>2, FlagSets
<1> QED
  BY <1>1, <1>2, <1>3, <1>4, LinkKeeps

LEMMA LinkLostKeeps ==
  ASSUME IInv, NEW s \in Sync, LinkLost(s)
  PROVE  IInv'
BY TransportFailsKeeps DEF LinkLost

LEMMA FoundDeadKeeps ==
  ASSUME IInv, NEW s \in Sync, FoundDead(s)
  PROVE  IInv'
BY TransportFailsKeeps DEF FoundDead

\* A further attempt is one that is not spent, and so within what the command has.
LEMMA RestoreAgainKeeps ==
  ASSUME IInv, NEW s \in Sync, RestoreAgain(s)
  PROVE  IInv'
<1>1. Running /\ call[s] # "none"
  BY DEF RestoreAgain
<1>2. CASE Spent(s) /\ GivesUp(s) /\ UNCHANGED link
  BY <1>1, <1>2, GivesUpKeeps
<1>3. CASE /\ ~Spent(s)
           /\ call' = [call EXCEPT ![s] = "waiting"]
           /\ attempt' = [attempt EXCEPT ![s] = Counted(@)]
           /\ UNCHANGED <<command, supervisor, stage, outcome, passVars, queueVars, link, written,
                          faults>>
  <2>1. /\ Typed /\ attempt \in [Sync -> Attempts] /\ attempt[s] \in Attempts
        /\ command \in {"sync", "dry", "watch"}
    BY DEF IInv, Typed, Supervised
  <2>2. Counted(attempt[s]) \in Attempts
    BY <1>3, <2>1, SyncsAssumption DEF Counted, Spent, Attempts
  <2>3. attempt' = [attempt EXCEPT ![s] = Counted(attempt[s])]
    BY <1>3
  <2>4. Sets(attempt, attempt', s, Attempts)
    BY <2>1, <2>2, <2>3, ExceptSets
  <2>5. "waiting" \in Calls \ {"none"}
    BY DEF Calls
  <2>6. Sets(link, link', s, Flags)
    BY <1>3, <2>1, ValuesSame
  <2> QED
    BY <1>1, <1>3, <2>4, <2>5, <2>6, LinkKeeps
<1> QED
  BY <1>2, <1>3 DEF RestoreAgain

LEMMA WaitKeeps ==
  ASSUME IInv, NEW s \in Sync, Wait(s)
  PROVE  IInv'
<1>1. Running /\ call[s] # "none"
  BY DEF Wait
<1>2. CASE WaitCut /\ GivesUp(s) /\ UNCHANGED link
  BY <1>1, <1>2, GivesUpKeeps
<1>3. CASE /\ ~WaitCut
           /\ call' = [call EXCEPT ![s] = "reopening"]
           /\ UNCHANGED <<command, supervisor, stage, outcome, passVars, queueVars, attempt, link,
                          written, faults>>
  <2>1. Typed /\ "reopening" \in Calls \ {"none"}
    BY DEF IInv, Calls
  <2>2. Sets(attempt, attempt', s, Attempts) /\ Sets(link, link', s, Flags)
    BY <1>3, <2>1, ValuesSame
  <2> QED
    BY <1>1, <1>3, <2>1, <2>2, LinkKeeps
<1> QED
  BY <1>2, <1>3 DEF Wait

LEMMA ReopenedKeeps ==
  ASSUME IInv, NEW s \in Sync, Reopened(s)
  PROVE  IInv'
<1>1. /\ Running /\ call[s] # "none"
      /\ UNCHANGED <<command, supervisor, stage, outcome, passVars, queueVars, written>>
  BY DEF Reopened
<1>2. PICK ok \in BOOLEAN :
        /\ link' = [link EXCEPT ![s] = ok]
        /\ call' = [call EXCEPT ![s] = IF ok THEN "sent" ELSE "restoring"]
        /\ attempt' = [attempt EXCEPT ![s] = IF ok THEN 0 ELSE @]
  BY DEF Reopened
<1>3. Typed /\ attempt \in [Sync -> Attempts] /\ link \in [Sync -> Flags] /\ attempt[s] \in Attempts
  BY DEF IInv, Typed
<1>4. Sets(link, link', s, Flags)
  BY <1>2, <1>3, FlagSets
<1>5. Sets(attempt, attempt', s, Attempts)
  <2>1. /\ attempt' = [attempt EXCEPT ![s] = IF ok THEN 0 ELSE attempt[s]]
        /\ (IF ok THEN 0 ELSE attempt[s]) \in Attempts
    BY <1>2, <1>3, SyncsAssumption DEF Attempts
  <2> QED
    BY <1>3, <2>1, ExceptSets
<1>6. (IF ok THEN "sent" ELSE "restoring") \in Calls \ {"none"}
  BY DEF Calls
<1> QED
  BY <1>1, <1>2, <1>4, <1>5, <1>6, LinkKeeps

\* A step of a watch's task that is not through leaves it in order if there is a request
\* out just in a pass.
LEMMA TaskKeeps ==
  ASSUME IInv, NEW s \in Sync, Running, ~OneShot, stage[s] \notin {"unopened", "open", "joined"},
         UNCHANGED <<command, supervisor, written>>, RequestValues(s), OtherValues(s),
         stage'[s] \notin {"unopened", "open", "once", "joined"}, (call'[s] # "none") = InPass(s)',
         stage'[s] \in {"flush", "final"} \cup Out => outcome'[s] # "none"
  PROVE  IInv'
<1>1. /\ Placed(s) /\ command' = command /\ main' = main /\ UNCHANGED <<command, supervisor>>
      /\ UNCHANGED written
  BY DEF IInv, supervisor
<1>2. Placed(s)'
  BY <1>1 DEF Placed, OneShot
<1>3. Told(s)'
  BY <1>1 DEF Told, OneShot
<1> QED
  BY <1>1, <1>2, <1>3, NotWritten, SyncKeeps

\* The stages a watch's task is in between passes, and those it looks for changes in.
LEMMA InTask ==
  ASSUME IInv, NEW s \in Sync,
         stage[s] \in {"startup", "watching", "batch", "flushing", "flush", "final"}
  PROVE  ~OneShot /\ (call[s] # "none") = InPass(s)
BY DEF IInv, Placed, OneShot, Out

LEMMA ObserveKeeps ==
  ASSUME IInv, NEW s \in Sync, Observe(s)
  PROVE  IInv'
<1>1. /\ Running /\ stage[s] \in {"startup", "watching", "batch", "flushing", "flush"}
      /\ pending' = [pending EXCEPT ![s] = TRUE]
      /\ UNCHANGED <<command, supervisor, stage, outcome, left, failing, retries, grace, call,
                     attempt, link, written>>
  BY DEF Observe, passVars, linkVars
<1>2. Typed /\ pending \in [Sync -> Flags]
  BY DEF IInv, Typed
<1>3. Sets(pending, pending', s, Flags)
  BY <1>1, <1>2, FlagSets
<1>4. RequestValues(s) /\ OtherValues(s)
  BY <1>1, <1>2, <1>3, ValuesSame, RequestSame DEF OtherValues
<1>5. ~OneShot /\ (call'[s] # "none") = InPass(s)'
  BY <1>1, InTask DEF InPass
<1>6. stage'[s] \in {"flush", "final"} \cup Out => outcome'[s] # "none"
  BY <1>1 DEF IInv, Told
<1> QED
  BY <1>1, <1>4, <1>5, <1>6, TaskKeeps

LEMMA GraceElapsesKeeps ==
  ASSUME IInv, NEW s \in Sync, GraceElapses(s)
  PROVE  IInv'
<1>1. /\ Running /\ stage[s] \in {"flushing", "flush"}
      /\ grace' = [grace EXCEPT ![s] = TRUE]
      /\ UNCHANGED <<command, supervisor, stage, outcome, left, failing, retries, pending, call,
                     attempt, link, written>>
  BY DEF GraceElapses, passVars, linkVars
<1>2. Typed /\ grace \in [Sync -> Flags]
  BY DEF IInv, Typed
<1>3. Sets(grace, grace', s, Flags)
  BY <1>1, <1>2, FlagSets
<1>4. RequestValues(s) /\ OtherValues(s)
  BY <1>1, <1>2, <1>3, ValuesSame, RequestSame DEF OtherValues
<1>5. ~OneShot /\ (call'[s] # "none") = InPass(s)'
  BY <1>1, InTask DEF InPass
<1>6. stage'[s] \in {"flush", "final"} \cup Out => outcome'[s] # "none"
  BY <1>1 DEF IInv, Told
<1> QED
  BY <1>1, <1>4, <1>5, <1>6, TaskKeeps

LEMMA PassStarted ==
  ASSUME Typed, NEW s \in Sync, NEW at \in Stages, StartsPass(s, at)
  PROVE  /\ Sets(stage, stage', s, Stages) /\ stage'[s] = at
         /\ Sets(left, left', s, Lefts) /\ left'[s] = Index
         /\ Sets(failing, failing', s, Flags) /\ ~failing'[s]
         /\ Sets(call, call', s, Calls) /\ call'[s] = "sent"
         /\ Sets(attempt, attempt', s, Attempts)
<1>1. /\ stage \in [Sync -> Stages] /\ left \in [Sync -> Lefts] /\ failing \in [Sync -> Flags]
      /\ call \in [Sync -> Calls] /\ attempt \in [Sync -> Attempts]
  BY DEF Typed
<1>2. /\ stage' = [stage EXCEPT ![s] = at]
      /\ left' = [left EXCEPT ![s] = Index] /\ failing' = [failing EXCEPT ![s] = FALSE]
      /\ call' = [call EXCEPT ![s] = "sent"] /\ attempt' = [attempt EXCEPT ![s] = 0]
  BY DEF StartsPass
<1>3. Index \in Lefts /\ 0 \in Attempts /\ "sent" \in Calls
  BY SyncsAssumption, DaemonBounds DEF Lefts, Attempts, Calls, Index
<1>4. Sets(stage, stage', s, Stages) /\ stage'[s] = at
  BY <1>1, <1>2, ExceptSets
<1>5. Sets(left, left', s, Lefts) /\ left'[s] = Index
  BY <1>1, <1>2, <1>3, ExceptSets
<1>6. Sets(failing, failing', s, Flags) /\ failing'[s] = FALSE
  <2>1. FALSE \in BOOLEAN
    OBVIOUS
  <2> QED
    BY <1>1, <1>2, <2>1, FlagSets
<1>7. Sets(call, call', s, Calls) /\ call'[s] = "sent"
  BY <1>1, <1>2, <1>3, ExceptSets
<1>8. Sets(attempt, attempt', s, Attempts)
  BY <1>1, <1>2, <1>3, ExceptSets
<1> QED
  BY <1>4, <1>5, <1>6, <1>7, <1>8

\* A pass is taken up between passes.
LEMMA PassKeeps ==
  ASSUME IInv, NEW s \in Sync, Running, stage[s] \in {"watching", "flushing"},
         NEW at \in {"batch", "flush", "final"}, StartsPass(s, at),
         Sets(outcome, outcome', s, Outcomes), Sets(pending, pending', s, Flags),
         at \in {"flush", "final"} => outcome'[s] # "none",
         UNCHANGED <<command, supervisor, retries, grace, link, written>>
  PROVE  IInv'
<1>1. Typed /\ at \in Stages
  BY DEF IInv, Stages
<1>2. /\ Sets(stage, stage', s, Stages) /\ stage'[s] = at
      /\ Sets(left, left', s, Lefts) /\ Sets(failing, failing', s, Flags)
      /\ Sets(call, call', s, Calls) /\ call'[s] = "sent"
      /\ Sets(attempt, attempt', s, Attempts)
  BY <1>1, PassStarted
<1>3. RequestValues(s) /\ OtherValues(s)
  BY <1>1, <1>2, ValuesSame DEF RequestValues, OtherValues
<1>4. (call'[s] # "none") = InPass(s)'
  BY <1>2 DEF InPass
<1>5. stage'[s] \in {"flush", "final"} \cup Out => outcome'[s] # "none"
  BY <1>2 DEF Out
<1> QED
  BY <1>2, <1>3, <1>4, <1>5, InTask, TaskKeeps

\* What a task does between passes when it takes up none.
LEMMA BetweenKeeps ==
  ASSUME IInv, NEW s \in Sync, Running, stage[s] \in {"watching", "flushing"},
         NEW at \in {"flushing", "closing"}, stage' = [stage EXCEPT ![s] = at],
         Sets(outcome, outcome', s, Outcomes), at = "closing" => outcome'[s] # "none",
         UNCHANGED <<command, supervisor, left, failing, retries, pending, grace, call, attempt,
                     link, written>>
  PROVE  IInv'
<1>1. Typed /\ at \in Stages /\ stage \in [Sync -> Stages]
  BY DEF IInv, Stages, Typed
<1>2. Sets(stage, stage', s, Stages) /\ stage'[s] = at
  BY <1>1, ExceptSets
<1>3. RequestValues(s) /\ OtherValues(s)
  BY <1>1, <1>2, ValuesSame DEF RequestValues, OtherValues
<1>4. (call'[s] # "none") = InPass(s)'
  BY <1>2, InTask DEF InPass
<1>5. stage'[s] \in {"flush", "final"} \cup Out => outcome'[s] # "none"
  BY <1>2 DEF Out
<1> QED
  BY <1>2, <1>3, <1>4, <1>5, InTask, TaskKeeps

LEMMA TurnKeeps ==
  ASSUME IInv, NEW s \in Sync, Turn(s)
  PROVE  IInv'
<1>1. /\ Running /\ stage[s] = "watching"
      /\ UNCHANGED <<command, supervisor, outcome, retries, grace, link, written>>
  BY DEF Turn
<1>2. Typed /\ pending \in [Sync -> Flags] /\ FALSE \in BOOLEAN
  BY DEF IInv, Typed
<1>3. Sets(outcome, outcome', s, Outcomes)
  BY <1>1, <1>2, ValuesSame
<1>4. CASE /\ stage' = [stage EXCEPT ![s] = "flushing"]
           /\ UNCHANGED <<passVars, pending, call, attempt>>
  <2>1. UNCHANGED <<command, supervisor, left, failing, retries, pending, grace, call, attempt,
                    link, written>>
    BY <1>1, <1>4 DEF passVars
  <2> QED
    BY <1>1, <1>3, <1>4, <2>1, BetweenKeeps
<1>5. CASE StartsPass(s, "batch") /\ pending' = [pending EXCEPT ![s] = FALSE]
  <2>1. Sets(pending, pending', s, Flags)
    BY <1>2, <1>5, FlagSets
  <2> QED
    BY <1>1, <1>3, <1>5, <2>1, PassKeeps
<1> QED
  BY <1>4, <1>5 DEF Turn

LEMMA WatcherStopsKeeps ==
  ASSUME IInv, NEW s \in Sync, WatcherStops(s)
  PROVE  IInv'
<1>1. /\ Running /\ stage[s] = "watching" /\ stage' = [stage EXCEPT ![s] = "flushing"]
      /\ outcome' = [outcome EXCEPT ![s] = "stopped"]
      /\ UNCHANGED <<command, supervisor, left, failing, retries, pending, grace, call, attempt,
                     link, written>>
  BY DEF WatcherStops, passVars, queueVars, linkVars
<1>2. outcome \in [Sync -> Outcomes] /\ "stopped" \in Outcomes
  BY DEF IInv, Typed, Outcomes
<1>3. Sets(outcome, outcome', s, Outcomes)
  BY <1>1, <1>2, ExceptSets
<1> QED
  BY <1>1, <1>3, BetweenKeeps

LEMMA FlushKeeps ==
  ASSUME IInv, NEW s \in Sync, Flush(s)
  PROVE  IInv'
<1>1. /\ Running /\ stage[s] = "flushing"
      /\ outcome' = [outcome EXCEPT ![s] = IF @ = "none" THEN "ok" ELSE @]
      /\ UNCHANGED <<command, supervisor, retries, grace, link, written>>
  BY DEF Flush
<1>2. /\ Typed /\ pending \in [Sync -> Flags] /\ FALSE \in BOOLEAN
      /\ outcome \in [Sync -> Outcomes] /\ outcome[s] \in Outcomes
  BY DEF IInv, Typed
<1>3. Sets(outcome, outcome', s, Outcomes) /\ outcome'[s] # "none"
  <2> DEFINE result == IF outcome[s] = "none" THEN "ok" ELSE outcome[s]
  <2>1. outcome' = [outcome EXCEPT ![s] = result] /\ result \in Outcomes /\ result # "none"
    BY <1>1, <1>2 DEF Outcomes
  <2> HIDE DEF result
  <2> QED
    BY <1>2, <2>1, ExceptSets
<1>4. CASE StartsPass(s, "flush") /\ pending' = [pending EXCEPT ![s] = FALSE]
  <2>1. Sets(pending, pending', s, Flags)
    BY <1>2, <1>4, FlagSets
  <2> QED
    BY <1>1, <1>3, <1>4, <2>1, PassKeeps
<1>5. CASE StartsPass(s, "final") /\ UNCHANGED pending
  <2>1. Sets(pending, pending', s, Flags)
    BY <1>2, <1>5, ValuesSame
  <2> QED
    BY <1>1, <1>3, <1>5, <2>1, PassKeeps
<1>6. CASE /\ stage' = [stage EXCEPT ![s] = "closing"]
           /\ UNCHANGED <<passVars, pending, call, attempt>>
  <2>1. UNCHANGED <<command, supervisor, left, failing, retries, pending, grace, call, attempt,
                    link, written>>
    BY <1>1, <1>6 DEF passVars
  <2> QED
    BY <1>1, <1>3, <1>6, <2>1, BetweenKeeps
<1> QED
  BY <1>4, <1>5, <1>6 DEF Flush

LEMMA DroppedSets ==
  ASSUME Typed, NEW s \in Sync, Dropped(s)
  PROVE  OtherValues(s) /\ Sets(retries, retries', s, Flags)
<1>1. /\ retries \in [Sync -> Flags] /\ pending \in [Sync -> Flags]
      /\ grace \in [Sync -> Flags] /\ link \in [Sync -> Flags] /\ FALSE \in BOOLEAN
  BY DEF Typed
<1>2. /\ retries' = [retries EXCEPT ![s] = FALSE] /\ pending' = [pending EXCEPT ![s] = FALSE]
      /\ grace' = [grace EXCEPT ![s] = FALSE] /\ link' = [link EXCEPT ![s] = FALSE]
  BY DEF Dropped
<1>3. Sets(retries, retries', s, Flags)
  BY <1>1, <1>2, FlagSets
<1>4. Sets(pending, pending', s, Flags)
  BY <1>1, <1>2, FlagSets
<1>5. Sets(grace, grace', s, Flags)
  BY <1>1, <1>2, FlagSets
<1>6. Sets(link, link', s, Flags)
  BY <1>1, <1>2, FlagSets
<1> QED
  BY <1>3, <1>4, <1>5, <1>6 DEF OtherValues

LEMMA CloseKeeps ==
  ASSUME IInv, NEW s \in Sync, Close(s)
  PROVE  IInv'
<1>1. /\ Running /\ stage[s] = "closing" /\ stage' = [stage EXCEPT ![s] = "ended"] /\ Dropped(s)
      /\ UNCHANGED <<command, supervisor, outcome, left, failing, call, attempt, written>>
  BY DEF Close, passVars
<1>2. /\ Typed /\ stage \in [Sync -> Stages] /\ "ended" \in Stages /\ Placed(s) /\ Told(s)
      /\ command' = command /\ main' = main
  BY <1>1 DEF IInv, Typed, Stages, supervisor
<1>3. Sets(stage, stage', s, Stages) /\ stage'[s] = "ended"
  BY <1>1, <1>2, ExceptSets
<1>4. RequestValues(s) /\ OtherValues(s)
  BY <1>1, <1>2, <1>3, ValuesSame, DroppedSets DEF RequestValues
<1>5. Placed(s)'
  BY <1>1, <1>2, <1>3 DEF Placed, InPass, OneShot, Out
<1>6. Told(s)'
  BY <1>1, <1>2, <1>3 DEF Told, OneShot, Out
<1> QED
  BY <1>1, <1>3, <1>4, <1>5, <1>6, NotWritten, SyncKeeps

LEMMA PanicKeeps ==
  ASSUME IInv, NEW s \in Sync, Panic(s)
  PROVE  IInv'
<1>1. /\ main \in {"arming", "racing", "draining"} /\ stage[s] \notin {"ended", "joined"}
      /\ Returns(s, "ended", "error") /\ Dropped(s)
      /\ call' = [call EXCEPT ![s] = "none"] /\ attempt' = [attempt EXCEPT ![s] = 0]
      /\ UNCHANGED <<command, supervisor, left, failing, written>>
  BY DEF Panic, passVars
<1>2. Running /\ ~OneShot /\ stage[s] \notin {"unopened", "open", "joined"}
  BY <1>1 DEF IInv, Supervised, Placed, Running
<1>3. /\ Typed /\ call \in [Sync -> Calls] /\ attempt \in [Sync -> Attempts]
      /\ "none" \in Calls /\ 0 \in Attempts /\ "ended" \in Stages /\ "error" \in Outcomes
  BY SyncsAssumption DEF IInv, Typed, Calls, Attempts, Stages, Outcomes
<1>4. /\ Sets(stage, stage', s, Stages) /\ stage'[s] = "ended"
      /\ Sets(outcome, outcome', s, Outcomes) /\ outcome'[s] = "error"
  BY <1>1, <1>3, ReturnSets
<1>5. Sets(call, call', s, Calls) /\ call'[s] = "none"
  BY <1>1, <1>3, ExceptSets
<1>6. Sets(attempt, attempt', s, Attempts)
  BY <1>1, <1>3, ExceptSets
<1>7. RequestValues(s) /\ OtherValues(s)
  BY <1>1, <1>3, <1>4, <1>5, <1>6, ValuesSame, DroppedSets DEF RequestValues
<1>8. (call'[s] # "none") = InPass(s)'
  BY <1>4, <1>5 DEF InPass
<1> QED
  BY <1>1, <1>2, <1>4, <1>7, <1>8, TaskKeeps

-----------------------------------------------------------------------------
(* The steps of the supervisor *)

\* A process that exits leaves everything where it is.
LEMMA ExitKeeps ==
  ASSUME IInv, NEW status \in {"ok", "error", "killed"}, Exits(status), ExitTellsTruth',
         deaf' \in BOOLEAN,
         UNCHANGED <<command, cancelled, results, lost, stage, outcome, passVars, queueVars,
                     linkVars, written>>
  PROVE  IInv'
<1>1. /\ main' = "exited" /\ exit' = status
      /\ UNCHANGED <<command, cancelled, results, lost, stage, outcome, left, failing, retries,
                     pending, grace, call, attempt, link, written>>
  BY DEF Exits, passVars, queueVars, linkVars
<1>2. Supervised /\ Typed /\ (\A s \in Sync : Placed(s) /\ Told(s)) /\ InTurn
  BY DEF IInv
<1>3. Supervised'
  BY <1>1, <1>2 DEF Supervised, Running, OneShot
<1>4. Typed'
  BY <1>1, <1>2 DEF Typed
<1>5. \A s \in Sync : Placed(s)'
  BY <1>1, <1>2 DEF Placed, InPass, OneShot
<1>6. \A s \in Sync : Told(s)'
  BY <1>1, <1>2 DEF Told, OneShot
<1>7. InTurn'
  BY <1>1, <1>2 DEF InTurn, OneShot, Running
<1>8. Collected'
  BY <1>1 DEF Collected
<1> QED
  BY <1>3, <1>4, <1>5, <1>6, <1>7, <1>8 DEF IInv

LEMMA KilledKeeps ==
  ASSUME IInv, Killed
  PROVE  IInv'
<1>1. Exits("killed") /\ UNCHANGED <<command, written>> /\ deaf' \in BOOLEAN
  BY DEF Killed, IInv, Supervised
<1>2. command = "dry" => ~written'
  BY <1>1, NotWritten
<1>3. ExitTellsTruth'
  BY <1>1, <1>2 DEF ExitTellsTruth, Exits
<1> QED
  BY <1>1, <1>3, ExitKeeps DEF Killed

\* All are through, and what this drain has collected tells of each, but for those lost.
LEMMA FinishKeeps ==
  ASSUME IInv, Finish
  PROVE  IInv'
<1> DEFINE status == IF \E s \in results : outcome[s] = "error" THEN "error" ELSE "ok"
<1>1. /\ main \in {"arming", "racing", "draining"} /\ (\A s \in Sync : stage[s] = "joined")
      /\ main' = "exited" /\ exit' = status
      /\ UNCHANGED <<command, cancelled, lost, deaf, stage, outcome, failing, written>>
  BY DEF Finish, Exits, passVars
<1>2. /\ Supervised /\ Typed /\ Collected /\ command = "watch" /\ results \subseteq Sync
      /\ deaf' \in BOOLEAN
  BY <1>1 DEF IInv, Supervised, OneShot
<1>3. \A s \in Sync : s \in results \cup lost /\ cancelled
  BY <1>1, <1>2 DEF Collected
<1>4. status = "ok" => \A s \in Sync : outcome[s] = "ok" \/ Untold(s)
  <2> SUFFICES ASSUME status = "ok", NEW s \in Sync, outcome[s] # "ok", outcome[s] # "stopped"
               PROVE  Untold(s)
    BY <1>2 DEF Untold
  <2>1. outcome[s] # "none"
    BY <1>1 DEF IInv, Told, Out
  <2>2. outcome[s] = "error"
    BY <1>2, <2>1 DEF Typed, Outcomes
  <2> QED
    BY <1>2, <1>3, <2>2 DEF Untold
<1>5. status = "error" => \E s \in Sync : outcome[s] = "error"
  BY <1>2
<1>6. status \in {"ok", "error", "killed"} /\ Exits(status)
  BY <1>1 DEF Exits
<1> HIDE DEF status
<1>7. ExitTellsTruth'
  BY <1>1, <1>2, <1>4, <1>5 DEF ExitTellsTruth, Untold
<1> QED
  BY <1>2, <1>6, <1>7, ExitKeeps DEF Finish

LEMMA SignalKeeps ==
  ASSUME IInv, Signal
  PROVE  IInv'
<1>1. /\ main = "racing" /\ main' = "draining" /\ cancelled' = TRUE /\ results' = {} /\ lost' = results
      /\ UNCHANGED <<command, exit, deaf, stage, outcome, left, failing, retries, pending, grace, call,
                     attempt, link, written>>
  BY DEF Signal, passVars, queueVars, linkVars
<1>2. Supervised /\ Typed /\ (\A s \in Sync : Placed(s) /\ Told(s)) /\ InTurn /\ Collected
  BY DEF IInv
<1>3. Supervised'
  BY <1>1, <1>2 DEF Supervised, Running, OneShot
<1>4. Typed'
  BY <1>1, <1>2 DEF Typed
<1>5. \A s \in Sync : Placed(s)'
  BY <1>1, <1>2 DEF Placed, InPass, OneShot
<1>6. \A s \in Sync : Told(s)'
  BY <1>1, <1>2 DEF Told, OneShot
<1>7. InTurn'
  BY <1>1, <1>2 DEF InTurn, OneShot, Supervised
<1>8. Collected'
  BY <1>1, <1>2 DEF Collected
<1>9. ExitTellsTruth'
  BY <1>1, <1>2, NotWritten DEF ExitTellsTruth, Supervised, Running
<1> QED
  BY <1>3, <1>4, <1>5, <1>6, <1>7, <1>8, <1>9 DEF IInv

\* What a sync that is through is when it is joined.
LEMMA JoinedInOrder ==
  ASSUME IInv, NEW s \in Sync, stage[s] = "ended", stage' = [stage EXCEPT ![s] = "joined"],
         UNCHANGED <<command, outcome, passVars, queueVars, linkVars>>,
         \/ ~OneShot /\ main \in {"arming", "racing", "draining"} /\ main' = main
         \/ OneShot /\ main' \in {"opening", "exited"}
  PROVE  /\ Typed' /\ (\A t \in Sync : Placed(t)' /\ Told(t)')
         /\ stage'[s] = "joined" /\ \A t \in Sync \ {s} : stage'[t] = stage[t]
<1>1. /\ UNCHANGED <<command, outcome, left, failing, retries, pending, grace, call, attempt, link>>
      /\ Typed /\ stage \in [Sync -> Stages] /\ "joined" \in Stages
      /\ \A t \in Sync : Placed(t) /\ Told(t)
  BY DEF IInv, passVars, queueVars, linkVars, Typed, Stages
<1>2. stage'[s] = "joined" /\ \A t \in Sync \ {s} : stage'[t] = stage[t]
  BY <1>1
<1>3. stage' \in [Sync -> Stages]
  BY <1>1
<1>4. Typed'
  BY <1>1, <1>3 DEF Typed
<1>5. ASSUME NEW t \in Sync
      PROVE  Told(t)'
  BY <1>1, <1>2 DEF Told, OneShot, Out
<1>6. ASSUME NEW t \in Sync
      PROVE  Placed(t)'
  BY <1>1, <1>2 DEF Placed, InPass, OneShot, Out
<1> QED
  BY <1>2, <1>4, <1>5, <1>6

LEMMA CollectKeeps ==
  ASSUME IInv, NEW s \in Sync, Collect(s)
  PROVE  IInv'
<1>1. /\ main \in {"arming", "racing", "draining"} /\ main' = main
      /\ stage[s] = "ended" /\ stage' = [stage EXCEPT ![s] = "joined"]
      /\ results' = results \cup {s} /\ cancelled' = TRUE
      /\ UNCHANGED <<command, exit, lost, deaf, outcome, passVars, queueVars, linkVars, written>>
  BY DEF Collect
<1>2. Supervised /\ Collected /\ ~OneShot
  BY <1>1 DEF IInv, Supervised
<1>3. /\ Typed' /\ (\A t \in Sync : Placed(t)' /\ Told(t)')
      /\ stage'[s] = "joined" /\ \A t \in Sync \ {s} : stage'[t] = stage[t]
  BY <1>1, <1>2, JoinedInOrder
<1>4. Supervised'
  BY <1>1, <1>2 DEF Supervised, Running, OneShot
<1>5. InTurn'
  BY <1>1, <1>2 DEF InTurn, OneShot
<1>6. Collected'
  BY <1>1, <1>2, <1>3 DEF Collected
<1>7. ExitTellsTruth'
  BY <1>1, <1>2, NotWritten DEF ExitTellsTruth, Supervised, Running
<1> QED
  BY <1>3, <1>4, <1>5, <1>6, <1>7 DEF IInv

\* The next is taken up after one that is through without an error, and the last one is
\* through when all are.
LEMMA NextSyncKeeps ==
  ASSUME IInv, NEW s \in Sync, NextSync(s)
  PROVE  IInv'
<1>1. /\ main = "running" /\ stage[s] = "ended" /\ stage' = [stage EXCEPT ![s] = "joined"]
      /\ \/ outcome[s] = "error" /\ main' = "exited" /\ exit' = "error"
         \/ outcome[s] # "error" /\ s < Syncs /\ main' = "opening" /\ exit' = exit
         \/ outcome[s] # "error" /\ s = Syncs /\ main' = "exited" /\ exit' = "ok"
      /\ UNCHANGED <<command, cancelled, results, lost, deaf, outcome, passVars, queueVars, linkVars,
                     written>>
  <2>1. s < Syncs \/ s = Syncs
    BY SyncsAssumption DEF Sync
  <2>2. CASE outcome[s] = "error"
    BY <2>2 DEF NextSync, Exits
  <2>3. CASE outcome[s] # "error" /\ s < Syncs
    BY <2>3, SyncsAssumption DEF NextSync, Exits, Sync
  <2>4. CASE outcome[s] # "error" /\ s = Syncs
    BY <2>4, SyncsAssumption DEF NextSync, Exits, Sync
  <2> QED
    BY <2>1, <2>2, <2>3, <2>4
<1>2. Supervised /\ OneShot /\ InTurn /\ Running /\ exit = "none"
  BY <1>1 DEF IInv, Supervised, Running
<1>3. /\ Typed' /\ (\A t \in Sync : Placed(t)' /\ Told(t)')
      /\ stage'[s] = "joined" /\ \A t \in Sync \ {s} : stage'[t] = stage[t]
  BY <1>1, <1>2, JoinedInOrder
<1>4. /\ \A t \in Sync : t < s => stage[t] = "joined"
      /\ \A t \in Sync : s < t => stage[t] = "unopened"
      /\ \A t \in Sync : stage[t] = "joined" => outcome[t] # "error"
  BY <1>1, <1>2 DEF InTurn
<1>5. \A t \in Sync : t < s \/ t = s \/ s < t
  BY SyncsAssumption DEF Sync
<1>6. Supervised'
  BY <1>1, <1>2 DEF Supervised, Running, OneShot
<1>7. InTurn'
  <2>1. \A a, b \in Sync : b < a /\ stage'[a] # "unopened" => stage'[b] = "joined"
    BY <1>1, <1>2, <1>3, <1>4, <1>5 DEF InTurn
  <2>2. main' = "opening" => \A a \in Sync : stage'[a] \in {"unopened", "joined"}
    BY <1>3, <1>4, <1>5
  <2>3. Running' => \A a \in Sync : stage'[a] = "joined" => outcome'[a] # "error"
    BY <1>1, <1>3, <1>4 DEF Running
  <2> QED
    BY <1>1, <2>1, <2>2, <2>3 DEF InTurn, OneShot
<1>8. Collected'
  BY <1>1 DEF Collected, IInv
<1>9. ExitTellsTruth'
  <2>1. exit' = "error" => \E t \in Sync : outcome'[t] = "error"
    BY <1>1, <1>2
  <2>2. ASSUME exit' = "ok", NEW t \in Sync
        PROVE  stage'[t] = "joined" /\ outcome'[t] = "ok" /\ ~failing'[t] /\ command' # "watch"
    <3>1. outcome[s] # "error" /\ s = Syncs /\ failing' = failing /\ outcome' = outcome
      BY <1>1, <1>2, <2>2 DEF passVars
    <3>2. t < s \/ t = s
      BY <3>1, SyncsAssumption DEF Sync
    <3>3. stage[t] \in Out /\ stage'[t] = "joined" /\ outcome[t] # "error"
      BY <1>1, <1>3, <1>4, <3>1, <3>2 DEF Out
    <3>4. ~failing[t] /\ outcome[t] = "ok"
      BY <1>2, <3>3 DEF IInv, Told, Typed, Outcomes
    <3> QED
      BY <1>1, <1>2, <3>1, <3>3, <3>4 DEF OneShot
  <2>3. command' = "dry" => ~written'
    BY <1>1, NotWritten
  <2> QED
    BY <2>1, <2>2, <2>3 DEF ExitTellsTruth
<1> QED
  BY <1>3, <1>6, <1>7, <1>8, <1>9 DEF IInv

LEMMA SpawnKeeps ==
  ASSUME IInv, Spawn
  PROVE  IInv'
<1>1. /\ main = "opening" /\ main' = "arming" /\ command = "watch"
      /\ stage' = [s \in Sync |-> "startup"]
      /\ left' = [s \in Sync |-> Index] /\ call' = [s \in Sync |-> "sent"]
      /\ UNCHANGED <<command, cancelled, results, exit, lost, deaf, outcome, failing, retries, pending,
                     grace, attempt, link, written>>
  BY DEF Spawn, queueVars
<1>2. Supervised /\ Typed /\ Running /\ exit = "none" /\ ~OneShot
  BY <1>1 DEF IInv, Supervised, Running, OneShot
<1>3. Supervised'
  BY <1>1, <1>2 DEF Supervised, Running, OneShot
<1>4. "startup" \in Stages /\ Index \in Lefts /\ "sent" \in Calls
  BY DaemonBounds DEF Stages, Lefts, Calls, Index
<1>5. Typed'
  BY <1>1, <1>2, <1>4 DEF Typed
<1>6. \A s \in Sync : Placed(s)' /\ Told(s)'
  <2>1. \A s \in Sync : Placed(s)'
    BY <1>1 DEF Placed, InPass, OneShot
  <2>2. \A s \in Sync : Told(s)'
    BY <1>1 DEF Told, Out, OneShot
  <2> QED
    BY <2>1, <2>2
<1>7. lost' = {}
  BY <1>1 DEF IInv, Collected
<1>8. InTurn' /\ Collected'
  BY <1>1, <1>7 DEF InTurn, OneShot, Collected
<1>9. ExitTellsTruth'
  BY <1>1, <1>2 DEF ExitTellsTruth
<1> QED
  BY <1>3, <1>5, <1>6, <1>8, <1>9 DEF IInv

LEMMA ArmKeeps ==
  ASSUME IInv, Arm
  PROVE  IInv'
<1>1. /\ main = "arming"
      /\ UNCHANGED <<command, cancelled, results, lost, stage, outcome, passVars, queueVars,
                     linkVars, written>>
  BY DEF Arm
<1>2. CASE Exits("error") /\ deaf' = TRUE
  <2>1. ExitTellsTruth'
    BY <1>1, <1>2, NotWritten DEF ExitTellsTruth, Exits
  <2>2. deaf' \in BOOLEAN
    BY <1>2
  <2> QED
    BY <1>1, <1>2, <2>1, <2>2, ExitKeeps
<1>3. CASE main' = "racing" /\ UNCHANGED <<exit, deaf>>
  <2>1. UNCHANGED <<command, cancelled, results, exit, lost, deaf, stage, outcome, left, failing,
                    retries, pending, grace, call, attempt, link, written>>
    BY <1>1, <1>3 DEF passVars, queueVars, linkVars
  <2>2. Supervised /\ Typed /\ (\A s \in Sync : Placed(s) /\ Told(s)) /\ InTurn /\ Collected
    BY DEF IInv
  <2>3. Supervised' /\ ~OneShot
    BY <1>1, <1>3, <2>1, <2>2 DEF Supervised, Running, OneShot
  <2>4. Typed'
    BY <2>1, <2>2 DEF Typed
  <2>5. ASSUME NEW s \in Sync
        PROVE  Placed(s)' /\ Told(s)'
    <3>1. Placed(s)'
      BY <1>1, <1>3, <2>1, <2>2, <2>3 DEF Placed, InPass, OneShot
    <3>2. Told(s)'
      BY <2>1, <2>2 DEF Told, OneShot
    <3> QED
      BY <3>1, <3>2
  <2>6. InTurn' /\ Collected'
    BY <1>1, <1>3, <2>1, <2>2, <2>3 DEF InTurn, Collected, OneShot
  <2>7. ExitTellsTruth'
    BY <1>1, <2>1, <2>2, NotWritten DEF ExitTellsTruth, Supervised, Running
  <2> QED
    BY <2>3, <2>4, <2>5, <2>6, <2>7 DEF IInv
<1> QED
  BY <1>2, <1>3 DEF Arm

LEMMA OpenKeeps ==
  ASSUME IInv, NEW s \in Sync, Open(s)
  PROVE  IInv'
<1>1. /\ main = "opening" /\ stage[s] = "unopened" /\ (\A t \in 1..(s - 1) : stage[t] # "unopened")
      /\ UNCHANGED <<command, cancelled, results, lost, deaf, outcome, retries, pending, grace, written>>
  BY DEF Open, Opened, queueVars
<1>2. Supervised /\ Typed /\ (\A t \in Sync : Placed(t) /\ Told(t)) /\ InTurn /\ Collected /\ Running
  BY <1>1 DEF IInv, Running
<1>3. exit = "none" /\ lost = {}
  BY <1>1, <1>2 DEF Supervised, Collected
<1>4. /\ stage \in [Sync -> Stages] /\ link \in [Sync -> Flags]
      /\ "open" \in Stages /\ "once" \in Stages /\ TRUE \in Flags
  BY <1>2 DEF Typed, Stages, Flags
<1>5. CASE Exits("error") /\ UNCHANGED <<stage, passVars, linkVars>>
  <2>1. ExitTellsTruth'
    <3>1. exit' = "error" /\ stage'[s] = "unopened" /\ (command' = "dry" => ~written')
      BY <1>1, <1>5, NotWritten DEF Exits
    <3> QED
      BY <3>1 DEF ExitTellsTruth
  <2>2. /\ UNCHANGED <<command, cancelled, results, lost, stage, outcome, passVars, queueVars,
                       linkVars, written>>
        /\ deaf' \in BOOLEAN
    BY <1>1, <1>2, <1>5 DEF queueVars, Supervised
  <2> QED
    BY <1>5, <2>1, <2>2, ExitKeeps
<1>6. CASE /\ link' = [link EXCEPT ![s] = TRUE]
           /\ stage' = [stage EXCEPT ![s] = "open"]
           /\ command = "watch" /\ UNCHANGED <<main, exit, passVars, call, attempt>>
  <2>1. UNCHANGED <<left, failing>>
    BY <1>6 DEF passVars
  <2>2. link' \in [Sync -> Flags]
    BY <1>4, <1>6
  <2>3. stage' \in [Sync -> Stages] /\ stage'[s] = "open" /\ \A t \in Sync \ {s} : stage'[t] = stage[t]
    BY <1>4, <1>6
  <2>4. Supervised' /\ ~OneShot
    BY <1>1, <1>2, <1>6 DEF Supervised, Running, OneShot
  <2>5. Typed'
    BY <1>1, <1>2, <1>6, <2>1, <2>2, <2>3 DEF Typed
  <2>6. ASSUME NEW t \in Sync
        PROVE  Placed(t)' /\ Told(t)'
    <3>1. command' = command /\ main' = "opening" /\ call' = call /\ outcome' = outcome
      BY <1>1, <1>6
    <3>2. Placed(t)'
      BY <1>1, <1>2, <2>3, <2>4, <3>1 DEF Placed, InPass, OneShot
    <3>3. Told(t)'
      BY <1>2, <2>3, <2>4, <3>1 DEF Told, Out, OneShot
    <3> QED
      BY <3>2, <3>3
  <2>7. InTurn'
    BY <1>6, <1>1 DEF InTurn, OneShot
  <2>8. Collected'
    BY <1>1, <1>3, <1>6 DEF Collected
  <2>9. ExitTellsTruth'
    BY <1>1, <1>3, <1>6 DEF ExitTellsTruth
  <2> QED
    BY <2>4, <2>5, <2>6, <2>7, <2>8, <2>9 DEF IInv
<1>7. CASE /\ link' = [link EXCEPT ![s] = TRUE]
           /\ command # "watch" /\ StartsPass(s, "once") /\ main' = "running" /\ exit' = exit
  <2>1. /\ Sets(stage, stage', s, Stages) /\ stage'[s] = "once"
        /\ Sets(left, left', s, Lefts) /\ left'[s] = Index
        /\ Sets(failing, failing', s, Flags) /\ ~failing'[s]
        /\ Sets(call, call', s, Calls) /\ call'[s] = "sent"
        /\ Sets(attempt, attempt', s, Attempts)
    BY <1>2, <1>4, <1>7, PassStarted
  <2>2. /\ left \in [Sync -> Lefts] /\ failing \in [Sync -> Flags]
        /\ call \in [Sync -> Calls] /\ attempt \in [Sync -> Attempts]
    BY <1>2 DEF Typed
  <2>3. stage' \in [Sync -> Stages] /\ ElseSame(stage, stage', s)
    <3>1. stage \in [Sync -> Stages] /\ Sets(stage, stage', s, Stages)
      BY <1>4, <2>1
    <3> QED
      BY <3>1, OnlyThere
  <2>4. left' \in [Sync -> Lefts] /\ ElseSame(left, left', s)
    <3>1. left \in [Sync -> Lefts] /\ Sets(left, left', s, Lefts)
      BY <2>1, <2>2
    <3> QED
      BY <3>1, OnlyThere
  <2>5. failing' \in [Sync -> Flags] /\ ElseSame(failing, failing', s)
    <3>1. failing \in [Sync -> Flags] /\ Sets(failing, failing', s, Flags)
      BY <2>1, <2>2
    <3> QED
      BY <3>1, OnlyThere
  <2>6. call' \in [Sync -> Calls] /\ ElseSame(call, call', s)
    <3>1. call \in [Sync -> Calls] /\ Sets(call, call', s, Calls)
      BY <2>1, <2>2
    <3> QED
      BY <3>1, OnlyThere
  <2>7. attempt' \in [Sync -> Attempts]
    <3>1. attempt \in [Sync -> Attempts] /\ Sets(attempt, attempt', s, Attempts)
      BY <2>1, <2>2
    <3> QED
      BY <3>1, OnlyThere
  <2>8. link' \in [Sync -> Flags]
    BY <1>4, <1>7
  <2>9. Supervised' /\ OneShot
    BY <1>1, <1>2, <1>3, <1>7 DEF Supervised, Running, OneShot
  <2>10. Typed'
    BY <1>1, <1>2, <2>3, <2>4, <2>5, <2>6, <2>7, <2>8 DEF Typed
  <2>11. ASSUME NEW t \in Sync
         PROVE  Placed(t)' /\ Told(t)'
    <3>1. CASE t = s
      <4>1. Placed(t)'
        BY <1>1, <1>7, <2>1, <2>9, <3>1 DEF Placed, InPass, OneShot
      <4>2. Told(t)'
        BY <1>1, <1>2, <2>1, <2>9, <3>1 DEF Told, Out, OneShot
      <4> QED
        BY <4>1, <4>2
    <3>2. CASE t # s
      <4>1. Placed(t)'
        BY <1>1, <1>2, <1>7, <2>3, <2>6, <2>9, <3>2 DEF Placed, InPass, OneShot, ElseSame
      <4>2. Told(t)'
        BY <1>1, <1>2, <2>3, <2>4, <2>5, <3>2 DEF Told, OneShot, ElseSame
      <4> QED
        BY <4>1, <4>2
    <3> QED
      BY <3>1, <3>2
  <2>12. InTurn'
    <3>1. \A t \in Sync : t < s => stage[t] = "joined"
      BY <1>1, <1>2, <2>9 DEF InTurn, Sync
    <3>2. \A a, b \in Sync : b < a /\ stage'[a] # "unopened" => stage'[b] = "joined"
      <4>1. ASSUME NEW a \in Sync, NEW b \in Sync, b < a, stage'[a] # "unopened"
            PROVE  stage'[b] = "joined"
        <5>1. CASE a = s
          BY <2>3, <3>1, <4>1, <5>1 DEF Sync, ElseSame
        <5>2. CASE a # s
          <6>1. stage[b] = "joined"
            BY <1>2, <2>3, <2>9, <4>1, <5>2 DEF InTurn, ElseSame
          <6> QED
            BY <1>1, <2>3, <6>1 DEF ElseSame
        <5> QED
          BY <5>1, <5>2
      <4> QED
        BY <4>1
    <3>3. \A t \in Sync : stage'[t] = "joined" => outcome'[t] # "error"
      BY <1>1, <1>2, <2>1, <2>3, <2>9 DEF InTurn, ElseSame
    <3> QED
      BY <1>7, <3>2, <3>3 DEF InTurn
  <2>13. Collected'
    BY <1>1, <1>3, <1>7 DEF Collected
  <2>14. ExitTellsTruth'
    BY <1>1, <1>3, <1>7, NotWritten DEF ExitTellsTruth
  <2> QED
    BY <2>9, <2>10, <2>11, <2>12, <2>13, <2>14 DEF IInv
<1> QED
  BY <1>5, <1>6, <1>7 DEF Open

-----------------------------------------------------------------------------

LEMMA StutterKeeps == IInv /\ UNCHANGED vars => IInv'
<1> SUFFICES ASSUME IInv, UNCHANGED vars
             PROVE  IInv'
  OBVIOUS
<1>1. UNCHANGED <<command, main, cancelled, results, exit, lost, deaf, stage, outcome, left, failing,
                  retries, pending, grace, call, attempt, link, written>>
  BY DEF vars, supervisor, passVars, queueVars, linkVars
<1>2. Supervised /\ Typed /\ (\A s \in Sync : Placed(s) /\ Told(s)) /\ InTurn /\ Collected
  BY DEF IInv
<1>3. Supervised' /\ Typed'
  BY <1>1, <1>2 DEF Supervised, Typed, Running, OneShot
<1>4. \A s \in Sync : Placed(s)' /\ Told(s)'
  BY <1>1, <1>2 DEF Placed, Told, InPass, OneShot
<1>5. InTurn' /\ Collected'
  BY <1>1, <1>2 DEF InTurn, Collected, OneShot, Running
<1>6. ExitTellsTruth'
  BY <1>1 DEF IInv, ExitTellsTruth, Untold
<1> QED
  BY <1>3, <1>4, <1>5, <1>6 DEF IInv

LEMMA Inductive == Spec => []IInv
<1>1. IInv /\ [Next]_vars => IInv'
  <2> SUFFICES ASSUME IInv, [Next]_vars
               PROVE  IInv'
    OBVIOUS
  <2>1. CASE UNCHANGED vars
    BY <2>1, StutterKeeps
  <2>2. CASE Supervise
    <3>1. CASE Spawn
      BY <3>1, SpawnKeeps
    <3>2. CASE Arm \/ Finish
      BY <3>2, ArmKeeps, FinishKeeps
    <3>3. ASSUME NEW s \in Sync, Open(s) \/ NextSync(s) \/ Collect(s)
          PROVE  IInv'
      BY <3>3, OpenKeeps, NextSyncKeeps, CollectKeeps
    <3> QED
      BY <2>2, <3>1, <3>2, <3>3 DEF Supervise
  <2>3. CASE Signal
    BY <2>3, SignalKeeps
  <2>4. CASE Killed
    BY <2>4, KilledKeeps
  <2>5. ASSUME NEW s \in Sync, SyncStep(s)
        PROVE  IInv'
    BY <2>5, AnsweredKeeps, LinkLostKeeps, FoundDeadKeeps, RestoreAgainKeeps, WaitKeeps, ReopenedKeeps, TurnKeeps,
       FlushKeeps, CloseKeeps DEF SyncStep
  <2>6. ASSUME NEW s \in Sync, Observe(s) \/ WatcherStops(s) \/ GraceElapses(s) \/ Panic(s)
        PROVE  IInv'
    BY <2>6, ObserveKeeps, WatcherStopsKeeps, GraceElapsesKeeps, PanicKeeps
  <2> QED
    BY <2>1, <2>2, <2>3, <2>4, <2>5, <2>6 DEF Next
<1> QED
  BY <1>1, Initially, PTL DEF Spec

\* Every variable of the process keeps its type, a request is out exactly in a pass, no
\* task runs before all syncs are open, and restore attempts no more than its command
\* allows, for any number of syncs and attempts.
THEOREM DaemonTypes == Spec => []TypeOK
BY Inductive, TypesImplied, PTL

\* Status 0 is only given when every selected sync ran to its end and none came to an
\* error, a failed action or a panic, but for those a signal made the drain forget; status
\* 1 only when one did or could not be opened; and a dry run never writes.
THEOREM DaemonTellsTruth == Spec => []ExitTellsTruth
<1>1. IInv => ExitTellsTruth
  BY DEF IInv
<1> QED
  BY <1>1, Inductive, PTL
=============================================================================
