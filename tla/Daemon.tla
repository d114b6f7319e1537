------------------------------- MODULE Daemon -------------------------------
(***************************************************************************)
(* The process: the commands sync, sync --dry-run and watch over several   *)
(* syncs, each of which may have its target behind a link.  All are opened *)
(* and, for watch, run each in a task of its own, until a signal comes or  *)
(* one of them ends, which ends the others; what they came to is the exit  *)
(* status.  A link that is lost is rebuilt for as long as the command      *)
(* allows, which a shutdown cuts short; it may also never come back.       *)
(*                                                                         *)
(* A pass is a request for the target's index and one for each action.     *)
(* What is in it is Pass's concern, the retries Syncer's, how a connection *)
(* is opened Ship's, and what happens on it Transfer's.                    *)
(*                                                                         *)
(* Not variables of the program: "written", an action has been applied;    *)
(* "lost", the syncs whose end was forgotten when a signal came; "deaf",   *)
(* watch has ended because no signal could be handled.                     *)
(***************************************************************************)
EXTENDS Integers

CONSTANTS
  Syncs,        \* how many the configuration selects
  OnceAttempts, \* ONCE_RECONNECT_ATTEMPTS
  MaxActions,   \* bound: actions of a pass
  MaxFaults     \* bound: requests answered with an error, tasks that panic, and signals
                \* that cannot be handled

ASSUME SyncsAssumption == Syncs \in Nat \ {0} /\ OnceAttempts \in Nat
ASSUME DaemonBounds == {MaxActions, MaxFaults} \subseteq Nat

VARIABLES
  command,
  main,      \* where the supervisor stands
  cancelled, \* the token they all share
  results,   \* those that the drain under way has collected
  exit,      \* the status
  stage,     \* for each sync, where it stands
  outcome,   \* what it came to: "stopped" is a watcher that stopped, which is no error
  left,      \* actions left of its pass; or the index is asked for, which is Index
  failing,   \* actions of its pass have failed
  retries,   \* it has paths to retry
  pending,   \* its watcher has seen changes no batch has named
  grace,     \* its shutdown grace has elapsed
  call,      \* where its request stands
  attempt,   \* restore's count
  link,      \* its connection is alive
  written, lost, deaf,
  faults

Sync == 1..Syncs
Index == -1

supervisor == <<main, cancelled, results, exit, lost, deaf>>
passVars == <<left, failing>>
queueVars == <<retries, pending, grace>>
linkVars == <<call, attempt, link>>
vars == <<command, supervisor, stage, outcome, passVars, queueVars, linkVars, written, faults>>

Running == main # "exited"
Fault == faults < MaxFaults /\ faults' = faults + 1

-----------------------------------------------------------------------------
(* What a sync goes through *)

InPass(s) == stage[s] \in {"startup", "batch", "flush", "final", "once"}

\* plan_for begins with a request, for the index.
StartsPass(s, at) ==
  /\ stage' = [stage EXCEPT ![s] = at]
  /\ left' = [left EXCEPT ![s] = Index] /\ failing' = [failing EXCEPT ![s] = FALSE]
  /\ call' = [call EXCEPT ![s] = "sent"] /\ attempt' = [attempt EXCEPT ![s] = 0]

Returns(s, at, result) ==
  stage' = [stage EXCEPT ![s] = at] /\ outcome' = [outcome EXCEPT ![s] = result]

\* Variant: what failed is printed, and that is all.
ReportedOnly(s, result) == Returns(s, "closing", "ok")

\* sync_once: a plan that cannot be made is returned at once, and actions that
\* failed once the session is closed.
OnceEnds(s, result) ==
  CASE result = "failed"   -> Returns(s, "ended", "error")
    [] result = "partial"  -> Returns(s, "closing", "error")
    [] result = "complete" -> Returns(s, "closing", "ok")

\* The startup pass has to have been possible; any later one is logged.
PassEnds(s, result) ==
  /\ call' = [call EXCEPT ![s] = "none"] /\ attempt' = [attempt EXCEPT ![s] = 0]
  /\ \/ /\ stage[s] = "startup" /\ result = "failed"
        /\ Returns(s, "closing", "error") /\ UNCHANGED retries
     \/ /\ stage[s] = "startup" /\ result # "failed"
        /\ stage' = [stage EXCEPT ![s] = "watching"]
        /\ retries' = [retries EXCEPT ![s] = (result = "partial")]
        /\ UNCHANGED outcome
     \/ /\ stage[s] \in {"batch", "flush"}
        /\ stage' = [stage EXCEPT ![s] = IF @ = "batch" THEN "watching" ELSE "flushing"]
        \* A rescan of one directory keeps those outside it.
        /\ \E kept \in {FALSE, retries[s]} :
             retries' = [retries EXCEPT ![s] = kept \/ result = "partial"]
        /\ UNCHANGED outcome
     \/ /\ stage[s] = "final"
        /\ stage' = [stage EXCEPT ![s] = "closing"]
        /\ UNCHANGED <<outcome, retries>>
     \/ /\ stage[s] = "once"
        /\ OnceEnds(s, result) /\ UNCHANGED retries

\* A request has returned.  An index that fails fails the pass; an action that does is
\* reported, and the next one is taken up.
RequestReturns(s, ok) ==
  \/ /\ left[s] = Index /\ ~ok
     /\ PassEnds(s, "failed") /\ UNCHANGED <<passVars, written>>
  \/ /\ left[s] = Index /\ ok
     /\ \E planned \in 0..MaxActions :
          IF planned = 0 \/ command = "dry"
          THEN PassEnds(s, "complete") /\ UNCHANGED passVars
          ELSE /\ left' = [left EXCEPT ![s] = planned]
               /\ call' = [call EXCEPT ![s] = "sent"] /\ attempt' = [attempt EXCEPT ![s] = 0]
               /\ UNCHANGED <<stage, outcome, retries, failing>>
     /\ UNCHANGED written
  \/ /\ left[s] # Index
     /\ failing' = [failing EXCEPT ![s] = @ \/ ~ok] /\ written' = (written \/ ok)
     /\ left' = [left EXCEPT ![s] = @ - 1]
     /\ IF left[s] > 1
        THEN /\ call' = [call EXCEPT ![s] = "sent"] /\ attempt' = [attempt EXCEPT ![s] = 0]
             /\ UNCHANGED <<stage, outcome, retries>>
        ELSE PassEnds(s, IF failing'[s] THEN "partial" ELSE "complete")

Answered(s) ==
  /\ Running /\ call[s] = "sent" /\ link[s]
  /\ \/ RequestReturns(s, TRUE) /\ UNCHANGED faults
     \/ RequestReturns(s, FALSE) /\ Fault
  /\ UNCHANGED <<command, supervisor, pending, grace, link>>

-----------------------------------------------------------------------------
(* The link *)

\* Variant: one attempt more than the policy has.
SpentOneLate(s) ==
  \/ command = "dry"
  \/ command = "sync" /\ attempt[s] > OnceAttempts

\* Mode::reconnect: watch retries for ever, and a dry run not at all.
Spent(s) ==
  \/ command = "dry"
  \/ command = "sync" /\ attempt[s] >= OnceAttempts

\* How many attempts watch has made makes no difference but to the wait.
Counted(n) == IF command = "watch" THEN 0 ELSE n + 1

\* restore gives up: the request fails, and the link stays as it is.
GivesUp(s) ==
  /\ RequestReturns(s, FALSE)
  /\ UNCHANGED <<command, supervisor, pending, grace, faults>>

\* The transport fails, and the request with it.
TransportFails(s) ==
  /\ Running /\ call[s] = "sent"
  /\ link' = [link EXCEPT ![s] = FALSE]
  /\ call' = [call EXCEPT ![s] = "restoring"]
  /\ UNCHANGED <<command, supervisor, stage, outcome, passVars, queueVars, attempt, written, faults>>

\* Under the request, as often as may be: each rebuilding begins to count anew, and
\* request goes round without a bound.
LinkLost(s) == link[s] /\ TransportFails(s)

\* Under an earlier one, and nobody has rebuilt it.
FoundDead(s) == ~link[s] /\ TransportFails(s)

\* restore, at the head of its loop.
RestoreAgain(s) ==
  /\ Running /\ call[s] = "restoring"
  /\ \/ Spent(s) /\ GivesUp(s) /\ UNCHANGED link
     \/ /\ ~Spent(s)
        /\ call' = [call EXCEPT ![s] = "waiting"]
        /\ attempt' = [attempt EXCEPT ![s] = Counted(@)]
        /\ UNCHANGED <<command, supervisor, stage, outcome, passVars, queueVars, link, written,
                       faults>>

\* Variant: the backoff is slept out whatever happens.
AlwaysSlept == FALSE
\* The wait is over at once when the token is cancelled.
WaitCut == cancelled

Wait(s) ==
  /\ Running /\ call[s] = "waiting"
  /\ \/ WaitCut /\ GivesUp(s) /\ UNCHANGED link
     \/ /\ ~WaitCut
        /\ call' = [call EXCEPT ![s] = "reopening"]
        /\ UNCHANGED <<command, supervisor, stage, outcome, passVars, queueVars, attempt, link,
                       written, faults>>

\* The attempt itself is not cut short, and what was in flight is issued again.
Reopened(s) ==
  /\ Running /\ call[s] = "reopening"
  /\ \E ok \in BOOLEAN :
       /\ link' = [link EXCEPT ![s] = ok]
       /\ call' = [call EXCEPT ![s] = IF ok THEN "sent" ELSE "restoring"]
       /\ attempt' = [attempt EXCEPT ![s] = IF ok THEN 0 ELSE @]
  /\ UNCHANGED <<command, supervisor, stage, outcome, passVars, queueVars, written, faults>>

-----------------------------------------------------------------------------
(* run, in the task of sync s *)

Observe(s) ==
  /\ Running /\ stage[s] \in {"startup", "watching", "batch", "flushing", "flush"}
  /\ outcome[s] # "stopped"
  /\ pending' = [pending EXCEPT ![s] = TRUE]
  /\ UNCHANGED <<command, supervisor, stage, outcome, passVars, retries, grace, linkVars,
                 written, faults>>

\* The next turn of the loop: cancellation comes first.
Turn(s) ==
  /\ Running /\ stage[s] = "watching"
  /\ \/ /\ cancelled
        /\ stage' = [stage EXCEPT ![s] = "flushing"]
        /\ UNCHANGED <<passVars, pending, call, attempt>>
     \/ /\ ~cancelled /\ pending[s]
        /\ StartsPass(s, "batch")
        /\ pending' = [pending EXCEPT ![s] = FALSE]
  /\ UNCHANGED <<command, supervisor, outcome, retries, grace, link, written, faults>>

\* next_batch has emitted what was seen and returns nothing more, and run what it returns
\* in any case.
WatcherStops(s) ==
  /\ Running /\ stage[s] = "watching" /\ ~cancelled /\ ~pending[s]
  /\ stage' = [stage EXCEPT ![s] = "flushing"]
  /\ outcome' = [outcome EXCEPT ![s] = "stopped"]
  /\ UNCHANGED <<command, supervisor, passVars, queueVars, linkVars, written, faults>>

\* From the moment flush begins.
GraceElapses(s) ==
  /\ Running /\ stage[s] \in {"flushing", "flush"} /\ ~grace[s]
  /\ grace' = [grace EXCEPT ![s] = TRUE]
  /\ UNCHANGED <<command, supervisor, stage, outcome, passVars, retries, pending, linkVars,
                 written, faults>>

\* What has been observed is applied until the grace has elapsed, which is looked at
\* between batches, and then what is to be retried.
Flush(s) ==
  /\ Running /\ stage[s] = "flushing"
  /\ \/ /\ pending[s] /\ ~grace[s]
        /\ StartsPass(s, "flush")
        /\ pending' = [pending EXCEPT ![s] = FALSE]
     \/ /\ ~pending[s] /\ retries[s]
        /\ StartsPass(s, "final")
        /\ UNCHANGED pending
     \/ /\ IF pending[s] THEN grace[s] ELSE ~retries[s]
        /\ stage' = [stage EXCEPT ![s] = "closing"]
        /\ UNCHANGED <<passVars, pending, call, attempt>>
  /\ outcome' = [outcome EXCEPT ![s] = IF @ = "none" THEN "ok" ELSE @]
  /\ UNCHANGED <<command, supervisor, retries, grace, link, written, faults>>

\* With the task goes its queue.
Dropped(s) ==
  /\ retries' = [retries EXCEPT ![s] = FALSE] /\ pending' = [pending EXCEPT ![s] = FALSE]
  /\ grace' = [grace EXCEPT ![s] = FALSE]
  /\ link' = [link EXCEPT ![s] = FALSE]

\* The session is closed, whatever run came to.
Close(s) ==
  /\ Running /\ stage[s] = "closing"
  /\ stage' = [stage EXCEPT ![s] = "ended"]
  /\ Dropped(s)
  /\ UNCHANGED <<command, supervisor, outcome, passVars, call, attempt, written, faults>>

\* A task that panics leaves nothing but its being gone.
Panic(s) ==
  /\ main \in {"arming", "racing", "draining"} /\ stage[s] \notin {"ended", "joined"} /\ Fault
  /\ Returns(s, "ended", "error")
  /\ call' = [call EXCEPT ![s] = "none"] /\ attempt' = [attempt EXCEPT ![s] = 0]
  /\ Dropped(s)
  /\ UNCHANGED <<command, supervisor, passVars, written>>

-----------------------------------------------------------------------------
(* The supervisor *)

Exits(status) == main' = "exited" /\ exit' = status

Opened(s) == stage[s] # "unopened"

\* The next one to be opened; one that cannot be is the end.
Open(s) ==
  /\ main = "opening" /\ ~Opened(s) /\ \A t \in 1..(s - 1) : Opened(t)
  /\ \/ /\ link' = [link EXCEPT ![s] = TRUE]
        /\ IF command = "watch"
           THEN stage' = [stage EXCEPT ![s] = "open"] /\ UNCHANGED <<main, passVars, call, attempt>>
           ELSE StartsPass(s, "once") /\ main' = "running"
        /\ UNCHANGED exit
     \/ Exits("error") /\ UNCHANGED <<stage, passVars, linkVars>>
  /\ UNCHANGED <<command, cancelled, results, lost, deaf, outcome, queueVars, written, faults>>

\* sync takes up the next when one is through, and none after one that failed.
NextSync(s) ==
  /\ main = "running" /\ stage[s] = "ended"
  /\ stage' = [stage EXCEPT ![s] = "joined"]
  /\ CASE outcome[s] = "error" -> Exits("error")
       [] outcome[s] # "error" /\ s < Syncs -> main' = "opening" /\ UNCHANGED exit
       [] outcome[s] # "error" /\ s = Syncs -> Exits("ok")
  /\ UNCHANGED <<command, cancelled, results, lost, deaf, outcome, passVars, queueVars, linkVars,
                 written, faults>>

\* A task for each, and shutdown_signal and drain are raced, in either order.
Spawn ==
  /\ main = "opening" /\ command = "watch" /\ \A s \in Sync : Opened(s)
  /\ main' = "arming"
  /\ stage' = [s \in Sync |-> "startup"]
  /\ left' = [s \in Sync |-> Index] /\ call' = [s \in Sync |-> "sent"]
  /\ UNCHANGED <<command, cancelled, results, exit, lost, deaf, outcome, failing, queueVars,
                 attempt, link, written, faults>>

\* shutdown_signal, when it is first polled.  Where a handler cannot be installed that is
\* the end, and the tasks go with the set they are in.
Arm ==
  /\ main = "arming"
  /\ \/ main' = "racing" /\ UNCHANGED <<exit, deaf, faults>>
     \/ Fault /\ Exits("error") /\ deaf' = TRUE
  /\ UNCHANGED <<command, cancelled, results, lost, stage, outcome, passVars, queueVars, linkVars,
                 written>>

\* drain: whichever ends first takes the others with it.
Collect(s) ==
  /\ main \in {"arming", "racing", "draining"} /\ stage[s] = "ended"
  /\ stage' = [stage EXCEPT ![s] = "joined"]
  /\ results' = results \cup {s} /\ cancelled' = TRUE
  /\ UNCHANGED <<command, main, exit, lost, deaf, outcome, passVars, queueVars, linkVars, written, faults>>

\* A signal wins the race: with the drain goes what it has collected, and another begins.
Signal ==
  /\ main = "racing"
  /\ main' = "draining" /\ cancelled' = TRUE
  /\ results' = {} /\ lost' = results
  /\ UNCHANGED <<command, exit, deaf, stage, outcome, passVars, queueVars, linkVars, written, faults>>

\* Where nothing catches it yet, or at all, it is the end.
Killed ==
  /\ Running /\ (main \in {"opening", "arming"} \/ command # "watch")
  /\ Exits("killed")
  /\ UNCHANGED <<command, cancelled, results, lost, deaf, stage, outcome, passVars, queueVars, linkVars,
                 written, faults>>

Finish ==
  /\ main \in {"arming", "racing", "draining"} /\ \A s \in Sync : stage[s] = "joined"
  /\ Exits(IF \E s \in results : outcome[s] = "error" THEN "error" ELSE "ok")
  /\ UNCHANGED <<command, cancelled, results, lost, deaf, stage, outcome, passVars, queueVars, linkVars,
                 written, faults>>

-----------------------------------------------------------------------------
Init ==
  /\ command \in {"sync", "dry", "watch"}
  /\ main = "opening" /\ cancelled = FALSE /\ results = {} /\ exit = "none" /\ lost = {} /\ deaf = FALSE
  /\ stage = [s \in Sync |-> "unopened"] /\ outcome = [s \in Sync |-> "none"]
  /\ left = [s \in Sync |-> 0] /\ failing = [s \in Sync |-> FALSE]
  /\ retries = [s \in Sync |-> FALSE] /\ pending = [s \in Sync |-> FALSE]
  /\ grace = [s \in Sync |-> FALSE]
  /\ call = [s \in Sync |-> "none"] /\ attempt = [s \in Sync |-> 0]
  /\ link = [s \in Sync |-> FALSE]
  /\ written = FALSE /\ faults = 0

\* What a sync does of itself, in its task or in the one-shot command.
SyncStep(s) ==
  \/ Answered(s) \/ LinkLost(s) \/ FoundDead(s) \/ RestoreAgain(s) \/ Wait(s) \/ Reopened(s)
  \/ Turn(s) \/ Flush(s) \/ Close(s)

Supervise == Spawn \/ Arm \/ Finish \/ \E s \in Sync : Open(s) \/ NextSync(s) \/ Collect(s)

Next ==
  \/ Supervise \/ Signal \/ Killed
  \/ \E s \in Sync : SyncStep(s) \/ Observe(s) \/ WatcherStops(s) \/ GraceElapses(s) \/ Panic(s)

Spec == Init /\ [][Next]_vars

\* Every request is answered or its link found lost, within the keepalive; an attempt to
\* connect ends, within its timeout; so does the grace, and an agent that is told
\* goodbye.  Nothing makes a link come back or stay, a tree quiet or anyone send a signal.
FairSpec ==
  Spec /\ WF_vars(Supervise) /\ \A s \in Sync : WF_vars(SyncStep(s)) /\ WF_vars(GraceElapses(s))

-----------------------------------------------------------------------------
(* Properties *)

\* Every variable keeps its type; there is a request exactly in a pass; no task runs
\* before all syncs are open; and attempts stay within what the command allows.
TypeOK ==
  /\ command \in {"sync", "dry", "watch"}
  /\ main \in {"opening", "running", "arming", "racing", "draining", "exited"}
  /\ exit \in {"none", "ok", "error", "killed"} /\ (exit = "none") = Running
  /\ results \subseteq Sync /\ lost \subseteq Sync /\ {cancelled, written, deaf} \subseteq BOOLEAN
  /\ stage \in [Sync -> {"unopened", "open", "startup", "watching", "batch", "flushing", "flush",
                         "final", "once", "closing", "ended", "joined"}]
  /\ outcome \in [Sync -> {"none", "ok", "stopped", "error"}]
  /\ left \in [Sync -> Index..MaxActions]
  /\ call \in [Sync -> {"none", "sent", "restoring", "waiting", "reopening"}]
  /\ attempt \in [Sync -> 0..OnceAttempts]
  /\ \A f \in {failing, retries, pending, grace, link} : f \in [Sync -> BOOLEAN]
  /\ \A s \in Sync : (call[s] # "none") = InPass(s)
  /\ main \in {"arming", "racing", "draining"} =>
       \A s \in Sync : stage[s] \notin {"unopened", "open", "once"}

\* What exit 0 of a watch does not tell, against what is documented: that a sync's watcher
\* stopped of itself, which run returns as a success, and that a sync had failed before
\* a signal came, which the drain that the signal ends had collected.
Untold(s) ==
  command = "watch" /\ (outcome[s] = "stopped" \/ (outcome[s] = "error" /\ s \in lost))

\* The process exits with 0 only if all was done: each sync that the command selects was
\* joined, none with an error or a panic, one-shot syncs with no action that failed (those
\* of a watch are tried again), and every exception is one of Untold.  It exits with 1
\* only if a sync did end with an error, one was never opened or signals could not be
\* handled; and a dry run writes nothing.
ExitTellsTruth ==
  /\ exit = "ok" =>
       \A s \in Sync :
         /\ stage[s] = "joined"
         /\ outcome[s] = "ok" \/ Untold(s)
         /\ command # "watch" => ~failing[s]
  /\ exit = "error" => \/ deaf
                      \/ \E s \in Sync : outcome[s] = "error" \/ stage[s] = "unopened"
  /\ command = "dry" => ~written

OnItsWay == cancelled \/ \E s \in Sync : stage[s] \in {"closing", "ended", "joined"}

\* It is waiting for a link and nothing cancels the wait: the flush of a sync whose watcher
\* has stopped of itself.  Or it is run once and its request is out.
CutOff(s) ==
  \/ outcome[s] = "stopped" /\ ~cancelled /\ call[s] \in {"restoring", "waiting", "reopening"}
  \/ command = "sync" /\ call[s] = "sent"

\* A dry run ends, and so does a watch once it is cancelled or a sync of it is closing,
\* also when a link never comes back, while changes keep arriving and whatever fails.  A
\* sync that is run once does, UNLESS a request is issued again for ever, the link lost
\* each time that it is rebuilt; and a watch does once a watcher has stopped of itself,
\* UNLESS its sync is cut off from its target for ever or again and again.
Ends ==
  command # "watch" \/ OnItsWay \/ (\E s \in Sync : outcome[s] = "stopped")
  ~> main = "exited" \/ \E s \in Sync : []<>CutOff(s)

\* As documented, a sync that stops of itself is always an error of the process.
StoppingIsAnError == exit = "ok" => \A s \in Sync : outcome[s] = "ok"

\* As documented, a one-shot command terminates on its own either way.
OneShotEnds == command # "watch" ~> main = "exited"

\* As documented, a sync that stops of itself stops the process.
StoppingEnds == \A s \in Sync : outcome[s] = "stopped" ~> main = "exited"
=============================================================================
