# A TLA+ model of treesync

treesync keeps a target tree equal to a source tree. It watches the source,
gathers what changed into batches, and answers every batch by *reconciling*:
index both trees afresh, plan the difference, apply it. Notifications only say
where to look. What may go wrong is therefore less in any one function than in
the hand-overs: an event refused by a full channel, a flag lowered too early, a
batch dropped with the future that was building it, an action that fails in the
middle of a plan, a pass that fails as a whole, a process that is stopped. The
modules here model those hand-overs, TLC checks them on small instances and
TLAPS proves the most important of them for instances of any size.

Source paths below are relative to `src/crates/treesync/src/` unless they begin
with `src/`.

## The system's parts

| Part | State | Operations | Talks to |
| --- | --- | --- | --- |
| watcher (`watcher/`) | bounded channel; `RescanSignal`: a scope behind a mutex and an atomic flag | `dispatch` on the backend's thread; `recv`, `try_recv`, `take_rescan` on the sync's task | kernel and `notify` below, the queue above |
| event queue (`queue/`) | pending paths, half-seen and whole renames, time the window opened | `next_batch`, `drain` | takes events from the watcher, gives batches to the syncer |
| index and filter (`reconcile/index.rs`, `filter.rs`) | none kept | `walk`, `walk_subtree`, `stat_paths`, `Filter::excludes` | either tree |
| plan (`reconcile/mod.rs`, `action.rs`) | none kept | `plan`, `Plan::order` | two indexes |
| sinks and apply (`sink/`) | the target tree | `create_dir`, `write_file`, `create_symlink`, `remove`, `set_metadata`, and `apply` over a plan | the target, and the source whose content it copies |
| syncer (`syncer.rs`) | the retries, the cancellation token | `run`, `handle`, `flush`, `reconcile_scope` | all of the above |
| agent (`remote/agent.rs`) | the transfer in hand, temporaries on disk | `serve`, `receive_file`, `receive_patch`, resumption, sweeping | the remote tree; frames over ssh |
| ssh sink (`remote/ssh.rs`) | the session, or none; the backoff | `request`, `restore`, `write_file`, `send_patch` | an agent |
| delta (`remote/delta.rs`) | rolling window, literal buffer | signature, matcher | transfer |
| wire protocol (`remote/protocol.rs`) | none kept | framing, limits, compression | both ends of a session |
| installation (`remote/ship.rs`) | the agent's binary on the host | connect, ask for the platform, upload, move into place, connect again | ssh and the host's shell |
| configuration (`config/`) | none kept | parsing, validation, overlap of roots | the command line |
| command line (`src/apps/treesync-cli/src/`) | the running syncs | `watch`, `drain`, `once`, dry run, signals | several syncers |
| telemetry | counters | | nothing reads them back |

How a change travels: the kernel tells notify, whose thread calls `dispatch`,
which sends an event down the channel, or, when it cannot, records in the
`RescanSignal` the directory that has to be walked again. The sync's task asks
the queue for a batch. The queue awaits the channel, opens a window on the first
event and closes it at a deadline or at a cap on distinct paths. The syncer adds
the paths that failed earlier, and reconciles the scope: the named paths with
all beneath them, or the subtree of a rescan. Failed paths come back in the
report and wait for the next batch. On cancellation the queue is drained, with a
deadline, and what failed is tried one last time.

What is hard about it:

* two threads share the flag and the scope, and the flag is read without the mutex;
* `next_batch` is one branch of a `select!` and is dropped wherever it stands;
* a rescan replaces events, retries and pending paths: it must cover what it replaces;
* the source changes while it is indexed and copied, and may go away entirely;
* actions fail one by one, passes fail as a whole, and each must be retried or reported;
* the process keeps nothing across a restart: the startup pass must find it all;
* it may be stopped between any two system calls of a copy;
* remote targets add a link that drops in the middle of a transfer, or between an
  action and its reply, and an agent that may outlive it;
* several syncs share a process, and several clients a host.

## What makes each part correct

* **Watcher.** No change is lost: a changed path is named by an event on its way
  or lies under a directory that is going to be walked. No recorded loss hides
  behind a lowered flag. Every change is heard of in the end, but for the one way in
  which a consumer sleeps through a loss.
* **Queue.** An observed path waits until a batch names it, across windows,
  cancellation and draining; only a rescan makes the queue forget it. Batches are bounded, windows end, and whatever a
  rename mentions is among the batch's paths.
* **Pass.** After a pass over a source that kept still, every difference in its
  scope is among the reported failures. Nothing is removed that the source had
  throughout, with deletions off nothing is removed at all, and what is excluded
  is not touched; what is let through of either is said exactly. The order of the plan never makes its own actions fail.
* **Syncer.** A difference is always going to be looked at again, or the code
  has said that it drops it; and the two trees converge.
* **Transfer.** The destination holds what it held or something the client has
  read from beginning to end, never a mixture, whatever was lost, resumed or
  issued again. Success means that the target has the source's content and time,
  if the source kept still. Both ends agree on whose turn it is, a failure leaves
  no temporary behind, and every action comes to an end.
* **Local sink.** Whoever opens the destination finds the old file or a whole new
  one, also across a failed call or a crash. A directory widened for one operation
  gets its mode back; what a crash leaves behind is put right by the pass after the
  restart; and, as long as batches come for what failed, the target settles into what
  the source has.
* **Delta.** The tokens rebuild the source byte for byte, wherever reads fall short,
  checksums collide or an interrupted attempt stopped; memory is bounded; an
  unchanged file costs next to nothing.
* **Daemon.** The exit status says what was done. A shutdown ends the process
  whatever the links do. A one-shot command ends of itself, unless a link is lost again
  each time that it has been rebuilt.
* **Installation.** A session runs a whole agent of its own version, to which nobody
  is writing; a client that keeps trying gets one.

## The modules

| Module | Models | State and actions in the code |
| --- | --- | --- |
| `Paths` | paths as sequences of names | `starts_with`, `parent`, `common_ancestor` |
| `WatchRoot` | the directory watched, which the next two have in common | |
| `Watcher` | `watcher/mod.rs`, `scope.rs`, `event.rs` | `scope` and `rescanPending` are the fields of `RescanSignal`; `channel` the mpsc channel; `backend`, `folders`, `outbox` where `dispatch` stands and what it still has to record or to send; `stream`, `purged`, `taken` where `recv`, `try_recv` or `take_rescan` stands. A step is one channel operation, one critical section or one access of the flag outside one. |
| `EventQueue` | `queue/mod.rs` | `pending`, `halfMoves`, `renames`, `windowOpened` are the queue's fields; `call` and `remaining` where `next_batch` or `drain` stands and how far the deadline is. `Cancel` drops the future. |
| `Pipeline` | the two joined, as `next_batch` and `drain` call `recv` and `try_recv` | no variables of its own. `Merged` is a `Receive` of the one and a merge of the other, `Rescanned` a `LowerFlag` and a `take_rescan`, `Unanswered` a receive given up by the window, a cancellation or an empty channel: what the stream answers and what the queue makes of it have no await between them |
| `Reconcile` | `reconcile/*.rs` | operators only: what a walk lists, what the filter sees, the actions of a plan and their order |
| `Pass` | `sink/mod.rs`, `sink/local.rs`, `syncer.rs` `reconcile_scope` | the two trees; `stage` where the pass stands; the two indexes; `plan` the actions left; `failed` the report. `ApplyFails` leaves whatever the operation may leave; `Unanswered` is a request to an agent that was carried out, whose reply is lost, and that is issued again. |
| `Syncer` | `syncer.rs` | `loop` where `run` or `flush` stands; `work`, `scope`, `todo`, `failures` the pass in hand; `retries`; `late` the grace period gone by |
| `Transfer` | `remote/agent.rs` `receive_file`, `receive_patch`, `resume_state`, `signature`; `remote/ssh.rs` `write_file`, `patch_file`, `send_file`, `send_patch`, `restore`; the frames of `remote/protocol.rs` | `client` where the client stands in `index`, `patch_file` or `send_*`; `signature`, `seen`, `resumeFrom` its locals; `agents[s]` the agent of session `s` with its locals `handle`, `existing`, `hasher`, `failure`, and what has reached it; `temp`, `dest` the two files on the target; `source`, `held`, `linked` the file on the other side and whether the client's handle is still of what is at the path. What an agent does on one frame is one step. |
| `AtomicReplace` | what both sinks promise to a reader of one path | abstract: `shown` is what is at the path, `offered` what has been read whole; a step replaces the one by one of the others, or takes it away where that was asked for |
| `LocalSink` | `sink/local.rs`, a system call at a time, and the crash of the process | `at` is where the sink stands in `create_dir`, `write_file`, `create_symlink`, `remove` or `set_metadata`, `relax_dir` and `restore_mode` around them; `dir`, `dest`, `temp` the directory's mode and the files at the two names; `todo` the actions left of the plan; `held`, `linked`, `copied` the source as the copy has it open |
| `Delta` | `remote/delta.rs`; `send_patch` and the agent's side of it, for content only | `buffer`, `pos`, `literal`, `rolling`, `run`, `ready`, `finished` are the fields of `Matcher`; `seen` what its hash covers; `produced` and `kept` the resume point and what lies before it; `rebuilt` the agent's temporary. A step is a read, a position of the window, or a token. |
| `Daemon` | `src/apps/treesync-cli/src/cli.rs` and `main.rs`; `syncer.rs` from its outside; `remote/ssh.rs` `request`, `restore` | `main` where the command stands; `stage[s]`, `outcome[s]` a sync's task and what it came to; `call[s]`, `attempt[s]`, `link[s]` its request, the count of `restore` and its connection; `results` what `drain` has collected |
| `Ship` | `remote/ship.rs`, the handshake, the host's shell | `client[c]` where `open_connection` stands; `shell[k]` a shell at the far end, which command it is in and which file it holds; `incoming`, `installed` the two files; `runs[c]` where the file is that its agent was started from |
| `PipelineProofs` (with those of `Watcher` and `EventQueue`), `SyncerProofs`, `PassProofs`, `LocalSinkProofs`, `TransferProofs`, `DeltaProofs`, `DaemonProofs`, `ShipProofs` | | theorems and proofs |
| `MCWatcher`, `MCEventQueue`, `MCPipeline`, `MCPass`, `MCSyncer`, `MCTransfer`, `MCLocalSink`, `MCDelta`, `MCDaemon`, `MCShip` | | the instances TLC checks |

A definition under a comment "Variant: ..." is no part of any specification: it
is its neighbour with a plausible mistake in it. With the one in place of the
other, the property that `PROJECT.json` names for it is violated, which shows
that the property is not idle.

Variables named as ghosts in a module's header (`unheard`, `owed`, `missing`,
`dropped`, ...) record history for the properties; no action's guard reads them
except where they stand for the environment (`owed` in `Syncer` is what watcher
and queue have still to deliver).

### How they compose

`Pipeline` extends `Watcher` and `EventQueue`, whose operators for the same idea are told apart
by the module's name (`WatcherSpec`, `QueueSpec`, ...). `EventQueue` alone takes events and rescans
from a stream that may do anything; in `Pipeline` they are what the two threads of the
watcher produce. Every step of the joint module is a step of each of the two or leaves it
alone, so that the invariants of both hold of it; what it adds is the hand-over
(`MissedOnlyByRescan`): a changed path is known to the watcher until the queue has it, and to
the queue until a batch names it.

`Pass` extends `Reconcile`. `Syncer` uses watcher and queue by what their own
modules show of them: what has changed is owed until a batch names it
(`NothingLost`) or a rescan makes the queue forget it (`ForgottenOnlyByRescan`: `forgotten` in
`Syncer`). That what is owed comes in time they do not promise, so it is an antecedent of
what `Syncer` says of the end (`Delivered`). And it uses the pass by what `Pass` shows: each path of the scope
that differs is brought across or reported (`Accounted`). A rescan in `Syncer`
narrows to any directory above an owed path, takes with it what is owed beneath, and
discards, beneath or not, whatever part of what is owed the queue happens to hold.

`LocalSink` and `Transfer` are what one copy of a pass is in many steps, on this
machine and over a link. `Pass` takes it for one step that succeeds or fails. Why it
may is the abstract specification `AtomicReplace`, which both implement by the same
mapping (`Shown == INSTANCE AtomicReplace WITH ...`): what a reader finds at the
destination is `shown`, what the copy has read from beginning to end is `offered`, and
`removable` is the removal or the link that the plan has for the path, of which
`Transfer` has none. TLC checks both refinements and TLAPS proves both, that of
`Transfer` up to where two agents have come to have one temporary.
`Acknowledged` and `ActionsEnd` are the rest of what `Pass` assumes: success means
equality, and an action ends.

`Daemon` has the loop of `Syncer` again, reduced to what a shutdown and an exit status
depend on, and a pass in it is a request for the index and one for each action; the
paths are `Syncer`'s. What a reconnection goes through is a step of `Daemon`; what
is transferred over the connection is `Transfer`'s, and how a connection comes about is
`Ship`'s. `Delta` is what `Transfer` calls a choice of tokens.

### What is abstracted

A name, a content, a mode, a cookie is a value with no structure. An entry is
a kind, a content, a mode; the quick check on size and time is equality of
content, so that a change which keeps both is not a difference here (nor is it
one for the program). A glob is a name and whether it is anchored. In `Pass` an operation of the sink is one step; in `LocalSink`, which
has one name and its directory, it is as many as it has system calls, and the two
indexes and the plan are one. Special files, the running binary, hashing and hard links
are left out, and ownership is one with the mode. Event kinds are reduced to what
`dispatch` and `merge` tell apart.

In `Transfer` there is one file. Its content is a sequence of blocks, and the hash
of a content is that content, so that hashes do not collide. The matcher is a
choice, for each block, between sending it and naming an equal one the agent
described: windows and runs are `Delta`'s. A link is two queues that lose their
tails when the session is lost, anywhere, also in the middle of a frame, which
reads as its absence. The index is of this file, and is the only request that may follow
a stream left unended (in the program it may be any action of the plan).
A new session is opened before the old one is dropped, and the agent of the old one may be at
work for as long as it likes, or be killed at any moment: ssh decides that, the code does not.
`Overlapping` bounds which sessions may begin so, for TLC only; the theorems assume nothing of it.

In the walk of `Pass` the check of the root is one step and the walk another, and each path is come
by in any of the trees that there have been between the two, the absent root's included. (That the
kind and the mode of one entry may be of two moments is left out.)

In `Delta` a strong hash is the block it is of, so that it does not collide, and a weak
one is computed as in the code, modulo a base small enough that it does. In `Daemon` a
pass succeeds, has failed actions or fails as a whole; the lengths of waits are nothing,
and a count that the code only uses for a length is not kept. In `Ship` a binary is two
blocks of one version; the kernel runs no file that is open for writing, and a
binary in which a block is missing does not speak.

## The runs

| Run | Shows | Instance |
| --- | --- | --- |
| `watcher` | no change is lost, no loss unflagged; everything is heard of, unless the consumer waits for good in a `recv` that a loss does not wake | root, a directory, a file in it, a file beside it; six reports, a channel of 2; 52,735 states |
| `queue` | an observed path is forgotten only by a rescan of another directory, renames suspect, batches bounded, windows end | five events of two renames and a change, rescans of any directory, cap 2, a window of 2 ticks; 5,871 states |
| `pipeline_narrow_rescan` | *violation*: a rescan of one directory, as the watcher makes it, forgets what is pending outside it | watcher and queue joined: three paths that change, four reports, a channel of 1, a cap of 2 paths, a window of 1 tick |
| `pass` | every difference left is reported, the order works and a request may be issued twice, removals are justified, the excluded untouched, and with deletions off nothing goes away unreported; each with the exceptions it names | every pair of 18 trees of up to three entries, 7 scopes, one of them an excluded directory, an anchored pattern and one that is not, deletions on and off, one fault or lost reply, and one change of the source or loss of its root, also in the middle of the walk; 1,390,639 states |
| `pass_modes` | *violation*: a file whose content changed loses its mode | the same trees without faults |
| `local_sink` | copies implement `AtomicReplace`, success means equality, temporaries and modes are put right, the target settles unless what failed waits for good for a batch | two files of one length, a directory that may be read-only, two changes, a fault, a crash; 1,540,068 states |
| `syncer` | nothing else is abandoned, and the mirror converges as long as batches come and what is owed is delivered | three paths, a cap of one retry, two changes, two faults, two stops; 1,171,420 states |
| `transfer` | transfers implement `AtomicReplace`, success means equality, hashes vouch for temporaries, turns are kept, no temporary is left by a failure but one that cannot be removed, actions end | files of one and two blocks that end alike, a write of the source, a fault, two lost links, the last session perhaps begun while the agents of others are at work; 784,034 states |
| `transfer_turns` | *violation*: a source removed at the wrong moment leaves the agent in the middle of a patch | the same |
| `delta` | the tokens rebuild the source in bounded memory; an unchanged file is cheap | bytes 0 and 1, blocks of three, reads and literals of two, checksums modulo 2; every source of up to nine bytes against six files of the target and three leftovers; 210,933 states |
| `daemon` | the exit status tells the truth, and the commands end when they must, with the exceptions each names | two syncs, two attempts of a one-shot command, an action in a pass, a failing request, panic or signal that cannot be handled, links lost without a bound; 218,903 states |
| `ship` | a session runs a whole agent of its version, and a stubborn client gets one | two clients of different versions, two blocks, three shells, two faults, a host that takes both binaries and one that refuses the daemon's; 897,054 states |

The bounds and why they are enough. A channel of two takes one report of two
events whole, in part or not at all, and the purge of it can be overtaken in the
middle; every scope between a file's parent and the whole tree occurs, and so
does the widening past the root, which is clamped. A queue capped at two distinct paths is met by
windows of one and two events and by one that is full when the next event waits;
three paths are enough for both endpoints of a rename to straddle a window. In
`Pipeline` a report of two events overfills the channel of one, so that events, rescans of
a directory and rescans of everything all reach a window that is open. A
tree over a directory and one child has every change of kind, with and without
a child in the way, on either side; a third entry hides what no index lists. One
fault and one change can fall at every step of a pass. The retries' cap is one,
so two failing paths already overflow it; two stops are a cancellation and a
crash, or a crash and the restart after it. `MaxChanges`, `MaxFaults`, `MaxCrashes`,
`MaxDrops`, `MaxWrites` and `MaxStops` bound counters that the program does not have;
the proofs hold of any bound.

The two files of `transfer` are told apart by length and first block, and share
their last: a delta between them copies a block and sends another in one
direction, only copies in the other, and a temporary of the one is a prefix of the
other or is not. Two lost links are a transfer that is resumed, and one that is
interrupted again while it is resumed; one write of the source can fall before the
index, under the read, behind it, before the stamp or between two attempts; and
one fault is a refusal, a write, a rename or the removal of a temporary that fails, a source that
is unreadable or whose time cannot be had, or a session begun while another's agent is at work. That
session is the last (`Overlapping`): the two agents before it can be in the middle of a file, of a
patch, or of one that was resumed.

The two files of `local_sink` have one length, so that one that is read while it becomes
the other has the size of both; the two changes can be a write under the read and another
behind it, or a write and the directory's going read-only or away; one fault and one crash
fall between any two system calls, the crash also into the cleaning up after the
fault. The files of `delta` are none, less than a block, one block, a repeated block, distinct
blocks in a row and blocks whose checksums collide, with and without a short one at the
end; nine bytes are three blocks, so that a run is extended, broken and flushed at the
end. With two syncs in `daemon` one can end while the other is in a pass, waits for its
link, flushes or has been collected; a link can be lost under every request and again as soon as it
is there; two attempts are one that fails and a last one. In `ship` three shells are one that is cut off, one of the
other client and one of the retry; a shell that hangs for ever takes a slot of them.

Deadlock is checked where the system never stops (`Watcher`), and not where it
does: a queue whose stream has ended (alone or in `Pipeline`), a pass that is done, a syncer that has
returned, an agent that waits for the rest of a stream its client has walked away
from, a source that has been sent, a process that has exited, clients that are served.
In `transfer`, `ActionsEnd` says which of its stops are allowed, and in `local_sink`,
`daemon` and `ship` `Settles`, `Ends` and `Heals` do.

## Fairness

* **Watcher** (`WatcherFairSpec`): the backend's thread runs and the consumer's task is
  polled (weak fairness of `Dispatch` and of `Call \/ Answer`), and an event that stays in
  the channel is received (strong fairness of `Receive`: a receive that was given up is
  asked for again). Nothing is assumed of `GiveUp`: the first `recv` of a window has no
  timeout, so it may wait for good past a flag that is raised while it waits.
  `EverythingHeard` names that state (`AsleepOnALoss`) as its one exception.
* **EventQueue**: the window closes. `select!` picks among ready branches at
  random, so an elapsed deadline is taken with probability one however many events
  are ready, and the clock ticks.
* **Syncer**: passes run to their end (weak fairness of `Reconcile` and of what follows a pass
  that is finished), and that is all. Neither that a batch comes nor what is in it is assumed;
  `NoisyTreeConverges` has both in its antecedent, in so many words: nothing stays owed for
  ever (`Delivered`), and batches of changes come again and again. In a tree that keeps quiet
  they do not, and then it does not converge (`MCSyncerQuiet.cfg`). Cancellation and crashes are
  not fair either, and faults only come to an end by their bound.
* **Transfer**: the two ends do not both stop while either has something to do: weak fairness of
  their steps taken together. Lost links, faults, writes of the source and the killing of an
  agent are not fair; links are lost finitely often, by `MaxDrops`. A reconnection is a step of
  the client that succeeds or is given up (`restore` tries, or its attempts are spent);
  `Daemon` is where it may go on for ever.
* **LocalSink**: what has changed comes in a batch, and the sink goes on. What has failed is
  taken up with the next batch, and nothing makes one come (`OtherBatchComes` is not fair):
  `Settles` is of runs in which nothing waits so for ever. Changes, faults and
  crashes are not fair, and a process that was stopped is started again.
* **Daemon**: the supervisor and each sync's task go on. That includes that a request
  is answered or its link found lost, which ssh's keepalive sees to, and that an attempt to connect ends,
  which its timeout does. A session in which both ends wait
  for each other, as in `transfer_turns`, is not in this module. Links need not come back, nor
  stay when they have, and no bound is set on how often they are lost; `Ends` says what that
  may keep going. Trees need not keep still; signals, panics and the grace's elapsing before the flush
  is done may or may not happen.
* **Ship**: clients and shells go on with what they have begun; cuts and failures are
  not fair.

## What is proved

For every value of the constants, under the assumptions each module names. Each invariant
is proved as: the initial state satisfies it, every action preserves it, it implies the
property. Where TLC could tell, an inductive invariant was first checked by it on the
instance of the module's run. No theorem about a property of a run has a hypothesis beyond the
assumptions of the constants; where a property does not hold without exception the exception is
written into the property, and below is the configuration that shows it.

* `PipelineProofs`, the watcher: `WatcherTypeOK`, `NothingLost`, `LossFlagged`.
  The invariant adds where each thread may stand and with what in its hands:
  a refused event is still the first of the outbox while it waits to be recorded, and
  while the flag is being lowered the scope is clean. That a tracked path stays tracked
  under every step, until the consumer is told of it, is a lemma for each thread
  (`DispatchTracks`, `ConsumerTracks`). A scope covers a path only because widening by its
  parent covers it (`ParentContains`), and because the narrowing in `scope.rs` loses nothing and
  widens no further than it must, which is `CommonAncestorIsGreatest`, a theorem of its own.
* `PipelineProofs`, the queue: `QueueTypeOK`, `ForgottenOnlyByRescan`, `RenamesAreSuspect`, `BatchSized`.
  The invariant adds that the halves and the renames of a window are of paths
  pending in it, that nothing waits between calls, and that a window is within
  the cap. `ForgottenOnlyByRescan` is of rescans of any directory; the violating run
  `pipeline_narrow_rescan` shows the exception that it names.
* `PipelineProofs`, the two together: every behaviour of the joint module is one of the watcher
  (`PipelineIsWatcher`) and, where any directory of the tree may be rescanned, one of the queue
  (`PipelineIsQueue`), which carries the invariants of both over. `PipelineMissesOnlyByRescan`
  is `MissedOnlyByRescan`, the action property behind the first finding: an unannounced change
  that is on its way stays on its way, whichever thread moves, whatever is cancelled,
  closed or drained, and the one exception is a rescan of a directory it is not
  under. It needs no hypothesis. `MCPipeline.cfg` checks it and the invariants on the instance
  of the run (652,279 states).
* `SyncerProofs`: `TypeOK` (with the cap on the retries) and
  `NothingElseAbandoned`, with rescans that discard any part of what is owed. The invariant adds that a pass has no failures before
  it applies, that none is in hand while the loop waits, and that a run starts
  with no retries.
* `PassProofs`: all six properties of the run, for trees of any size. They rest on lemmas
  about the operators of `Reconcile`: what an index lists of a tree, that every
  ancestor of a path in a tree is a directory of it, what a plan has in it and
  in which order, what an action makes of a tree and that it remains one.
  * `RemovedWasMissing` (invariant `IInv`): a plan's removals are of what the source lacked.
    The index of the source covers, within the scope, whatever path the target's does
    (`IndexCovers`), also where it was put together from several trees; what it lacks has been
    noted as missing, and a removal that makes
    room comes before what it makes room for (`RemovalsFirst`). Exceptions: a root that goes
    away in the middle of the walk (`MCPassVanished.cfg`), and an excluded directory that a
    rescan starts at.
  * `TypeOK` (`TInv`), with both trees remaining trees; `NothingRemoved`. Neither has a
    hypothesis.
  * `Accounted` (`AInv`): of every path in the scope that differs, the action that brings it
    across is still in the plan, or it is reported. That needs that the plan is
    carried out in its order (`Following`) and that what needs no replacing is never taken
    out of the way (`Undisturbed`). It is of what a scope takes (`Taken`), which is said by what
    the filter is asked: paths relative to where a walk began. `MCPassAnchored.cfg` shows what
    that is not.
  * `ExcludedUntouched`, for any patterns and scopes. What the filter is not asked about
    (`Overlooked`) is its exception (`MCPassExcluded.cfg`, `MCPassAnchoredBelow.cfg`).
  * `OrderSucceeds` (`OInv`): nothing is added while something is left to remove, what was to be
    removed is gone by the time its place is needed, and what was not to be is a
    directory exactly where the source has one. No hypothesis, but the property speaks of
    passes over the whole tree.
* `LocalSinkProofs`: `TypeOK`, `ReplacesAtomically` (the refinement itself) with its
  consequence `OldOrWhole`, `LeftAsFound` and `Acknowledged`. The invariant has nine parts.
  For the refinement: by the time of the rename the temporary has been read whole
  (`Finished`), and the sink clears, links and removes only in actions for which the plan asked
  (`Placed`). For what is left: a mode that was widened is known to the operation
  under way, or put right by an action still ahead, or by the pass that is due
  (`Lent`, `Widened`). For success: the plan fits a source that keeps still (`Fits`), times
  tell what it has held from what it holds (`Timed`), and what is not yet as in the source
  is ahead in the plan or has been reported (`Outstanding`).
* `TransferProofs`: `TypeOK`, `TurnsKept`, `NothingLeftBehind`, `HashVouches`, `ReplacesAtomically`
  with its consequence for `OldOrWhole`, and `Acknowledged`, all of them with the agents of lost sessions at work
  for as long as they like. `Turns` says which of six situations client and agent are in together,
  from an idle pair to a reply under way, and a seventh for the client that has walked
  away from a stream; `Ordered` that frames come in order, the end last, and a
  commit names what was read whole. `Whole`: what an agent has hashed of a file and what is
  still under way make up what the commit is going to name. A lost link may cut the tails of both
  queues anywhere, and the invariant holds of every prefix. Until two agents have come to have one
  temporary (`crossed`), one at a time is at it (`HeldAlone`), which therefore holds what that agent
  hashed (`VouchedEach`); an agent whose temporary was unlinked by the next one writes where nobody
  looks. An action that succeeds has published what the source has (`Settled`).
* `DeltaProofs`: `Rebuilds`, `TypeOK` and `UnchangedIsCheap`. What has been read and not produced lies in a row: the
  tokens that are ready, the run, the literal, and then what the window has before it; each
  of them spells the source where it lies (`InARow`, `Laid`). The weak checksum takes no
  part in that: it may collide at will. It does in `TypeOK`, which says that the rolled checksum is
  always the one computed afresh (`RollIsTheNextSum`, modulo any base, by induction
  over the window) and that window, buffer, literal and tokens are bounded by constants; the
  bound on the literal takes in the one byte too many at the end of what has been
  read (`Gathered`).
  `UnchangedIsCheap` speaks of a file that turns out to be unchanged only at its end; its
  invariant (`CInv`) says what holds as long as the source has been the target's file so far
  (`SoFarSame`): the window stands at the beginning of a block (`Aligned`), nothing has been gathered
  for a literal, what has been sent is copies (`CopiesOnly`), and where no block repeats they are
  one run from the start of the file (`OneRun`).
* `ShipProofs`: `RunsWhole` and `TypeOK`, for any number of clients, shells and versions. A session
  begins only on a file that nobody writes to, and the moving of another into its place
  takes the file it runs from out of reach of the path. An upload that is waited for has
  exactly one shell (`Served`), and what a shell writes to is there (`Handles`).

* `DaemonProofs`: `TypeOK` and `ExitTellsTruth`, for any number of syncs. A step of the command
  is one of the supervisor or one of a single sync's task. Where a task may stand with
  its request (`Placed`), and what a one-shot sync still has to do or to say (`Told`), are predicates
  of that sync alone, and one lemma carries all of the invariant over a step of one sync, whatever
  the others do (`SyncKeeps`). What relates the syncs is little: one-shot syncs are opened one
  after the other, each when those before it have ended well (`InTurn`); and whoever a watch has
  collected is in the results of the drain under way, or was in those of the one that a signal
  dropped (`Collected`), which is one of the two exceptions `ExitTellsTruth` makes. The other is the watcher
  that stops of itself, whose task ends well.

The prover cannot use the library's induction theorems, which take an operator as a
parameter. `LeastNumber` (a non-empty set of natural numbers has a least one, from
`WFMin`) stands in for them: an induction over the length of a path or over a window is then a
statement about the least counterexample.

Every invariant and every action property of the passing runs is proved. Only model-checked is
what is liveness (`EverythingHeard`, `WindowEnds`, `NoisyTreeConverges`, `Settles`, `ActionsEnd`,
`Ends`, `Heals`), which with `ENABLED` is beyond this prover.

## Findings

Each is a run that TLC ends with a counterexample.

1. `pipeline_narrow_rescan`. `take_rescan` clears all pending paths, and the rescan may be of one
   directory (`queue/mod.rs:301`); `queue/mod.rs:299` says that the walk subsumes every
   path waiting. The run has the watcher make the rescan: a path is merged into an open window,
   an event for another directory finds the channel full, and the batch that follows
   names neither the path nor a directory above it. `MissedOnlyByRescan`, proved, says that
   there is no other way to lose it.
2. `pass_modes`. The modes compared are those of the indexes; the copy then
   replaces the file and with it the mode (`reconcile/mod.rs:272`). A script whose
   content alone changed arrives without its execute bit, and the pass reports success.
   A later pass repairs it, if one covers the path.
3. `transfer_turns`. When nothing is left at the source's path by the time a delta has been
   streamed, `send_patch` returns by `?` with neither `Commit` nor `Abort`
   (`remote/ssh.rs:893`). The agent still expects a token; an index request decodes as a
   literal and gets no reply. `remote/ssh.rs:803` says that a source that cannot be read
   through is an `Abort`, because the agent owes a reply. `send_file` returns in the same way where
   the time of its open file cannot be had (`remote/ssh.rs:972`), and so does `send_patch` on any
   other failure of that call. `TurnsKept` and `ActionsEnd` have these two places as their
   exception (`NoStamp`) and show that there is no third.

### Counterexamples to reproduce by hand

Where the code and a comment disagree about less, or about what the code cannot decide
alone, there is a configuration that TLC refutes, kept beside the runs and named after the module it
is for (`tlc -config MCPassExcluded.cfg MCPass` and so on).

* `MCWatcherAsleep.cfg`, `EverythingIsHeard`. `recv` looks at the rescan flag once and then waits on
  the channel without a timeout (`watcher/mod.rs:153`, `queue/mod.rs:177`). A kernel drop raises the
  flag and sends nothing, so that a queue which waits for the first event of a window is told of
  the loss only by some later event, and in a tree that is quiet from then on never.
  `src/README.md:119` says that lost events cost a re-walk, never correctness. `EverythingHeard`
  has this one exception and shows that there is no other.
* `MCPassVanished.cfg`, `RemovedWasAlwaysMissing`. The root of the source is looked at once, before the
  walk (`reconcile/index.rs:213`, `:415`, `:493`), and whatever is then not found counts as deleted
  (`:242`, `:437`): a root that is unmounted in the middle of the walk has what was still to
  be come by removed from the target. `reconcile/index.rs:341` says that the check is there to keep
  "the source is gone" from being read as "the source is empty". `RemovedWasMissing` shows
  that this window is the only one.
* `MCPassExcluded.cfg`, `ExcludedNeverTouched`. `walk_subtree` does not ask the filter about the
  directory it starts from, and the filter sees paths relative to it
  (`reconcile/index.rs:508`): what an excluded directory holds is mirrored and,
  with deletions on, removed from the target. The watcher does ask for such a walk when the
  directory is created (`watcher/mod.rs:291`). `ExcludedUntouched` says what else may be touched that is
  excluded, which is what the filter is never asked about (`Overlooked`), and the `pass` run,
  such a scope included, that nothing more is.
* `MCPassAnchored.cfg`, `EverythingAccounted`, and `MCPassAnchoredBelow.cfg`, `ExcludedNeverTouched`. For
  the same reason an anchored pattern means something else in the rescan of a directory than in a
  pass over the tree. One for `b/n` excludes `a/b/n` from a rescan of `a`, which then neither
  brings its changes across nor reports them; one for `a/b` excludes nothing from that rescan.
* `MCSyncerQuiet.cfg`, `QuietTreeConverges`. Failed paths wait for a later batch of changes and
  nothing makes one (`syncer.rs:344`); `src/README.md:309` says that a transient problem
  clears itself. The `syncer` run shows that it does where batches keep coming and nothing
  stays owed.
* `MCTransferSettled.cfg`, `LooksSettled`. The time is read after the content and stamped on it
  (`remote/ssh.rs:890`, `:972`). A source rewritten in place while it is read arrives
  as its old content under its new time; where the sizes agree, every later quick check
  takes the two for equal. `remote/protocol.rs:209` says that the later time is what
  keeps such a file from looking settled; a time taken *before* the content would.
* `MCTransferLingering.cfg`, `OldOrWhole`. Dropping a lost connection ends the local ssh client
  (`remote/ssh.rs:1022`); the agent at the far end reads on what has arrived. If it
  reaches its `Commit` after the next session has begun to build in the same
  temporary, it stamps and renames that half-built file over the destination
  (`remote/agent.rs:945`). `remote/agent.rs:965` says that a reader sees the old file or the
  new one, and the `transfer` run shows that it does up to there: until one agent resumes the
  temporary that another has open, or publishes what another has put in the place of its own
  (`crossed`).
* `MCLocalSinkMended.cfg`, `LeftoversAreHarmless` (in the place of the other). A temporary that a crash has left is in no index,
  so the removal of its directory, when the source's goes, fails in every pass. `remote/agent.rs:351`
  says of such leftovers (its own) that they are harmless apart from the space.
* `MCLocalSinkMended.cfg`, `ModesAreRepaired`. A directory whose mode could not be put back stays wide
  until a pass looks at it. `sink/local.rs:132` says that the next pass repairs it on its own;
  the next pass is of the paths of its batch, which need not name the directory, nor is its
  path among those that failed. `Settles` has this, the leftover above and a copy that looks equal as its
  exceptions, and shows that nothing else keeps the trees apart for good, as long as
  what failed does not wait for ever for a batch.
* `MCDeltaRuns.cfg`, `UnchangedIsOneCopy`. Equal blocks match at the first of them, so
  an unchanged file with repeated blocks is several copies and not one, where
  `remote/delta.rs:249` says that an unchanged region costs one token. It is still cheap
  (`UnchangedIsCheap`).
* `MCDaemonExit.cfg`, `StoppingIsAnError`. A watch whose sync has failed exits with 0 if the signal
  comes before the others have been collected, because the drain under way is dropped with its results
  (`src/apps/treesync-cli/src/cli.rs:400`); and so does one whose watcher has stopped, which
  `run` returns as success. `cli.rs:344` and `src/README.md:314` say that a sync that stops is an
  error. `ExitTellsTruth` has both as its exceptions (`Untold`) and shows that there are no others.
* `MCDaemonEnds.cfg`, `OneShotEnds`. `request` issues again what was in flight each time the link has
  been rebuilt, and each rebuilding counts its attempts from nought (`remote/ssh.rs:528`, `:554`): a link that
  is lost again each time keeps `sync` at one request for ever. `cli.rs:288` says that the
  command terminates on its own either way, the reconnect policy being bounded.
* `MCDaemonEnds.cfg`, `StoppingEnds` (in the place of the other). A sync whose watcher has stopped flushes first, and if its
  link is down it waits for it without a bound, with nobody to cancel the wait: the other syncs
  go on, and the process with them. `src/README.md:314` says that the rest are stopped with it.
  `Ends` has this and the one above as its exceptions (`CutOff`) and shows that there are no others.
* `MCShipCut.cfg`, `NothingHalfInstalled`. The shell at the far end takes the end of its input for the end
  of the binary and moves what has come into place; `remote/ship.rs:126` says that a transfer cut
  halfway leaves nothing that looks installed. It repairs itself: such a file answers no
  handshake, and the next client installs again (`Heals`, `RunsWhole`).

Observations without a run of their own, all visible in the modules:

* A named path beneath something that has become a file is looked up with ENOTDIR,
  which is not NotFound, and `stat_paths` returns it as an error for the whole
  batch (`reconcile/index.rs:443`).
* A pass that fails as a whole carries none of its batch forward (`syncer.rs:462`).
  It, the cap on retries and a rescan that makes the queue forget what it holds (the first finding)
  are the only ways a difference is left behind, which `NothingElseAbandoned` states and the
  proof confirms.
* Two daemons of one version that both keep trying can install in lockstep, each cutting the
  other's upload to nothing, for as long as their steps alternate; `Heals` is
  checked with one client that keeps trying and one that does not.
* A signal while the syncs of a watch are still being opened is not yet caught, and ends the
  process by the signal.
* `sync` counts its attempts to reconnect afresh for every request, so a link that
  never returns costs each action of a plan all of them.
* Where no handler for a signal can be installed, a watch ends with 1 and no sync has failed
  (`cli.rs:393`, `deaf`); its tasks go with the set they are in, unflushed.

## Not modelled, and why

Telemetry and errors keep no state that the sync reads. Configuration is parsed,
completed and validated once, before anything runs: functions of a file that its unit tests
enumerate. Argument parsing and printing are data. ssh, tokio, notify and the kernel
appear as what the code sees of them. `check`, which opens no sync, and `Sink::rename`,
which no plan reaches, are left out.

Of the remote half, left out are the sweeping of abandoned temporaries (the hazard at
`remote/agent.rs:357`: `Transfer` has one file and no clock), the widening of a read-only
directory around a transfer (it is that of `LocalSink`), framing, its limits and
compression, and the choice of a block size. In `Pass` a request that is issued again finds the first one
carried out, not under way.

## The plan

Done: all the modules above with their runs and proofs. What would come next:

1. That `NothingElseAbandoned` of `Syncer` follows from what `Pipeline` and the pass show, as one
   theorem over the three, with the first finding as its exception.
2. The sweeping of temporaries: a second file in the directory of `Transfer`, and a day
   that passes.
3. Framing: a reader that is given a frame in pieces, its limits, and a frame that a lost link cuts.
