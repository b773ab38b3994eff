# Knobyte in TLA+

Knobyte keeps a project's knowledge beside its code: team records in plain files, a code graph and
a wiki index in local databases, and a local web Hub over all of them. This directory holds TLA+
models of the parts where processes, threads and crashes meet, TLC configurations that check them on
small instances, and TLAPS proofs of what must hold for any number of processes, clients, jobs and files.

Source paths below are relative to `src/src/`.

## 1. Inventory

| Component | State | Operations | Talks to | What is hard |
|---|---|---|---|---|
| Team lock (`team/store.rs`) | `local/team.lock`: token, age | acquire, break a stale file, drop | every team mutation | file checks and removals are separate steps; holders die |
| Journal and workflow (`team/store.rs`, `team/workflow.rs`) | scaffold files, event log, `local/journal/*.json` | preview, apply, recover | the lock, all team record types | crashes between writes, replays, edits by editors and `git pull`, previews without a lock |
| Members and the desk (`identity.rs`, `members.rs`, `workflow.rs`) | registry, selection, previews held by tabs and agents | add, deactivate, select, preview, apply | every record below | an actor or a file that changes between preview and apply |
| Inbox (`inbox.rs`) | drafts, proposals, knowledge pages | save, publish, approve, reject, withdraw, mark stale, repair | pages, wiki operations, `git pull` | a page that is edited under a proposal; who counts as an author |
| Relays (`relay.rs`) | drafts, relays with their time stamps | save, publish, acknowledge, close | members, catch-up | records carry the time of their preview |
| Workstreams and playbooks (`workstreams.rs`, `playbooks.rs`) | workstreams, playbooks, runs | create, update, archive, start, complete a step, abandon | each other | a run copies a playbook that may change under its preview |
| Catch-up (`team/catchup.rs`) | a cursor per member, with a branch | digest, mark, reset | records, activity, event log | records that arrive between a digest and its mark |
| Hub jobs (`hub/jobs.rs`) | job list, cancel flags, `jobs.json`, a broadcast channel | start, cancel, phases, finish, load | graph, wiki and vector maintenance | the list is unlocked before broadcast and disk write; restart |
| Hub streams (`hub/jobs.rs`, `hub/assets/js/lifecycle.js`) | receivers; per tab the known states | follow a job, lifecycle stream, poll | jobs, other tabs | events out of order, lag, late answers |
| Hub sessions (`hub/security.rs`) | bootstrap link, sessions, stream counter | exchange, logout, expire, evict, open a stream | streams | missed notifications, counters at their limit |
| Set-up wizard and agents (`hub/setup_wizard.rs`, `agent/mod.rs`) | run state, transcript, a cancellation flag, an agent's processes | begin, cancel, skip, commit, follow the transcript | a coding agent, the page | requests that overtake an action, helpers left behind, one flag for all sessions |
| Code graph (`graph/maintenance.rs`, `lock.rs`, `publication.rs`) | live database, candidates, OS lock | rebuild, refresh, repair | watcher, Hub jobs, CLI | a scan older than the lock, cancelled runs, corrupt databases |
| Graph reads (`graph/status.rs`, `graph/read.rs`) | a publication id read twice | inspect, open a read session | maintenance | publication in the middle of a read |
| Wiki operations (`wiki/plans.rs`, `ops.rs`) | plan registry, pages, operation log | plan, apply, apply a plan | MCP, command line, editors | no lock, crashes between pages, repeated applications |
| Wiki index (`wiki/index.rs`, `maintenance.rs`, `session.rs`) | index, lease, read sessions | rebuild, refresh, inspect, open a session | editors, MCP, Hub | a corpus that changes while it is read |
| MCP server (`mcp/`) | SSE sessions, response channels | initialize, call, close | every read tool | order of answers, session expiry |
| Drift, setup, vectors, extraction, CLI | — | — | — | sequential, or driven by one user |

`PROJECT.json` lists every component with its status and every hazard with the line where it bites.

What makes the core components correct:

* lock: one mutation at a time; a drop removes only its own file; an orphaned file does not block for ever
  (the first two are promised by the code and hold only up to two named events, see section 2);
* journal: an operation is all or nothing over exactly the contents its preview showed, is done once
  inside the replay window, leaves one event line, is never reported done when it is not, and an
  interrupted one is closed;
* jobs: one job at a time, an accepted cancellation is honoured, outcomes never change, the disk ends
  up with them, every job ends;
* streams: who follows a job hears of its end; a tab ends up with the true set of active jobs;
* graph maintenance: runs do not destroy each other's candidates, the recorded modification time of a
  file stands for its recorded hash, a successful run leaves a graph of its own time, and readers see
  whole publications only;
* inbox: an approval takes nothing off a page that its writer had read, and nobody approves what they
  wrote or repaired last without saying so;
* catch-up: nothing that concerns a member disappears unseen behind their cursor;
* playbooks: a run starts with the steps and revision its playbook has then, and what a run records stays;
* sessions: the counter of streams is the number of slots held, and a stream ends with its session;
* set-up: no agent outlives its run, one works at a time, a cancellation ends the session that is watched, and a
  transcript is closed only when it is whole;
* wiki operations: a batch takes effect once, as a whole, after it was logged as intended; the log agrees with the
  pages, and no entity is lost;
* wiki index: what is committed was the whole corpus at one instant, and a session called fresh serves what
  was true since its inspection began;
* graph reads: what a session returns of a file was true of it since the read began, files left out
  are named, and a publication during the read does not refuse it.

## 2. Modules

| Module | Models | Composition |
|---|---|---|
| `Mutex` | an abstract lock | — |
| `TeamLock` | `TeamLock::acquire_with_timeout`, `lock_is_stale`, `Drop` | refines `Mutex` (`ImplementsMutex`) |
| `TeamLock_proofs` | theorems about `TeamLock` | extends it |
| `TeamPlan` | what a planner computes: files as sets of edits | extended by the next two |
| `AtomicStore` | operations take effect at once | abstract |
| `TeamTransaction` | preview, apply, `execute_journaled`, `recover_interrupted`, `prune_journal` | refines `AtomicStore` (`ImplementsAtomicStore`) |
| `TeamTransaction_proofs` | theorems about `TeamTransaction` | extends it |
| `HubJobs` | `JobManager` and its executors | — |
| `HubJobs_proofs` | theorems about `HubJobs` | extends it |
| `HubStreams` | job stream, lifecycle stream, a tab | extends `HubJobs`; every action of it is a step of the composition |
| `SourceTree` | the source files and what the graph records of them | extended by the next two |
| `GraphPublication` | what maintenance promises readers: whole publications under new ids | abstract |
| `GraphMaintenance` | rebuild, refresh, repair, the OS lock, `prepare_file` | refines `GraphPublication` (`ImplementsPublication`) |
| `GraphReads` | `inspect_status`, `ReadGate`, the pinned session | extends `GraphPublication`; every action of it is a step of the composition |
| `GraphReads_proofs` | theorems about `GraphReads` | extends it |
| `GraphMaintenance_proofs` | theorems about `GraphMaintenance` | extends it |
| `HubSessions` | bootstrap link, sessions, stream slots, `session_bound_stream` | — |
| `SetupWizard` | `SetupService`, its population agent and `run_agent` | — |
| `Hub` | `HubState` | composes `HubJobs`, `HubSessions` and `SetupWizard` |
| `Hub_proofs` | theorems about `HubStreams`, `HubSessions`, `SetupWizard` and `Hub` | extends `Hub`, `HubStreams` and `HubJobs_proofs` |
| `TeamDesk` | `resolve_actor`, the members, held previews | extended by the next four |
| `TeamInbox` | drafts and proposals | extends `TeamDesk` |
| `TeamRelay` | relays | extends `TeamDesk` |
| `CatchUp` | digests and cursors over relays and activity | extends `TeamRelay` |
| `TeamWork` | workstreams, playbooks and runs | extends `TeamDesk` |
| `WikiOperations` | `apply_operations` and the plan registry | — |
| `WikiOperations_proofs` | theorems about `WikiOperations` | extends it |
| `WikiIndex` | rebuild, refresh and reads of the wiki index | — |
| `Records` | what the project keeps beside its code | composes the six above |
| `Records_proofs` | theorems about `TeamInbox`, `CatchUp`, `TeamWork`, `WikiIndex` and `Records` | extends `Records` and `WikiOperations_proofs` |
| `MC*` | constants for TLC | — |

### How state and actions correspond to the code

**TeamLock.** `lockFile` is the process whose acquisition created the file on the path, `Absent`, or
`Orphan` when nobody is left to drop it; `aged` is "modified more than `STALE_LOCK_AGE` ago". Every
file-system call is a step of its own: `CreateLock` (`create_new`), `WriteToken`, `SeeStale`
(`lock_is_stale`), `BreakLock` (`remove_file`), `DropRead`, `DropRemove`. `BreakLock` and `DropRemove`
remove whatever the path names by then, as the code does, and fail while the file is `jammed` (`Jam`, `Unjam`: permissions, a
file another program holds open): `BreakLock` then goes back to the top of the loop without a look at the time-out
(`store.rs:177`), and `DropRemove` leaves the file behind. The 25 ms polls before the time-out are stuttering.

Nothing in the code keeps a second waiter from finding stale what a first is about to remove, or a live holder from keeping
the lock for more than 120 s. So neither "Exclusive team mutation lock" (`store.rs:143`) nor "Only remove the lock if it is
still ours" (`store.rs:205`) holds of it, and the model assumes neither away: `excuses` records the first time that either
happens (`"raced"`, in `Noticed`; `"overstayed"`, in `Overstay`). `DropRemovesOnlyOwn`, `ImplementsMutex` and theorem
`MutualExclusion` say that until then the promise is kept, whatever crashes and calls fail; `team_lock_race` shows two holders
after the first, and `PromptHoldersExclude` is there what the code would keep if only holders had to be prompt.

**TeamTransaction.** A process previews without a lock in two steps (the planner reads, then the
before-revisions are taken) and applies an issued envelope, the same one as often as it likes. Under
the lock it lists the interrupted entries, rolls each forward file by file (`Visit`, `CheckFile`,
`WriteFile`, `AppendLine`, `Complete`), answers from the journal or decides on freshness, writes the
intent, and rolls its own entry forward by the same actions. `Crash` may strike anywhere under the
lock. The lock itself is `InLock = {}`: that is what `ImplementsMutex` gives up to a race of two breakers or a holder that
overstays, and nothing is claimed of the journal beyond these. Files are sets of operation ids, so a
lost update is visible as a missing element; revisions are equality of contents. Signature, actor and
age checks only refuse an envelope and come before the lock, so they are not modelled.

**AtomicStore.** What the store promises its callers: `Commit` is a whole operation in one step, `Close` its
end, `Edit` somebody else's edit, and `Abandon` the giving up of an operation one of whose files was edited
meanwhile. `EditedTo` has a case that is easily forgotten: roll-forward compares a file with its before-revision
(`store.rs:311`), so whoever puts back the content from before an open operation makes recovery write that file
once more. For the promise this is an edit to the operation's own content: the operation takes effect on the
file again. One edit cannot do it; two can, the first to replace the file's content and the second to undo
that, and the instance has two.

**HubJobs.** `jobs`, `flags` and `disk` are the list, the cancel flags and `jobs.json`. `task` says
where a request or a job's thread is: the code unlocks before `tx.send` and before `persist`, so
`Send` and `Persist` are steps that interleave with every other update. `Program` gives each executor's
sequence of phase reports, checkpoints and publications as they stand in `graph_job`, `wiki_job` and
`cozo_job`. `Restart` is the death of the Hub followed by `load`. `docs/hub.md:93` says that cancelling stops a job
"before anything is published", and a job stopped at a checkpoint that it was "Cancelled before anything was
published." (`hub/jobs.rs:393`). Neither is true of `wiki_job`, whose only checkpoint (`:539`) comes after the wiki index has been
rebuilt or refreshed, nor of `cozo_job` (`:556`), which has synchronized the graph by then. `CancelHonoured` therefore
excepts the kinds that publish before their last checkpoint (`PublishesEarly`) and claims it of all others.

**HubStreams.** `inbox` is one `tokio::broadcast` receiver per stream, with its lag. A follower
subscribes, looks its job up, then takes messages with larger revisions. A tab seeds its states from the list,
opens the stream, folds in `hello`, events and late poll answers with `observeJob`'s rule that a
finished job does not go back. A poll may fail, which `pollOnce` swallows and does not repeat (`PollFails`,
`lifecycle.js:113`): the tab has then `missed` what the stream had dropped, and `FreshTabsLearn` claims nothing of it
until a `hello` or a poll tells it everything again.

**SourceTree.** A file has a content and a modification time, which every edit makes new; its hash is
its content. All files have one size, so that only the modification time can save reading a file, the
case in which `prepare_file` and `inspect_rows` can be wrong. Two writes within a millisecond, or
tools that restore modification times, are outside the model: the code cannot tell them apart.

**GraphMaintenance.** `Scan` happens before the lock; `Acquire` is the OS lock and
`cleanup_stale_candidates` under it; `OpenToRebuild` includes the quarantine of a database that does
not open, damaged or not (`open_live_checked` also fails on a busy file, an I/O error or a foreign schema, and
`maintenance.rs:603` asks for no reason), which has happened whatever becomes of the rebuild. `prepare_file` is two steps for every
file, `Stat` and `Read`, in any order between files (the workers of `prepare_files`) and with edits
anywhere. `Build` writes the candidate and gives it its publication id (a random one in the code, the
next number here); `Publish` is the transaction, `Noop` a refresh that finds nothing changed. `Stop`
is a cancellation at a checkpoint or a failure; `Crash` leaves the candidate behind. The refinement
maps the database as it is, without the recorded HEAD; an id is `spent` when the run that got it has
published or is over.

That quarantine contradicts the code's own words. `graph/maintenance.rs:6` says that "A crash (or error) at any point before that
commit leaves the live graph exactly as it was", and a cancelled run says "the live graph was not changed" (`:132`); but the live database is moved aside and replaced by an
empty one before a candidate exists, so that a rebuild which is cancelled or dies after it leaves readers without a graph.
`GraphPublication` therefore has `MoveAside` among the things readers may see: `ImplementsPublication` promises them whole publications,
or the empty graph, and not what the comment says.

`DoneIsRecent` has an exception TLC found: `file_mtime_ms` is 0 for a file that is not there, so a file
that is created between `Stat` and `Read` is recorded with 0, and a later refresh that finds the file
gone again takes the recorded hash for current although the doc comment of `prepare_file` says "Returns
`None` when the file cannot be read" (`graph/build.rs:184`). It takes four edits at the right moments,
and the next refresh mends it.

**GraphReads.** One reader runs against `GraphPublication`, not against the detail of maintenance: `Observe`,
`Inspect`, `Compare` for each file and `Settle` are one attempt of `inspect_status`; `Open` is
`open_engine` with `verify`, and the second attempt of `open_session`. `Inspect` takes the
rows and the list of files in one step: a publication changes no file and an edit no row, so the two
halves can be brought together in any run. `witness` and `changes` are history variables for the properties.

The list of changes is not always whole. `status.rs:617` keeps the first 50 of each kind, and when the scan fails
(`:608`) there is no list at all. The model follows the files of `File` in a corpus of any size, so `Settle` may cut any of those
that drifted from the list (`Cuts`), which is more than the code does when `File` is the whole corpus; `scanned` tells of the scan. A strict
read refuses a list that was cut, a tolerant one answers by it: it serves rows of changed files past the first
fifty, and does not name the added ones. A failed scan even sets `truncated` without a change having been counted, and the status becomes
"fresh", which a strict read accepts, although `status.rs:32` lists the limit of the corpus as "`stale` (unbounded)" and `read.rs:8` says a
"change list truncated" is refused. `ServedIsTrue` and `NothingIsHidden` except just these files (`Disregarded`), for which "Facts in
them are never returned" (`read.rs:129`) does not hold, and claim the rest: in particular that no strict read answers from a cut list, whatever races.

**HubSessions.** Sessions live equally long, so they are numbered in the order they were issued and
`lapsed` is the last that expired. `conn` says where each connection is: authenticated (`Request`),
counted but not yet compared with the limit (`AcquireStream`, then `Proceed` or `Refuse`), streaming, or
over. `Revoke` removes a session and `NotifyWaiters` wakes whoever waits, two steps with anything
between; a stream is between its waits (`Resume`), or waits for an item, its timer or the notification,
of which `select!` takes any that is ready. `Hub` runs it beside `HubJobs` and `SetupWizard`: none looks at another's
state, so a behaviour exercises one `part` and the others stay as they were at the start.

**SetupWizard.** `run`, `transcript` and `cancelFlag` are the three things all actions share. `worker` has one record
per action: its place, how its agent ended and which of the agent's processes live. `begin` checks and reserves
in one step; cancel, skip and commit check in one (`Ask`) and act in another. `SeeCancel`, `SeeTimeout` and `SeeExit`
are a turn of `run_agent`'s loop in the order of the code, with the flag looked at in a step of its own (`LookPast`): a cancellation
that comes after the look, in the agent's last turn, is lost although it was answered. `LoseWork` and `LoseSession` are threads that panic or cannot be
started: nobody then ends the run. `Terminate` is the whole of `terminate_tree`, after which
nothing of the process group is left. An agent may fork into its group (`"helper"`) or out of it (`"detached"`); a process
that also closes its outputs is beyond what the code can see, and no part of the model. Nothing kills a process outside the group,
and nothing obliges it to end: `SetupEnds` says that a run is over some day unless such a process, or a lost thread, holds it for ever (`Held`),
so "the process tree is always reaped" (`agent/mod.rs:475`) is true of the group only. The model brought out four
defects, which the hazards name: a skip or a commit may write "succeeded" over a population begun since its check;
a cancellation accepted before `SignalGuard::install` is forgotten, though it has been answered; a late one hits the next
session; and a population begun between the two last statements of another has its transcript closed.
A behaviour stops at the first of these (`overtaken`), and `mistaken` records the last: nothing is claimed beyond them.

**TeamDesk.** `Resolved` is `resolve_actor`. `Previews` and `Applies` are the two halves of a mutation
as every planner shares them: apply plans again and refuses an actor, a file read or a plan that
is not that of the preview. `TeamTransaction` shows that an apply is atomic, so it is one step here, and
the audit line and the journal are not repeated. A preview may be held by any process for any time.

**TeamInbox.** One definition for every arm of `plan`: each gives the records as the action leaves them, or
`Refused`. A page is absent or the set of contributions on it; a writer's text for a page they
have read is what was there with a contribution of their own; what they pin (`Honest`) is the page as they read it. `Captured` is the expectation the code takes at publication, `Drifted` its comparison at approval.
Someone who saves another's draft again does not become its author ((`inbox.rs:1023`), and a draft whose author
is "engineer", the name for nobody in particular, gets who publishes it for its author (`inbox.rs:1065`; `Unnamed` are the members of that id), so `FourEyes`
does not say that two people have seen the final text: only that who wrote it as author, or repaired
it last, did not approve it alone.

**TeamRelay, CatchUp.** A relay keeps the time of each of its states, which is that of the preview, not of
the write. `Digest` is what a digest lists between the cursor (or the default window) and now, cut at
`MaxPerSource` of each source, which `catchup.rs:220`, `:255`, `:278`, `:305` and `:374` do without a word (`truncated` tells of the page
only). It comes in pages: `Lists` takes any beginning of what is left in the order of `Before`, and the next page is refused when the
list has changed since (`Corpus`, as `paginate` binds it). Without a stored cursor the baseline is part of what is bound and changes with the
clock, so a second page is then refused in practice. `Mark` moves the cursor to a time the reader gives (the digest's, as the document advises, another, or now).
`known`, `cut`, `covered` and `passed` are history: what was listed on some page, what was cut off, up to where all pages have been read, and
what the reader went past unread. `NothingIsSkipped` excuses what was cut and a record that comes with a time that a digest
has already covered: one applied from a held preview, or one that `git pull` brings. The advice
of `docs/team-memory-workflows.md:463`, to mark at the digest's time "so nothing that arrived while you
read is skipped", does not help against those, nor against the cuts.

**TeamWork.** A playbook's texts are left out, but changing them counts as a revision. A run is a copy of
the playbook's steps with its revision; `CompleteStep` ends the run with its last step. Anybody Git names
may work through a run, only members change playbooks, and workstreams ask nobody.

**WikiOperations.** A page maps entity ids to what is on it: the marks of the operations that
changed it, its state and its relations. `PlanOperation` works on the overlay of a batch, as `Vfs` does, and
the whole batch is refused at the first error. A page is read when an operation first looks at it, and kept parsed (`Vfs::parsed`): in an
order that the operations decide, while others write. `ReadPage` reads them in any order, `PlanBatch` the last of them and plans. A creation may
ask for its id (`by`; `AnyId` leaves it to `mint_id`). `PlanBatch`, `LogIntents`, one `WritePage` per page in order
of name, and `LogComplete` are separate steps, since no lock is held; `Stop` may come before any of them.
`update` stands for the other operations that change one entity. `half`, `clobbered` and `doubled` are
history variables that name the exceptions of the properties: a batch that stopped between two pages, a page
written over that had changed since it was read, a batch applied by two processes at once. In the last
case two ids may be minted for one creation. `docs/wiki.md:200` says that a batch "applies completely or not at all", which holds of its
planning and not of a stop between pages. Applying the file again finishes an unpinned batch. A pinned one is refused with
`REVISION_CONFLICT` (`ops.rs:1013`) if what its first operations change was written before the stop, although the code then advises to
"Re-apply the same operation file to finish" (`ops.rs:776`): it stays in `half` for good, and the log at its intent. Nothing is applied
twice (`AppliedOnce`), but nothing completes it either.

A creation that asks for an id which stands in its file is "already created (a resumed or replayed operation): settled" (`ops.rs:1680`)
whoever made the entity: nothing is written and the batch is logged as complete. `LogAndPagesAgree` excepts creations that ask
for what stood at the start (`Settled`); the second plan of the run has one, beside one that asks for a free id.

What the properties of the wiki claim, and what not, was settled by trying to prove them.
`AppliedOnce` counts the marks of a pinned operation of a file only if no operation before it in its batch makes or
moves its entity: an earlier operation of the batch that touches the entity makes `Holds` skip the pin (`ops.rs:630`),
and a creation or a move does so without adding a mark, so that the operations after it are done again when
the file is. `LogAndPagesAgree` used to say of every
entity what it now says of those that nothing moves and one operation creates, and was false of the others. Two
files that move an entity in opposite directions can lose it, although neither writes over a page that
changed since it read it: the first has copied the entity to the page it goes to and not yet removed it from the other;
the second finds it on both pages, takes the first for its place and removes it there; then the first removes the
other. What can be said of moves is `NothingIsLost`: an entity that one operation at most moves or creates stays, on
one page, unless its move is under way or was stopped. And that a creation which is logged as complete made its entity
(`CompleteMeansCreated`) is false, as `wiki_namesakes` shows: the id that was logged as intended is not kept free.

**WikiIndex.** Every walk over the corpus (the two observations, the reading, the inspection) visits one
file at a time, with edits anywhere. `CommitIndex` happens only if the two observations agree. A file that
is created after the first and removed before the second is seen by neither and may still be
read and indexed; the next inspection finds it gone. `InspectIndex` and `OpenSession` are separate,
and the snapshot that is opened may be of a later commit, of a pass that observed before the inspection began: `had`
therefore also holds what a commit took each file for (`Stood`). It used to hold what the file was at the instant of
that pass, and the proof of `FreshIsTrue` showed this to be too little. With four edits, two more than the
run allows, a file that was at neither observation can come and go within the pass, be created again and be compared with the index of
before; the session then opens the new index, which leaves the file out, and is called fresh. 
A read of a file that is there may fail. A pass passes over the file (`index.rs:971`) and commits
the other rows all the same, although "Publish only an index of the corpus that still exists" (`index.rs:1051`); an inspection takes it for
unchanged (`index.rs:860`); and an inspection that fails as a whole counts as fresh (`unwrap_or_default`, `maintenance.rs:529`,
`InspectionFails`). `unread` are the files this happened to: `IndexIsOneInstant` says of those that no other row is committed than the one
before, and `FreshIsTrue` claims nothing of them. Edits and failures share one bound.

## 3. Runs

| Run | Instance | Shows |
|---|---|---|
| `team_lock` | 3 processes, 2 faults | safe drops, refinement of `Mutex` and so exclusion, both up to a race of breakers or an overstayed lock; an orphan is broken and `acquire` returns if removals work in the end |
| `team_lock_race` | 3 processes, 1 fault | **violated**: two holders after two waiters found the same orphan |
| `team_transaction` | 2 processes, 2 files, 3 commands on 2 ids, 2 envelopes, 3 commits, 2 crashes and 2 foreign edits, 3 of them at most | atomicity (refinement), idempotence, freshness, truthful answers |
| `team_transaction_io` | the same with 2 commands, 1 crash and 1 failing write, fair | interrupted operations get closed, the line is written once |
| `team_recovery_gives_up` | as above, no foreign edit | **violated**: an I/O error is recorded as a conflict |
| `hub_jobs` | 2 clients, 2 graph jobs, 1 cancel, 1 restart or failure; 2 connections, 1 slot, 1 session kept of 2 issued, 2 links; 2 set-up actions, 1 visitor, up to 4 transcript entries; fair | the job, session and set-up properties of section 1 |
| `hub_streams` | 1 follower, 1 tab, capacity 1, 1 job, 1 cancel, 1 restart, 1 lost connection | followers and fresh tabs learn the truth |
| `hub_tabs_miss_an_end` | 1 tab, 1 job | **violated**: an end between listing and `hello` is lost |
| `records` | 2 members of whom one joins and leaves; 1 proposal, 1 page; 1 relay, 1 reader, 2 branches, 3 instants; 1 playbook, 1 workstream, 1 run; 3 batches of 6 operations over 2 pages and 4 titles, a pinned file and two plans, with 2 writers, 1 stop or edit by hand; 2 documents, 2 edits or failing reads, 2 maintainers | the properties of section 1 about the inbox, catch-up, playbooks, the wiki's operations and its index |
| `wiki_namesakes` | 2 files that create an entity of one title on one page, 1 writer, 1 stop | **violated**: a resumed creation takes another's entity for its own |
| `graph_maintenance` | 2 processes, 1 file, 2 contents, 4 edits, 2 publication ids, 1 crash, 1 damage, 1 move of HEAD | candidates are kept, modification times mean hashes, success is recent, refinement of `GraphPublication` |
| `graph_reads` | 1 reader, 1 file, 2 contents, 2 edits, 3 publication ids, any damage and repair, failing scans, cut lists | sessions are true and complete, one change is survived |

**Bounds.** Three processes are the fewest for which one dies and two race for its file. Two processes
are enough for the journal, because the lock lets one at a time in: the second plays the
concurrent previewer, the recoverer and the waiter. Two files give an operation something to be half
done with, two ids sharing three commands give id reuse, `Window = 1` makes pruning happen after the second commit,
and three commits let an id come back after it. Two crashes let a recovery be interrupted as
well, and two foreign edits let an edit be undone while the operation is open. `MaxTroubles = 3`
leaves out two of each together: an edit, its undoing and a crash, or two crashes and an edit, are in (983 173 states). In `HubJobs`, `HistoryLimit = 1` with two jobs makes the list drop one whose thread and requests
may still have updates to send. `Capacity = 1` makes lag happen with the four or so messages of one job.
Every `Max...` constant is such a bound and stands in a guard.
`Hub` and `Records` exercise one part, or one kind of record, in each behaviour. That is a bound: it leaves out
no interference, because the parts share no variable that both write except the desk and the
members, and because the writes that one kind of record suffers from another are actions of its own
module (`OutsideEdit`, `HandEdit`, `EditDocument`).
One process that sits on a preview, beside everybody who acts at once, is enough for a preview to be
overtaken; which actions it sits on is the bound `Slow`, `SlowRelay`, `SlowWork`: approvals,
acknowledgements, starts of runs and completed steps, those that read records which others write.
`Founder` has one member and `Leaver` another, so that the actor is a member, a person Git names, or
nobody. `MaxPerSource = 1` makes a digest cut something off, three instants let a mark lie between two
records, `MaxPlans = 1` makes the registry evict, and one stop with three batches lets a batch be
applied again after half of it. The batches overlap: the file replaces the entity that a
plan supersedes, the other plan moves the one it is superseded by, and the file and the move write both
pages, so that half of a batch can be on disk. A batch that only creates is in `wiki_namesakes`. The executors of `hub_jobs` are those of the graph job, whose
checkpoint comes before it publishes; other programs are covered by the theorems. Two documents are the fewest of which one can be read before and one after an
edit. A playbook has two revisions and two steps: a run may start from the first while the second is written, and
ends with a step that is not its first.
Two set-up actions let one overtake, or follow, the other; two lines and a batch of one make a transcript longer than
a batch. `MaxFaults` counts restarts and failures together. The type invariants of `TeamLock`, `TeamTransaction`, `HubJobs`,
`HubSessions`, `GraphMaintenance` and `Records` are not among the runs' invariants: they are proved.
The graph's properties are stated file by file and no action relates two files except that a refresh
publishes when any of them has changed, so one file is enough; four edits reach the exception of
`DoneIsRecent`, two ids let a refresh follow a build, and three, with damage and repair, race the
observations. The theorems of section 4 are for any number of files.

**Fairness.** Weak fairness is on what the scheduler of an operating system or a runtime guarantees: a
process or a thread that has started a command executes its next statement. For the lock, also time passes
(`Age`). For the Hub's streams, a handler goes on and a timer that keeps being due is taken in the end
(strong fairness of `Tick`: `select!` polls its branches in random order, so no other branch can win for
ever); a client reads what is sent, or leaves. An agent's time runs out, since every session of the Hub has
`SETUP_AGENT_TIMEOUT`; nothing obliges an agent, a helper or a process that has left the group to end by itself. Nor is a removal obliged to succeed: `OrphanIsBroken` and `AcquireReturns` have
the premise `<>[]~jammed` instead. Nobody is obliged to start a command, to cancel, to crash or to come back. Hence the
premises `[]<>(...)` of `OrphanIsBroken` and `InterruptedIsClosed`: the code repairs what was left
behind only when another command comes.

`CHECK_DEADLOCK FALSE` is used for the Hub, which may be idle for ever once its bounded jobs are over.

**Disagreements between code and text** (the four runs marked *violated*) are described in
`PROJECT.json` under `findings` with the lines of both.

## 4. Proofs

`TeamLock_proofs` (any set of processes, any bound on faults):

* `TypeCorrect`: `Spec => []TypeOK`.
* `MutualExclusion`, `DropIsSafe`, `LockRefinesMutex` without an assumption on time or on who looks when: they speak of a behaviour
  until `excuses` records that two waiters found one file stale at once or a holder overstayed. The inductive
  invariant `LockInv` says that until then the file names every process between
  creation and removal and is fresh, and that a waiter about to break is alone and the file it saw is
  still there and old: exclusion by itself is not inductive, since it says nothing about the file.

`TeamTransaction_proofs` (any finite set of processes, any files, operations, commands, journal window and bounds):

* `TypeCorrect`, `LinesOnce`, `Replays` and `TrueAnswers` (`TypeOK`, `LineOnce`, `ReplayWindow`, `AnswersAreTrue`)
  without further assumption. `CoreInv` is what all rest on: one process is under the lock (`OneHolder`); `Hand` says
  for every place of its command what it has in hand, in particular that `todo` are open entries and that the
  entry it rolls forward is open and not among them; and `Remembers` relates the journal to the history of
  commits: an entry in the journal is of the last commit of its operation, and an operation without an entry took effect at least
  `Window` commits ago. `ReplayWindow` is not inductive, since it looks only at commits, while what a later
  one is allowed depends on the journal that `prune_journal` leaves.
* `Previewed` and `CompleteIsDone` (`WritesOnlyPreviewed`, `CompleteMeansDone`), assuming `~LiveEdits`, from `SettledInv`:
  an entry's changes are its envelope's (`Faithful`), a file already visited holds the entry's after-content and
  the one about to be written its before-content (`Settled`). With edits under the lock neither
  holds: nothing keeps an editor from writing between the check and the write.
* `AtMostOneInFlight` (`OneInFlight`), assuming `MaxIoErrors = 0`, from `InFlightInv`: past recovery nothing is open but
  what the process has in hand. A recovery whose own failure to record goes unnoticed (`let _ =`, `store.rs:389`) may leave a
  second entry open, which is why the assumption is needed.
* `Implements` (`ImplementsAtomicStore`), assuming both: `WriteIntent` commits, `Complete` closes, `FindConflict` abandons, an edit
  maps to an edit, and everything else stutters, because the abstract content shows an open
  operation's files as they will be. The three invariants together give the one open entry the map speaks of.

`HubJobs_proofs` (any clients, jobs, kinds, programs and bounds, given `JobsAssumption`):

* `JobsTypeCorrect` and `OnlyOneJobRuns` from the inductive invariant `JobsInv ==
  TypeOK /\ OneAtATime /\ CancelWins`. The three need each other: that an executor runs only for
  a job listed as running (the second half of `OneAtATime`) is what keeps the last update of a thread
  from rewriting the outcome of a job cancelled while queued, and the types of the snapshots in flight
  are what `Outcome` and `Marked` are applied to. `CancelWins` speaks of the disk as well as of
  the list, because a restart makes the disk the list.
* `OutcomesAreFinal` (`OutcomeIsFinal`, an action property) and `DiskIsCurrent` (`DiskCatchesUp`), from `OrderInv`, which
  adds to `JobsInv`: ids are given in order, so that a job which has been dropped from the list never comes back
  (`Numbered`); which thread is at which place for a job in which state (`Threads`); what `jobs.json` says of a job is behind the list, and never
  says that it ended otherwise (`Behind`); and a listed job that is not on disk as it is has a writer on its way, or a write has
  failed (`Written`). The last is what "once everybody is done" needs before everybody is.
* `CancellationWins` (`CancelHonoured`): `CancelWins`, and `CancelledInTime` from `TimelyInv`, which says where an executor is
  that has replaced an index: past the statement that replaced it (`HasPublished`), and at a checkpoint if it has been stopped
  (`AtCheck`). A job that says nothing was published has then a publication before a checkpoint in its program, or has published
  nothing; and it stays so, because an executor works only for a job that has not ended, on disk as in the list (`Behind`).

`Hub_proofs` (any followers, tabs, clients and jobs, a broadcast channel of any capacity; any finite set of connections, any
visitors, limits and bounds):

* `EndsAreTold` (`FollowersAreTold`) and `FreshTabsAreUpToDate` (`FreshTabsLearn`), from `StreamsInv`, which adds to `OrderInv`:
  of any two snapshots of one job that are about to be sent, wait in a queue or are listed, the one with the larger revision is the later one, and
  one that has ended has the largest (`SnapsOK`); a follower that has not been told of the end has it before it, in its queue, in a snapshot about to be
  sent, or still to come (`FollowOK`); and the same of what a tab believes of each listed job, with the answers of its poll
  (`TabsOK`). None of this says that snapshots arrive in order, since they need not.
* `FreshTabsLearn` used to speak of all the jobs a tab remembers, and was not provable: with two jobs and `HistoryLimit = 1` an answer
  of a poll that was asked early may bring back as running a job that the list has dropped since. The tab renders the
  list; what it remembers only decides which transitions it announces. The property now
  speaks of the jobs that are still listed (`UpToDate`), as the page shows them.
* `SessionsTypeCorrect`, `SlotsStayCounted`, from `HubTypeOK /\ SlotsAreCounted`: the counter is the
  cardinality of the connections that hold a slot, and streams are holders that passed the comparison.
* `AgentsAreReaped` (`NoAgentIsLeft`) and `TranscriptsAreWhole` (`TranscriptIsWhole`), from `SetupInv`: what the place of an action says
  of the run, of its agent's processes and of the transcript, and that at most one action is past its reservation. `NoAgentIsLeft`
  alone says nothing of an action that is about to start its agent. Both are claimed up to the first request that overtakes an action, as in the
  runs.
* `HubIsSafe` and `HubOutcomesAreFinal`: the invariants of the three parts, and the finality of outcomes, hold of `HubStateSpec`.

`GraphMaintenance_proofs` (any processes, files, contents and bounds):

* `MaintenanceTypeCorrect`, `CandidatesAreKept`, `MtimesMeanHashes`, `SuccessIsRecent` and
  `MaintenanceRefines`, from `IInv == Typed /\ UnderLock /\ Faith /\ Recent`. `UnderLock`: only the run with the
  lock is at work, its candidate is on disk when it is ready, and nobody else changes the database it compares
  with. `Faith`: rows that are recorded, or about to be, are faithful and of no future modification time.
  `Recent`: what a run knows of a file is something the file was since its scan, or the
  recorded row of a file that was not there. `DoneIsRecent` is not inductive, being about a step; `Recent` says
  before the step what it needs. The refinement follows because the spent ids are the builds
  but for the one that a ready run has not published.

`GraphReads_proofs` (any files, contents and bounds):

* `SessionsAreTrue` and `SessionsAreComplete`: `ReadSpec => []ServedIsTrue` and `[]NothingIsHidden`, from
  the invariant `IInv`. Rows are `Recorded` when they are faithful and none has a modification time of the
  future, which is what makes faithfulness survive edits; the inspected rows are those of their
  publication id for as long as anything is published under it; and what `Compare` has `Established` of a file is
  kept as a relation to the contents since the inspection began, because the contents of the moment
  change. `GraphReads` runs against `GraphPublication`, which `MaintenanceRefines` proves of maintenance, so the two
  theorems hold of reads beside the real runs.
* `OneChangeNeverFailsARead` (`OneChangeIsSurvived`), from `CountInv`: every attempt that has failed met a change of its own
  (`changes` counts them), and an attempt under way that has met none still compares with the
  database it observed.

`WikiOperations_proofs` (any batches, operations, titles, pages, processes, stops and edits by hand):

* `BatchesApplyOnce` (`AppliedOnce`), from `WikiInv /\ HistoryInv`. `AppliedOnce` looks at the pages alone, and a
  process may still write what it planned long ago; so `HistoryInv` says of every copy of every entity, on disk, in what each process has read and in
  each overlay (`CopiesInv`), which marks of a batch it may bear, given the ids that were logged for its creations
  (`Fits`), and that a batch which is not in the log has left no mark (`Untouched`). A pin is a state of the entity from before the batch, hence
  without its marks (`Matches`): an entity that has one cannot equal its pin, which is why the second application is refused.
  That is not enough for a supersession, which changes two entities and pins one: `LinkedBefore` adds that what a later
  operation of the batch changed has the supersession it gained before.
* `LogIsTrue` (`LogAndPagesAgree`) and `EntitiesAreKept` (`NothingIsLost`), from `OrderInv` and `AgreeInv` on top of those. `DraftOK` compares
  what a process is about to write with what it read: nothing that stays where it is has lost a mark, the whole batch
  is shown, and of other batches only what was there. `Lasts` says that what it has read and written is still there, as long as nobody
  wrote over a page that had changed. A process that is still reading has seen pages of different instants; it is looked at as if what it has not read yet
  were on the pages now (`Seen`), so that a write of another changes what it will have read only where it has not been. `AgreesOn` says of a batch that was never stopped halfway that it is
  there as a whole or not at all, or that a process is between two of its pages (`Midway`): without the last the property says
  nothing of the steps between the first page and the last. For moves, `InOrder` names the two pages an entity
  may be on, and `IsAtOne` says that it is on exactly one.
* What one operation leaves is a lemma for each kind (`Gives`, `Works` and `Changes`), and what a batch leaves follows along its
  operations by the least counterexample, as in `PlannedIsTyped`.

`Records_proofs` (any members, records, pages, documents, processes and bounds):

* `NothingGetsLost`: `[]NothingIsSkipped`, from `CatchUpInv`: a cursor is never beyond what digests have
  covered or the reader went past, and of what is covered everything that concerns the reader is known.
  An entry that was cut off is in `cut` from the last page on. `NothingIsSkipped` alone is not inductive, since it says nothing of what lies between the cursor and the
  last digest, where a mark may move it.
* `ApprovalsLoseNothing` (`ApprovalLosesNothing`) and `FourEyesHold` (`[]FourEyes`), from `InboxInv`: a pinned
  text contains the page it was pinned at (`KeepsPin`), a proposal's text contains the page it expects
  (`KeepsExpected`), and who repaired last is a contributor (`Looked`). An approval that finds the page as
  expected can then only add to it, whichever preview it comes from.
* `RunsAreKept` (`RunsKeepTheirWord`), from `WorkInv`: types of playbooks and runs, and that what a process holds is what it
  asked for. That a run starts with its playbook as it is then rests on apply's second planning alone, so
  nothing needs to be known of how old a preview is.
* `FreshSessionsAreTrue` (`IndexTypeOK`, `FreshIsTrue`) and `PassesCommitOneInstant` (`IndexIsOneInstant`), from `IndexInv`. Of a pass: a file
  whose modification time is that of its first observation has been as it was then ever since, so what was read
  of it is what it was at the instant of the pass; after the second observation this holds of every file visited. Of the published index: each
  row is of a content that the file had, and what a session has compared and found unchanged is in `had`, for the index inspected
  and for every index committed since.
* `RecordsAreSafe` and `RecordsAreKept`: the same of `RecordsSpec`, by `EachInv`, the invariant of the kind of record the
  behaviour exercises, the initial states of the others being untouched.
* `RecordsKeepTheirTypes` (`RecordsTypeOK`), from `TypesInv`, which adds to `EachInv` the desk (`DeskInv`), texts made of contributions for
  targets that are pages (`InboxTypesInv`), relays and previews stamped up to the clock (`RelayTypesInv`), and `WikiInv`: pages whose
  entities have a revision, on disk and in what each process is going to write. A batch is planned as a recursive
  function over its operations; `PlannedIsTyped` shows that there is one, and that no plan on the way is ill-typed, by the least
  counterexample (`LeastNatural`) instead of an induction theorem.
* `RecordsApplyOnce` and `RecordsAgreeWithTheLog`: what the previous module proves of the wiki's operations holds of `RecordsSpec`.

**Only model-checked.** The liveness properties, because fairness and `ENABLED` are outside the prover's reach:
`OrphanIsBroken`, `AcquireReturns`, `InterruptedIsClosed`, `JobsEnd`, `EndedSessionsStop`, `CancelStops`, `SetupEnds`. Every invariant and
every action property of the passing runs is stated by a theorem.
`TabsLearn` and the other three properties of the runs marked *violated* are false.

## 5. Not modelled

* The contents of records, pages and graphs: parsing, rendering, extraction, ranking, queries. This is most of
  the repository's lines (`graph/extractor.rs`, `resolve.rs`, `scope.rs`, `agent.rs`, `wiki/synthesis.rs`, `parser.rs`,
  `team/cli.rs`, `main.rs`, the drift checks, set-up): sequential code over large texts, in which
  no two actors meet and nothing is retried. A model would repeat it line by line and say nothing that
  the tests do not. The share of lines that the map covers is small for that reason.
* Two job runs in two Hub processes: each Hub has its own list, and the maintenance locks keep
  them apart.
* The relay of job events between tabs, so `HubStreams` has no second source of knowledge for a tab.
  (`stream` in `core.js` hands the DOM event to `observeJob` as its `fromPeer` argument, `core.js:182`, so tabs
  with a stream do not relay at present.)
* A torn event line after a failing write: the log is a sequence of whole lines.
* The graph's schema versions and their migration, corpus policy and extractor versions, grounding rows
  and parse health: they add reasons to refuse, or carry data along.
* Of the set-up wizard: the revision by which a page learns of a new run state, the review that a commit consumes (an
  edit between the comparison of the fingerprints and `git add` is committed unseen), and the derived set-up status. Of agents: what they print.
* Catch-up's sources other than relays and their activity, and marks in the future within the tolerated skew.
* Wiki sessions that are finalized once, moves of documents, and the cursors of searches, which stay valid
  although a new health mark ranks the results anew (`wiki/index.rs:1219`). A page is read in one step,
  and the operation log is kept by batch.
* The MCP server: each request is answered by a task of its own over a bounded channel
  (`mcp/sse.rs:523`), so answers leave in any order, which JSON-RPC allows. The tools are dispatch.
* Checkpoints of workstreams (a list of the last 200) and the texts of every record.
* The switch `LiveEdits` is off in every run: the code takes no lock that an editor honours; what happens otherwise
  is in the hazards' notes.

## 6. Plan

1. The tab relay, then the SSE sessions of the MCP server, the set-up page's run state, and the other
   sources of catch-up.
