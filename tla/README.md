# Jean Code: models, checks and proofs

Jean Code is a coding agent: a terminal, server or editor front end sends prompts
to an orchestrator, which runs a loop of model requests and tool calls over an
append-only event log. This directory holds TLA+ models of the parts of it whose
correctness depends on the order of events, TLC configurations that check them on
small instances, and theorems about them that TLAPS proves for all instances.

Contents: [parts](#the-parts-of-the-system) ·
[modules](#modules-and-the-code) · [runs](#the-runs) ·
[departures](#where-code-and-words-disagree) · [proofs](#what-is-proved) ·
[limits](#what-is-only-model-checked-or-not-modelled) · [plan](#plan)

To check a configuration: `tlc -config MCAgentLoop_turns.cfg MCAgentLoop`.
To check the proofs of a module: `tlapm AgentLoop_proofs.tla`.
Paths below are relative to the root of the repository.

## The parts of the system

### Core, in TypeScript under packages/

| part | state it keeps | operations | talks to |
|---|---|---|---|
| Event store, `core/src/eventstore.ts` | the session's events, in order | `append`, `transcript` (projection into model messages), `lastCompaction`, `rewind`, `fromJSON` | everything below reads or appends |
| Agent loop, `core/src/loop.ts` | turn, retry, continuation and stop counters; calls of the response | `runLoop`, `runCalls`, `mapLimit`, `partition`, `streamTurn`, `closingTurn`, `maybeCompact`, `pause` | model client, tool registry, hooks, store |
| Compaction, `core/src/compaction.ts`, `context.ts` | none; a compaction event in the store | `compact`, `splitForCompaction` | store, model client |
| File history, `core/src/history.ts` | stack of turns with the first content of each file; what was undone | `beginTurn`, `capture`, `rewind`, `redo` | orchestrator, the project's files |
| Session file, `core/src/session.ts` | one JSON line per event | `saveSession`, `loadSession` | orchestrator at the end of `send`, server |
| Orchestrator, `agent/src/orchestrator/index.ts` | mode, controller of the current run, "started" | `send`, `interrupt`, `rewind`, `redo`, `compactNow`, `setMode`, `persist`, `end` | all of the above |
| Tool registry, `tools/src/registry.ts` | tools by name | `call`: gate, validation, execution | loop; user, for permission |
| Teams, `teams/src/index.ts` | `tasks.json`, `mailbox.json`, a lock file each | `FileLock.acquire`, `TaskList.add/claim/update`, `Mailbox.send/inbox` | processes of teammates, through files only |
| Session server, `cli/src/commands/server.ts` | live sessions, busy flags, streams, open questions | open, prompt, stream, answer, close, `closeAll` | orchestrators, HTTP clients |
| Gateway, `gateway/src/router.ts`, `identity.ts` | identities with their accounts, link codes, a queue per identity; the identities' file | `handleText`, `handleVoice`, `enqueue`, `drain`, `redeemLinkCode`, `unlink` | chat platforms, sessions, the command line through the file |
| Scheduler, `scheduler/src/daemon.ts` | schedules in one file and in memory, running set | `add`, `setEnabled`, `tick`, `execute`, `fireTrigger`, `markFired` | command line, through the file |
| Worktrees, `subagents/src/index.ts`, `agent/src/subagent.ts` | a branch and a directory per sub-agent, a merge queue | `createWorktree`, `finishInner`, `planMerge`, `discard` | git, the project's files |
| Collaboration, `collab/src/session.ts` | participants with roles, highest sequence per sender, rate windows | `join`, `send`, `promote`, `remove`, `end`, `leave`, `handle` | a broadcast relay |
| Language servers, `lsp/src/manager.ts`, `client.ts`, `protocol.ts` | a client per server and project; the documents each server was sent, its latest diagnostics, pending requests | `clientFor`, `start`, `openOrUpdate`, `diagnosticsFor`, `request`, `touch`, `stop` | server processes; tools, the check after each edit |
| Editor protocol, `acp/src/` | sessions, pending requests | `prompt`, `cancel` | editor, over a stream |

The others - tools, hooks, model clients, memory, MCP, debuggers, kernels, retrieval, configuration, the Rust core under `crates/`, and
the desktop, web and SDK shells - are listed in `PROJECT.json` with the reason
each is left out: they are text or data processing, clients of external
processes, or configuration.

### What is hard about it, and what makes it correct

*Loop and session.* Everything is asynchronous: between any two awaits a user may
interrupt, a server may close the session, the process may die. A provider
refuses a transcript in which a tool call lacks its result or a result is not
next to its call, so after any such history **each request must still be valid**,
and so must **what the session file holds**. Calls of one response run in
batches: a call that is not parallel-safe **is a barrier**, and **at most eight**
run at once. An interrupt **stops the run**. Retries, continuations, nudges and
stop hooks all send the loop round again, and **it must still end**.

*Compaction.* The transcript is split, its older part archived and replaced by a
summary across an await, again and again, and archiving may fail. Nothing says how
much a summary keeps; what it replaced must **stay readable**, one recall away, from
the newest summary on.

*File history.* A rewind undoes several turns with nothing but the first content
of each file; a redo takes it back. They must behave **as if whole snapshots had
been kept**, a redo must **invert** a rewind, and a rewind must take out of the
conversation **the turns it undoes and no others**.

*Teams.* Processes share files under a lock file which may outlive its owner.
**One at a time** may be in a transaction, **no task is handed out twice**, **no
two tasks in progress own the same file**, none starts **before its
dependencies**, and a dead teammate **does not wedge** the others. Messages are
given **once and in order**.

*Server.* A request awaits its body, or the opening of a session, while other
clients come in between; a client may go away, a session may be closed while its
run goes on, the process may get a signal or die. **One run at a time** may use an
orchestrator, a turn whose end a client has seen **is in the file** as long as saves
come through, and **every prompt ends** though nobody answers.

*Gateway.* Messages of one identity come from several accounts on several
platforms, and codes are redeemed, accounts unlinked and queues cleared while a
turn runs. **One turn at a time** runs for an identity, **no message is left in a
queue** that nothing empties, the two maps of the identity store **agree**, a code
**binds one account**.

*Worktrees.* Sub-agents copy the main tree, work, and are merged back one after
another; every git command is awaited, and the user, the parent and the other
sub-agents write meanwhile. A merge **undoes no other merge**, work is **in the main
tree or on its branch** unless git fails at it, which nobody looks for, and one
merge that fails **does not stop those behind it**.

*Scheduler.* Ticks come while runs are slow, triggers and edits while both go on,
commands write old copies of the file, and the process may die in a run. A schedule **is not run beside itself**, what was
missed **comes once, not many times**, and what is due **runs in the end**.

*Collaboration.* The relay loses, repeats and reorders. Frames come **once and in
order**, who left **stays out** until it joins anew, a role **outlives old envelopes**, and the host's
**end is the end** for whoever is there.

*Language servers.* Calls overlap, because read-only tools run in parallel and the
check after an edit goes on when the loop no longer waits for it; each awaits the
look for a server, its start, the file, an answer. Servers die, or say nothing.
There is **one server**, it is asked about **a file as it is**, and **every call
comes back**.

The list of hazards in `PROJECT.json` names the lines where each can go wrong.

## Modules and the code

    EventStore ──┬── AgentLoop ──────────────────────┬─ AgentLoop_proofs
                 ├── Compaction ─────────────────────┘
                 └── FileHistory (implements Timeline) ─ FileHistory_proofs
    TaskBoard ───── TeamTasks (implements TaskBoard) ─┬─ TeamTasks_proofs
    Mailbox ──────────────────────────────────────────┤
    Worktrees ────────────────────────────────────────┘
    Server ───────────────────────────────────────────── Server_proofs
    Gateway ──────────────────────────────────────────── Gateway_proofs
    Scheduler ────────────────────────────────────────── Scheduler_proofs
    Collab ───────────────────────────────────────────── Collab_proofs
    LanguageServers ──────────────────────────────────── LanguageServers_proofs

`MC*.tla` instantiate these for TLC; a `.cfg` gives the constants values.
`PROJECT.json` maps each definition to its lines of source. Definitions commented
as "Mutant" are plausible mistakes; each shows that a property notices one.

**EventStore** (extended by three modules) is the log and its projection. An
event is its type and the ids it carries; `Transcript` is `transcript()`,
message by message; `ValidTranscript` is what a provider asks of the messages.

**AgentLoop** is one session. `phase` is the await the run is suspended at;
`store` and `disk` are the log in memory and in the file; `calls`, `lo`, `next`
and `running` are the response's calls, the current batch and the workers of
`mapLimit`; `aborted` is the signal of the current controller, `asked` remembers
that somebody asked. The stretch of code between two awaits is one action, since
JavaScript runs it without interruption: `Send` to `Enter` are `Orchestrator.send`
before the loop, `StartTurn` to `Complete` are `runLoop`, `StartBatch` to
`CallRejects` are `runCalls` with `mapLimit` and `registry.call`, `Advise` is the
end of `send` with its save, `Interrupt`, `CompactNow` and `End` come from
outside, `Crash` and `CrashSaving` replace the process by one that has read the
file. Events the code appends only under conditions the model does not have (a
reminder about a stale file, an advisor's note, a compaction, a change of mode)
may or may not appear at their place; `Optional` says which kinds a run considers.
What the model answers is a free choice: nothing, words, a truncated answer, any
calls, a transient or a final failure.

**Compaction** has the arithmetic and the archive the loop's model leaves out. A
text - a prompt, words, arguments, a result, a summary - is an item with a token
count; `SplitAt` is `splitForCompaction` with its two corrections, and `Begin` and
`Summarize` are the two sides of the await in `compact`. What a summary says is
anybody's guess: the summarizer paraphrases what it is shown, 2 000 characters of each
text, and the fallback lists facts and takes in no summary before it. So a summary is an
item of its own that covers nothing by itself; it may name a frame of the archive, in
which the texts it replaced are (`Archive`), an earlier summary with the frame that one
names among them. `Reached` is what `recall_archive` gets to along these names.

**FileHistory** composes `history.ts` with the orchestrator's `rewind`, `redo`,
`beforeTool` and `setMode`, and with `/clear`. A call to a writing tool is two
steps, capture and write, because hooks and the gate are awaited in between.
**Timeline** is what the two commands promise: a line of whole states to move
along. `IsTimeline` refines one to the other; its mapping computes the state in
which each kept turn began from the captures alone.

**TeamTasks** takes every system call on the shared files as a step: create the
lock, look whether it is stale, remove it, read, write the temporary file, rename,
remove. `Kill` ends a process anywhere, `Age` lets `STALE_MS` pass. **TaskBoard** is
the atomic list it should amount to. "in_progress" is taken with "claimed".
**Mailbox** takes a call in two steps, `CallSend` or `CallInbox` reads the list and `Send`
or `Inbox` puts the changed one in the place of the file; `Die` ends a teammate between or
around them. Its lock is one like that of TeamTasks and is not repeated: the model lets
everybody in, and what the lock is for is the condition `Exclusive`.

**Server** is `jean serve`. A record is what the code calls `Live`: an orchestrator
with its streams; `live` is the map from ids to records, `request` what a client is
waiting for. A request that awaits is two steps: `Open` and `Opened` (the lookup,
then what happens when the opened session comes back), `Prompt` and `Accept` (the
lookup, then the check of `busy` and the start of the run once the body is there),
`Answer` and `Deliver`. A run is one `Orchestrator.send`, whose inside AgentLoop has:
`Ask` asks for permission and waits, `Deliver` and `Expire` settle it, `Finish` saves
and announces the end. `Close` is DELETE, `CloseAll` the handler of signals, `Kill`
a death without one. A session's log is the sequence of its turns, so that "saved"
and "lost" can be told apart. A save empties the file before it writes it and keeps
quiet when it fails (`Save`, `Saves`): in `Finish`, `Close`, `CloseAll` and a `Kill` in the
middle of one, the file may come to hold any first part of the log, or what it held.

**Gateway** is the identity store and the router on top of it. A message has a
place: being transcribed, queued, running, replying, failing, and how it ended.
`Begin` and `Enqueue` are `enqueue`; `TurnEnds`, `Replied`, `ReplyRefused` and
`DrainFails` are the awaits of `drain`, which fetches the next message in the same
step in which it finishes one. `SendCode`, `SendUnlink` and `SendCancel` are the
commands, `Issue`, `Expire` and `Forgive` are codes and their limits, `CliLink` and
`CliUnlink` what another process does to the file, `Restart` a gateway that starts
again from the file. The file is written before the step in which it changes ends.

**Worktrees** follows a sub-agent from its snapshot to its merge. `stage` is the
await it is at. `Spawn` and `CopyUntracked` are the two halves of the snapshot,
`RunInPlace` what happens without a worktree, `Edit` and `EditMain` the work of the
sub-agent and of anybody else, `Stop` how the run ends; `NothingChanged`, `Commit`,
`PlanFile`, `Refuse`, `Write`, `Settle` are `finish` under the promise chain `mergeQueue`,
file by file, `WriteFails`, `Throw` and `Discard` its ways out. A tree is a function from
paths to contents, of which `Absent` is one. The helper `git` hands on what a command has
printed and nobody asks whether it failed: so a snapshot may be the last commit or lack
files, `add` and `diff` may list nothing, `commit` may leave the branch without the work,
`show` may say that the snapshot has no such file. `Git` counts such a failure where
something is lost by it, and `broken` remembers whose merge it was.

**Scheduler** has the store as a pure part (`Added`, `Mark`, `Switch`, `Due` say what
each method makes of the entries) and the daemon on top: `Tick` starts what is due,
`FireTrigger` a trigger, `Finish` is the end of an awaited run with `markFired` and
its save, `FinishUnsaved` the same when the save throws. The daemon works on what it
read when it was made (`data`). A command loads the file (`CliLoad`, into `copies`) and
later writes all of its copy with one change in it (`CliSave`), over what the file has
become; `outdated` and `forgot` remember the schedules this made older, in the file and
in the daemon that loads it. `Kill` and `Boot` lose and read again; a kill may tear the
file. `Pass` is a minute.

**Collab** has a `Session` for each participant, each with its own idea of who is
there. What was sent stays in `sent`, and a participant handles any of it, in any
order, any number of times or never: loss, delay, repetition and reordering are
choices of the relay. `Join`, `Send`, `Leave`, `End` are the calls that transmit; only
`Send` looks at whether the session is over, so a participant may join after it left;
`Over` is the end of the await of `Leave` and `End`; `TooFast`, `Replay`, `Joined`, `Left`, `Ended` and
`Frame` are the paths through `handle`. Which role a guest's own program believes
it has (`Tell`) comes from outside.

**LanguageServers** is one language's server and the calls about its files. A client
keeps apart what it has on record (`open`) and what the server was sent (`told`), and
whether its connection starts, works, or is over. A call is at an await: `looking`
for a server (`clientFor` up to `serverFor`), `starting`, `reading` the file, `read`
(the file is there, the call not yet resumed), `asked`, `watching` for diagnostics.
`Begin` to `NotServed` are `clientFor`, `Started` and `FailToStart` the two ends of
`doStart` with every call that waited for it, `Read` and `Update` the two sides of the
await in `openOrUpdate`, `Answer` and `NoAnswer` how a request ends, `Watch` the loop
of `diagnosticsFor`, `Publish` what a server says unasked, `Exit` its death, `Stop` the
session's end. A text is a number that each edit raises, so that older and newer
can be told apart; diagnostics are the text they were found in.

## The runs

| run | question | bounds | distinct states |
|---|---|---|---|
| loop_session | Are requests and session file valid, and does an abort stop the run, across prompts, interrupts, compactions and a crash? | 2 prompts, 2 turns each, 2 calls, 2 processes; optional: compaction, mode change | 734 582 |
| loop_turns | Are requests valid, batches ordered and bounded, and does every run end, with everything the loop can do in one prompt? | 1 prompt, 2 turns, 3 calls, 2 at once, 1 each of retry, continuation, stop hook; closing report; optional: reminder, advisor's note | 2 720 027 |
| compact_session | Can what summaries replaced be read again from the newest one on? | 10 items of 1 or 20 tokens, threshold 30 | 331 177 |
| history_timeline | Do rewind and redo do what snapshots would, restore the files and cut the conversation exactly? | 3 prompts, 2 files, 2 texts, 8 events, 2 turns kept | 89 985 |
| history_commands | Does redo invert rewind whatever else goes on (hooks that rewrite, other writers, mode changes, /clear, commands during a run)? | 2 prompts, 1 file, 4 events | 348 249 |
| team_tasks | Does the task list keep its promises, with a teammate that may be killed? | 2 teammates (1 mortal), 2 tasks, 1 file | 262 110 |
| server_sessions | Does a session have one run at a time, is an announced turn lost only where a save came to nothing or two orchestrators wrote, is no prompt left without an end? | 1 session, 2 clients, 2 records, 2 turns, 1 question | 454 756 |
| gateway_messages | Is there one turn per identity, do the maps agree, does a code bind once, is every message answered? | 2 accounts, 2 identities, 1 code, 3 messages, 1 wrong code per account, 2 in all | 854 857 |
| worktrees_merge | Does a merge that git has not failed undo no other one and lose no work, and is every sub-agent settled? | 2 sub-agents, 2 paths (1 tracked), 3 contents, 3 edits, 1 git command that fails | 1 919 946 |
| scheduler_daemon | Is a schedule never beside itself, never behind itself, and does what is due run? | one schedule of each kind, 3 minutes, 1 kill, 1 edit | 1 299 647 |
| collab_relay | Do frames come once and in order, do the absent stay out, do roles hold, and does the end reach everybody? | host and 2 guests, 1 envelope per sender and second, 3 envelopes | 874 186 |
| lsp_calls | Do requests find the text of the call or a newer one, is there one server, does every call come back? | 1 file, 2 calls at once, 2 texts (1 with an error), 2 clients | 415 970 |

`Mailbox` is small and not among them; `MCMailbox_delivery.cfg` checks on 9 407 states,
with 3 teammates, one of whom may be killed, and 3 messages, that messages are given once
and in order under a lock that excludes.

Why these bounds. *Loop:* two turns give a batch before a request, two prompts a
resumed conversation, three calls every shape of batches (serial between
parallel, parallel between serial, more parallel calls than workers), and each
counter needs one step to its limit. The two runs divide the work: loop_session
has several prompts and no reminders, loop_turns has one prompt and all the
loop's branches. In loop_turns a gate may throw and a save may be torn, so that
these steps are in the runs; with one prompt no request follows them, so what
they do to later requests is not what that run shows (it is below). *Compaction:*
ten items are enough for two compactions with new turns between them and the first
summary in the older part, and weights of 1 and 20 put the 30% boundary anywhere. *File history:* with two turns kept and
three prompts the stack overflows, two texts tell an old content from a newer
one, and two files a touched one from another. *Teams:* two tasks make a
dependency and a shared file; a third teammate is needed only for the race in
which two break one lock (below). *Mailbox:* three messages make one to each of
two and one to all. *Server:* two clients are two that open, prompt or answer at
once; two records are one session opened twice, or closed and resumed; two turns
are a prompt while another runs. *Gateway:* three messages are one that runs, one
that waits, and one behind it; two identities are needed for an account that moves
between them, and each limit on wrong codes is reached. *Worktrees:* two sub-agents
are one that plans while the other has written, and two that start from different
trees; three contents tell base, ours and theirs apart, and three edits change all
three, from a main tree that agrees with the last commit on the tracked file; one git
command that fails breaks the merge of one sub-agent beside one that works.
*Scheduler:* minutes 2 and 3 fire, so that one may be missed while a run of
the other is slow; one kill and one edit fall anywhere, and a command may write its
edit after any of the rest. *Collaboration:* what goes
wrong goes wrong between a sender and a receiver; a second guest shows that what
one hears of another does not matter to the third. Three envelopes make a join, a
frame and an end or a leave, in every order and more than once. *Language servers:*
two calls are one that reads before an edit and one after it, in both orders of going
on; the second client is made when the first failed or was stopped. With two files
and one text (351 088 states), and with one file and three texts without
`CallsReturn` (1 695 083), the same properties hold.

Deadlock is not checked (`CHECK_DEADLOCK FALSE`): each bound ends behaviours that
in the code would go on.

Fairness. Safety runs assume none. `loop_turns` uses `FairSpec`, weak fairness of
the run's own steps: streams, hooks, tools and the advisor each have a timeout or
answer the abort signal, and JavaScript's event loop resumes what has settled.
Nobody has to send, interrupt, compact or crash. `team_tasks` assumes that a live
teammate goes on and asks again, and that time passes (`Age`); a killed one owes
nothing.
`server_sessions` assumes that a run which waits for no answer returns (this is
`RunEnds` of the loop) and that the timer of a question fires; clients owe nothing.
`gateway_messages` assumes that turns return and platforms answer, also with a
refusal; nobody has to write. `worktrees_merge` assumes that git commands return and
that the chain of promises goes on; no run of a sub-agent has to stop.
`scheduler_daemon` assumes that the interval timer fires, that runs return, and that
somebody starts a dead daemon again; time need not pass. `collab_relay` assumes that
the relay brings the host's end to each guest; other envelopes may all be lost.
`lsp_calls` assumes of a call that a file is read and that the timers of requests and
of the wait for diagnostics fire, and of `initialize` that it is answered or times
out; servers need not answer, publish or exit.

## Where code and words disagree

Where the code does not do what it, a comment or a test says, a property that says
so is kept in the model, below "What does not hold", and TLC finds it violated. To
see a counterexample, name the property in a configuration with the constants given
here (those of the run, with what is changed). No run is kept for these.

| model | what fails | because |
|---|---|---|
| AgentLoop, 2 prompts of 1 call and 2 turns, every flag `FALSE`, other limits 0, `MaxParallel = 2` | `InterruptHonoured` | `send` awaits plugins and hooks before it makes the run's `AbortController` (`orchestrator/index.ts:479`); `interrupt` in that time ("Interrupts the run in progress.", 404) aborts the controller of the run before, and the run starts |
| the same with `GateMayThrow = TRUE` | `RequestsValid` | the gate, with the unguarded `tool.summarize` in it (`registry.ts:247`), is outside the `try` of `registry.call`, though "failures become error *results* rather than thrown exceptions" (103); when it throws, the calls of the batch stay in the log without results, and the next prompt sends them |
| Compaction, as in compact_session | `RecentIntact` | the compaction event goes to the end of the log (`compaction.ts:122`) and the next transcript starts after it, so the recent messages that are to be kept "intact" (`context.ts:160`) are neither summarized nor sent |
| FileHistory `Clears = TRUE`, 1 path, 2 texts, 3 prompts, 6 events, `MaxTurns = 3` | `RewindExact` | `/clear` cuts the log (`slash.ts:171`) and leaves the file history's indexes into it, which `rewind` trusts (`orchestrator/index.ts:613`) |
| TeamTasks, 3 teammates, 1 file, `MaxTasks = 1` | `ClaimedOnce` | two teammates find a dead one's lock stale; the second removes the lock the first has just made (`teams/src/index.ts:86`), though claiming is "atomic under the lock" (175) |
| AgentLoop `TornWrites = TRUE`, 2 prompts, 2 processes | `ResumeValid`, `RequestsValid` | `saveSession` rewrites in place (`session.ts:45`): the lines left may end between a call and its result, although `session.ts:60` calls such a session "perfectly usable" |
| AgentLoop `EndMidRun = TRUE` | `ResumeValid` | the server closes a session whose batch is running (`server.ts:248`) and saves calls without results |
| AgentLoop `CommandsMidRun = TRUE` | `RequestsValid` | the full-screen terminal compacts at once (`tui2/src/commands/jean.ts:103`), between calls and results |
| FileHistory `HooksRewrite = TRUE` | `RewindRestores` | the capture is of the path before the hook changed it (`orchestrator/index.ts:530`) |
| FileHistory `OtherWriters = TRUE` | `RewindRestores` | `lsp_rename` and its like are not among the captured tools |
| FileHistory `Notes = TRUE` | `RewindExact` | a mode change between a rewind and its redo shifts the log under the redone turns (`orchestrator/index.ts:630`) |
| FileHistory `CommandsMidRun = TRUE` | `TurnsBeginWithPrompts` | a rewind during a run takes the prompt away from what the run appends next (`jean.ts:73`) |
| FileHistory `Clears = TRUE`, 3 turns kept, 5 events | `TurnsBeginWithPrompts` | `/clear` leaves the rewinds to be redone too: a redo after it may bring back the answer of a turn and not the prompt |
| Compaction, as in compact_session | `SplitKeepsPairs` | the correction that keeps one exchange undoes the one that skips tool messages (`context.ts:187`): the summarizer gets a call whose result is kept |
| Compaction `Threshold = 20` | `RequestsFit` | where the first message holds more than 70% of the tokens the split comes before it (`context.ts:176`): nothing is summarized and the request goes out over the threshold, although compaction "has to work" and "running out of context must never end a session" (`compaction.ts:16`) |
| Compaction, as in compact_session | `AllReached` | when archiving fails once (`compaction.ts:233`), the next summary names no frame, and what was archived before, "one `recall_archive` call away instead of gone" (208), is named nowhere any more |
| TeamTasks `Slow = {m1}`, `Mortal = {}` | `ClaimedOnce` | a stalled teammate renames an old list and removes another's lock (`teams/src/index.ts:78`) |
| Mailbox with `MailboxSpec`, as in MCMailbox_delivery | `InOrderOnce` | what two that are inside at once read and replace is lost or given twice: this is what the races of the lock, above, do to the mailbox |
| Mailbox, as in MCMailbox_delivery | `BroadcastReachesAll` | the first reader marks a message to all as read (`teams/src/index.ts:291`) |
| Server, as in server_sessions | `OneWriter` | two requests that resume a session both find it is not live, and both open it (`server.ts:108`); a session closed while its run goes on may be resumed beside it (248) |
| Server, as in server_sessions | `AnnouncedStays` | a save empties the file first (`session.ts:45`) and `persist` ignores that it failed (`orchestrator/index.ts:1034`), so that one that is cut off takes turns with it that were announced long before, although it "must not lose the turn that just succeeded" (1035); and of two orchestrators the later save wins |
| Server, as in server_sessions | `Reachable` | DELETE forgets a session before its run has returned |
| Gateway, as in gateway_messages | `RepliesToAsker` | `drain` replies to the account that started it, also for messages of another account of the identity (`router.ts:206`) |
| Gateway, as in gateway_messages | `OnlyLinkedRun` | messages that wait run though their account was unlinked meanwhile |
| Gateway, as in gateway_messages | `CliHolds` | a running gateway saves what it holds in memory over what the command line wrote (`extras.ts:216`) |
| Worktrees, as in worktrees_merge | `EditsKeep` | what somebody writes between the plan and the write of a file is overwritten (`subagents/src/index.ts:348`) |
| Worktrees, as in worktrees_merge | `RefusedIsKept` | the commit that should "keep the work on the branch whatever happens next, so a refused merge loses nothing" (`index.ts:127`) may fail, and `git` (447) tells nobody; a conflict then removes the worktree with the only copy, and `finishWorktree` says that the work "is preserved" (`subagent.ts:453`) |
| Worktrees, as in worktrees_merge | `NothingIsNothing` | a `git add` or `git diff` that fails lists no files, and "The sub-agent changed nothing." (`index.ts:124`) removes worktree and branch |
| Worktrees, as in worktrees_merge | `NeverUndone` | a `git show` that fails reads as "not there in the snapshot" (`index.ts:344`): a file that another merge has removed is written again |
| Worktrees, as in worktrees_merge | `SnapshotWhole` | tracked and untracked files are copied one after the other |
| Scheduler, as in scheduler_daemon | `SeesEdits` | the daemon reads the store once, when it is made, although "polling a persisted `nextRunAt` is correct across" every edit (`daemon.ts:192`) |
| Scheduler, as in scheduler_daemon | `MarksHold` | a command that loaded the file before a run was marked (`extras.ts:100`) writes its old copy over the mark (`daemon.ts:65`); after a kill and a start the schedule runs again for the same minute, and a once schedule a second time |
| Scheduler, as in scheduler_daemon | `EnabledRuns` | a once schedule that has fired and is enabled again is not due |
| Scheduler, as in scheduler_daemon | `StoreSurvives` | a torn file is read as none (`daemon.ts:52` says this is meant) |
| Collab, as in collab_relay | `SendersKnown` | a frame that overtakes its sender's join makes the join a replay (`session.ts:281`); and who comes later never hears the join at all, so that all frames of the host are "from someone not in the session" |
| LanguageServers, as in lsp_calls | `ReportsCurrent` | `diagnosticsFor` returns at once when errors are on record (`client.ts:281`), also those of the text before the edit it is called for, though `problemsIn` hands on "the errors language servers now report" (`orchestrator/index.ts:1067`) |
| LanguageServers, as in lsp_calls | `EndStops` | a call that awaits `serverFor` while `stop` runs makes and starts a client afterwards (`manager.ts:94`), which nobody stops, though `stop` "stops every server" (185) |
| Collab, as in collab_relay | `RemovedStaysOut` | the host's `remove` does not last: a join still under way brings its sender back |

With the constants as the passing runs have them the same properties hold where
the table changes a constant, and fail where it does not.

What the models leave to be read in the code, since no state of theirs tells it apart:

- Server: a second client that answers a question is told "answered" though it
  decided nothing (`server.ts:267`); `/abort` (256) leaves an open question open until
  its timer.
- Gateway: `jean gateway link` draws a code in a process that exits with it
  (`extras.ts:216`, `identity.ts:140`), so nobody can redeem it. A reply refused twice
  strands the rest of the queue until the next message. `/cancel`, which the help
  calls "interrupt the running turn" (`router.ts:145`), drops the queue only (170).
- Worktrees: work is said to be "preserved on branch" also where nothing changed and
  the branch was deleted (`subagent.ts:453`); a run out of turns is reported as ok
  though its work is discarded (433, 275); two parallel spawns with one `task_id`
  run two loops on one store (150).
- Scheduler: `nextRun` is documented as "at or after" but is strictly after
  (`scheduler/src/index.ts:102`); day of month and day of week must both match; no
  program of the repository makes a `Daemon`, and `jean schedule run`, which
  `extras.ts:147` mentions, does not exist.
- Collaboration: `join` may be called after `leave` or the end and brings its sender back
  with everyone who still listens (`session.ts:133`), though only `send` says that "this
  session has ended" (139). `promote` tells nobody, so that a promoted guest's own `send` goes on
  refusing (`session.ts:205`, 144); `collab.test.ts:259` sets the guest's role by hand.
  An invite made by a guest names the guest as host (167).
- Language servers: "a server that ignores SIGTERM would otherwise outlive the CLI"
  (`client.ts:537`) and does, since `child.killed` is true once that signal was sent, so that
  SIGKILL never follows. A server that has exited is never started again, since
  `initialized` stays set (`client.ts:96`): every later answer is empty, and errors
  that were on record stay. A document is never closed: nothing calls
  `LspClient.close` (246).

## What is proved

Every invariant, action property and refinement that a run checks is stated by a
theorem, for all values of the constants but for the hypotheses named here; the
liveness properties are not.

`AgentLoop_proofs`, for every number of turns, calls, workers, retries, prompts
and processes, every set of optional events and every value of the flags - torn
saves, throwing gates, commands during a run and early ends included:

- `TypeCorrect`: `Spec => []TypeOK`.
- `SerialCallsAreBarriers`: `Spec => []SerialBarrier`.
- `BatchesAreBounded`: `Spec => []BoundedBatch`.
- `AbortStopsTheRun`: `Spec => AbortStops`.

The argument is one inductive invariant, `IInv == TypeOK /\ BatchInv`. `SerialBarrier`
alone is not inductive: it says nothing of a batch that has not started. `BatchInv`
adds where the batch stands - `lo` inside the calls, every call before it recorded,
`next` just past what has started - from which a step that starts or records a
batch re-establishes it. The lemmas say what `BatchEnd` returns, that appending
keeps answers in the log, and that the events a step appends are events; then one
lemma for each group of variables (store, counters, flags, batch) has one step for
each action. `AbortStops` needs no invariant beyond this: it is read off the
actions, one by one.

With the four flags `GateMayThrow`, `EndMidRun`, `CommandsMidRun` and `TornWrites` off -
each has a counterexample above when it is on - also:

- `CallsAreAnswered` (`TranscriptInv`), and from it `RequestsAreValid`
  (`RequestsValid`) and `ResumesAreValid` (`ResumeValid`).

`RequestsValid` is not inductive: it says nothing of the log in the middle of a
batch. `TranscriptInv` says that no call waits for its result in the file, nor in the
log but those of the batches left: there the transcript is a valid one, the answer
with its calls, and one message with the results of the calls before `lo`, in order.

About `Compaction`, without hypotheses: `ReplacedIsRecallable` (`Recallable`), for any
weights, threshold and number of texts. It rests on `CompactionInv`: from the newest
summary of the log a frame is reached that holds each text replaced since archiving last
failed (`Leads`), and while a summary is being written the one before it is in the part
that is archived. `LogInv` says where in the log summaries
are, `Newest` that a transcript begins with the last of them.

`FileHistory_proofs`, for any files, texts, prompts, events and turns kept; a theorem
assumes no more of the flags than it says:

| theorem | states | assumes off |
|---|---|---|
| `TypeCorrect` | `TypeOK` | nothing |
| `RedoTakesRewindBack` | `RedoInvertsRewind` | nothing |
| `RewindsRestore` | `RewindRestores` | `HooksRewrite`, `OtherWriters`, `CommandsMidRun` |
| `RewindsAreExact` | `RewindExact` | `Notes`, `Clears`, `CommandsMidRun` |
| `TurnsAreLed` | `TurnsBeginWithPrompts` | `Clears`, `CommandsMidRun` |
| `CapturesAreSnapshots` | `IsTimeline` | all five |

Each flag a theorem assumes off breaks the property where it is on. Four invariants
carry these, and none of the properties is inductive without one:

- `FilesInv`: undoing a turn's captures from the state the next turn began in gives
  the state the turn itself began in (`Chain`), for the turns that can be rewound
  and, from where each redo will land, for those to be redone.
- `LogInv`: the log's events are on the right side of each turn's position
  (`Dated`), also in what rewinds cut off, and a rewind to be redone goes on where
  the log, or the rewind to be redone before it, ends (`Follows`).
- `PromptsInv`: the prompt of each event that was cut off is before it there, in
  what a later rewind cut off, or still in the log. It needs no positions, so that
  mode changes do not matter to it.
- `HeightInv`: redoing everything never makes more turns than are kept, so that the
  bound of the stack cuts nothing on the way.

The refinement is proved step by step (`PromptIsPrompt`, `EventIsChange`,
`CaptureIsStutter`, `RewindIsRewind`, `RedoIsRedo`). By `FilesInv` the states the mapping
computes from captures are those in which the turns' prompts were sent (`Snaps`),
which a prompt, an event, a rewind and a redo extend, keep, cut and join.

`TeamTasks_proofs`, for any teammates, files and tasks:

- `TypeCorrect`, with kills and stalls.
- Under `OneBreaker` - nobody stalls, and either nobody dies or there are no more
  than two teammates, each of which may - `LockExcludes` (mutual exclusion),
  `FilesImplementBoard` (`TeamTasks` implements `TaskBoard`), and from the refinement
  `TasksClaimedOnce` and `TasksNeverOverlap`.

Mutual exclusion and refinement rest on `LockInv`: an old lock is a dead teammate's
and stays until it is removed, who is inside holds the lock, and the list it is about
to write is still what the operation makes of the file as it is. A rename is then a
step of the board and every other step, a death included, a stutter (`BoardRefined`).
On the board, `ClaimedOnce` follows from `BoardInv` (what was handed out is not pending
and belongs to whom it was given), which is inductive together with `NoOverlap`.
`OneBreaker` is as weak as it can be in terms of who is there: two that live on after
the owner of a lock, or one that stalls, give the counterexamples in the table above.

About `Mailbox`, for any teammates and messages and wherever teammates are killed, as long
as the lock excludes (`[]Exclusive`, a hypothesis here and what `LockExcludes` says of such a
lock under `OneBreaker`): `MailInOrderOnce`, that `inbox` gives a teammate what was for it
once and in the order it was sent, and nothing to two. A call is two steps, and between
them its copy is the file as it is, because nobody else is in. `GivenInv` adds that whatever came before a message and was for the same teammate is
read as well, so that what is given next comes after it.

About `Worktrees`, for any sub-agents, paths and contents and any number of git commands
that fail: `MergeTypeCorrect`, `MergesKeepTheorem` and `NoWorkLostTheorem`. All rest on
`HeadMerges`: only the first of the merge queue plans and writes, so that nobody else's
merge comes between its plan and its writes. What they say of a merge they say where git
has not failed that one; that a conflict writes nothing they say of all.

`Server_proofs`, for any sessions, clients and bounds, with saves that fail or are cut off
and a death anywhere: `TypeCorrect`, `OneSendTheorem` and `NothingLostTheorem`. `OneSend` is inductive
once it is known that runs and requests speak of records and questions that are
there (`Known`, proved with the type). `NothingLost` rests on `DiskInv`: of the records
of a session that is not among the `doubled` only one can still write its file and every
turn announced as done, but for those lost when it was opened, is in that one's log
(`OneWriterHolds`), so that a save that succeeds mends what one before it has torn; the
turn of every run is in its record's log (`RunStored`).

`Gateway_proofs`, for any accounts, identities, codes and messages: `TypeCorrect`,
`OneTurnTheorem`, `NoneForgottenTheorem`, `AccountsAgreeTheorem` and `CodeOnceTheorem`.
There are two invariants, since store and router share little: `StoreInv` (the maps
agree, and codes that can be redeemed differ from each other and from those that
were) and `RouterInv` (a message is worked on exactly if its identity's drain is at
it, and waits exactly if it is queued, once).

`Scheduler_proofs`, for any schedules and minutes: `TypeCorrect`, `OneRunTheorem` and
`PacedTheorem`. A lemma says what `NextRun` returns; `Paced` then needs that the next
time of a marked cron schedule lies after its mark: in memory unless it is among the
`forgot`, in the file unless it is among the `outdated`. Nothing is assumed of the copies
that commands hold.

`Collab_proofs`, for any guests, any rate and any number of envelopes: `TypeCorrect`,
`OnceInOrderTheorem`, `LeftIsOutTheorem` and `RolesHoldTheorem`. Order needs that what was
given is not above what was seen; that who left stays out, until it joins anew, needs
that the leave, once handled, has been seen.

`LanguageServers_proofs`, for any files, overlapping calls, texts and clients:
`TypeCorrect`, `NoStrayTheorem` and `AskedFreshTheorem`. Neither property is inductive.
`AskedFresh` needs that what a call has read is no older than what there was when it
began (`ReadsFresh`) and that a running server was sent what its client has on record
(`InStep`), so that a text left out as known is known; `AfterStart`, that no call goes
on with a client still starting, keeps the two together.

The named assumptions on constants (`LimitsAssumption`, `CompactionAssumption`,
`HistoryAssumption`, `TeamAssumption`, `ServerAssumption`, `GatewayAssumption`,
`WorktreesAssumption`, `SchedulerAssumption`, `CollabAssumption`, `LanguageServersAssumption`) say that limits
are natural numbers, that a batch has at least one worker, a run at least one turn, a
history at least one turn to keep, and a sender at least one envelope a second, that
there is something to choose where `Init` chooses, that a name for "no one" is
nobody's, that "absent" is no text, that tracked files are files, that a schedule is of
one kind as far as time is concerned, and that the host is not a guest.

## What is only model-checked, or not modelled

- Liveness (`RunEnds`, `NeverWedged`, `RunsEnd`, `AllAnswered`, `MergesEnd`,
  `DueRuns`, `EndReaches`, `CallsReturn`): outside the prover's fragment.
- The type invariants are proved, and not checked by a run as well.
- The hypotheses of the theorems about AgentLoop, FileHistory and TeamTasks are values
  of flags and sets. Where a run has other values (gates that throw and torn saves in
  loop_turns), what it shows there is TLC's.
- What a recursive definition computes for every input is out of the provers' reach
  as an induction. Where a proof needs it (`Transcript`, `Undo`, `Ahead`, the sums of
  `SplitAt`), the definition is a function on an interval and the lemma about it is
  proved by a least or greatest counterexample.
- What texts say, token counting, formatting, permission rules and the contents of
  tools are abstracted. A directory is not a file of the history's model, and files
  changed by shell commands are outside the history in the code as well.
- `send` while another `send` of the same session runs: the terminals and the server
  prevent it (`OneSend`); the editor protocol does not, and is not modelled.
- Server: requests that share nothing (listing, describing, `/model`, the password),
  and how HTTP streams are written.
- Gateway: voice notes whose words are a command; messages that arrive between
  `adapter.start` and the router's registration; the gap of a microtask between the
  end of `drain` and its `finally` is taken as atomic.
- Worktrees: sub-agents of sub-agents, the isolated copy made where there is no git,
  processes a run leaves in the background. A branch that git cannot delete stays; a
  `rev-parse` of the snapshot that fails leaves nothing to compare with, and counts as a
  `diff` that failed.
- Compaction: of a call's arguments only 400 characters are archived (`context.ts:204`),
  which is why `Arguments` are not in a frame, and images and thinking not at all;
  `recall_archive` returns 30 000 characters at a time. What a split keeps out of the
  summary is not archived either (`RecentIntact`, above). A /compact while a run goes on is
  in AgentLoop (`CommandsMidRun`), not here.
- Mailbox: its lock, whose exclusion is a hypothesis, and the temporary file, which
  nobody reads.
- Scheduler: what a run does, its history, and a command that loads the file while the
  daemon is writing it and finds half of it.
- Collaboration: invites, which nothing connects with joining, and sealing. A promotion
  to host is left out (`Granted`).
- Language servers: more than one language at a time, the Rust engine (`pi-lsp`) that
  serves instead when it is built, and the framing of messages.
- The components listed as `not_modelled` in `PROJECT.json`.

## Plan

What would come next, in order of weight:

1. *Editor protocol* (`acp/src/session.ts`): prompts of one session that overlap, and a
   cancel between them, over an AgentLoop that takes a second `send`. Properties: a
   cancel stops the prompt it is for, and each prompt gets its own answer.
2. *Server over AgentLoop*: the composition in which `Finish` of a run is the loop's
   save, so that a close in the middle of a batch is seen in both.
3. *Kernels* (`runtime/src/kernel.ts`): a reset while executions are queued, calls that
   a program makes back into the agent, and what of a stopped process still arrives.
   *Debug sessions* (`dap/src/session.ts`): breakpoints across a restart.
4. *Hooks, plugins and the model clients' retries*, as far as they are control.
5. Proofs: `RequestsValid` of a process whose gate throws, up to its next prompt;
   what of the task list holds with three teammates until two break one lock; the
   prompts of the editor protocol and the composition above, once modelled.
