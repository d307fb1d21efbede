------------------------------ MODULE AgentLoop ------------------------------
(***************************************************************************)
(* One session of the agent: packages/core/src/loop.ts (runLoop), driven   *)
(* by Orchestrator.send (packages/agent/src/orchestrator/index.ts) and     *)
(* saved by packages/core/src/session.ts.                                  *)
(*                                                                         *)
(* Processes that interleave at every "await": the run itself, the tool    *)
(* calls of a batch (mapLimit), the user or the server who interrupts or   *)
(* ends the session, and crashes of the process followed by a resume from  *)
(* the session file.                                                       *)
(***************************************************************************)
EXTENDS EventStore, FiniteSets

CONSTANTS
  MaxTurns,          \* maxTurns
  MaxContinuations,  \* MAX_CONTINUATIONS
  MaxStops,          \* maxStopContinuations
  Retries,           \* length of the retry schedule
  MaxParallel,       \* MAX_PARALLEL_CALLS
  WrapUp,            \* whether the run owes a closing report (sub-agents)
  GateMayThrow,      \* whether the permission gate of a tool can throw
  EndMidRun,         \* whether end() can come while a run is in flight
  CommandsMidRun,    \* whether slash commands run while a run is in flight
  TornWrites,        \* whether a crash can hit the middle of a save
  Optional,          \* bound: types of optional events that may be appended
  MaxCalls,          \* bound: tool calls in one response
  MaxPrompts,        \* bound: prompts sent
  MaxBoots           \* bound: processes that open the session

ASSUME LimitsAssumption ==
  /\ {MaxTurns, MaxParallel} \subseteq Nat \ {0}
  /\ {MaxContinuations, MaxStops, Retries} \subseteq Nat
  /\ {MaxCalls, MaxPrompts, MaxBoots} \subseteq Nat
  /\ Optional \subseteq EventTypes
  /\ {WrapUp, GateMayThrow, EndMidRun, CommandsMidRun, TornWrites}
       \subseteq BOOLEAN

Kinds   == {"parallel", "serial"}      \* runsInParallel(tool), or not
Phases  == {"idle", "preparing", "connecting", "top", "requesting", "pausing",
            "stopping", "batch", "running", "closing", "advising"}
Reasons == {"none", "complete", "max_turns", "aborted", "error", "blocked",
            "rejected"}

VARIABLES
  (* The session. *)
  store,           \* EventStore.events
  disk,            \* the session file, a sequence of events
  ended,           \* end() was called
  prompts, boots,  \* bounds

  (* The run: where it waits, and its locals. *)
  phase, reason, turns, attempt, continuations, stops, nudged,

  (* The tool calls of the current response. *)
  calls,           \* kinds of the calls, in the order the model issued them
  lo, next,        \* first call of the current batch; next one mapLimit takes
  running,         \* positions of the calls in flight

  (* Interruption. *)
  aborted,         \* the signal of the current run's AbortController
  asked            \* someone asked for an interrupt during the current send()

sessionVars == <<store, disk, ended, prompts, boots>>
counters    == <<turns, attempt, continuations, stops, nudged>>
batchVars   == <<calls, lo, next, running>>
signals     == <<aborted, asked>>
vars == <<sessionVars, phase, reason, counters, batchVars, signals>>

-----------------------------------------------------------------------------
(* Helpers. *)

Asks      == Cardinality({i \in DOMAIN store : store[i].type = "assistant_message"})
CallId(i) == <<Asks, i>>

(* The ids of the first n calls of an answer. *)
CallIds(answer, n) == [i \in 1..n |-> <<answer, i>>]

(* What the code appends only sometimes: the event, or nothing. *)
Some(type) == {<<>>} \cup (IF type \in Optional THEN {<<Plain(type)>>} ELSE {})

(* Mutant: one batch holds every call left. *)
BatchEndGreedy(i) == Len(calls)

(* The last call of the batch that starts at position i (partition): a     *)
(* serial call stands alone, consecutive parallel-safe ones go together.   *)
BatchEnd(i) ==
  IF calls[i] = "serial" THEN i
  ELSE CHOOSE j \in i..Len(calls) :
         /\ \A k \in i..j : calls[k] = "parallel"
         /\ j = Len(calls) \/ calls[j + 1] = "serial"

CallEvents(from, to) ==
  [i \in 1..(to - from + 1) |-> Event("tool_call", <<CallId(from + i - 1)>>)]
ResultEvents(from, to) ==
  [i \in 1..(to - from + 1) |-> Event("tool_result", <<CallId(from + i - 1)>>)]

(* The call and its "Interrupted by the user" result, for each call left. *)
Interruption(from, to) ==
  [i \in 1..2 * (to - from + 1) |->
     Event(IF i % 2 = 1 THEN "tool_call" ELSE "tool_result",
           <<CallId(from + ((i - 1) \div 2))>>)]

(* Mutants: the calls without their results; only the batch at hand. *)
InterruptedEventsUnanswered(from) == CallEvents(from, Len(calls))
InterruptedEventsOneBatch(from)   == Interruption(from, BatchEnd(from))

InterruptedEvents(from) == Interruption(from, Len(calls))

NoCalls == calls' = <<>> /\ lo' = 1 /\ next' = 1 /\ running' = {}
ResetCounters == /\ turns' = 0 /\ attempt' = 0 /\ continuations' = 0
                 /\ stops' = 0 /\ nudged' = FALSE

Init ==
  /\ store = <<Plain("session_start")>>
  /\ disk = <<>>
  /\ ended = FALSE /\ prompts = 0 /\ boots = 1
  /\ phase = "idle" /\ reason = "none"
  /\ turns = 0 /\ attempt = 0 /\ continuations = 0 /\ stops = 0 /\ nudged = FALSE
  /\ calls = <<>> /\ lo = 1 /\ next = 1 /\ running = {}
  /\ aborted = FALSE /\ asked = FALSE

(* finish(): the loop returns; send() goes on to the advisor. *)
Finish(r) == phase' = "advising" /\ reason' = r /\ NoCalls

-----------------------------------------------------------------------------
(* Orchestrator.send, up to the loop. *)

(* A prompt arrives.  A magic keyword may switch the mode; then the hooks  *)
(* of SessionStart and UserPromptSubmit are awaited.                       *)
Send ==
  /\ phase = "idle" /\ ~ended /\ prompts < MaxPrompts
  /\ \E e \in Some("mode_change") : store' = store \o e
  /\ prompts' = prompts + 1
  /\ phase' = "preparing" /\ reason' = "none"
  /\ asked' = FALSE
  /\ UNCHANGED <<disk, ended, boots, counters, batchVars, aborted>>

(* A UserPromptSubmit hook refuses the prompt: send() returns at once. *)
Block ==
  /\ phase = "preparing"
  /\ phase' = "idle" /\ reason' = "blocked"
  /\ UNCHANGED <<sessionVars, counters, batchVars, signals>>

(* The prompt is appended, with what was recalled for it, and the run gets *)
(* its AbortController; the MCP servers are awaited next.                  *)
Accept ==
  /\ phase = "preparing"
  /\ \E e \in Some("reminder") :
       store' = store \o <<Plain("user_message")>> \o e
  /\ aborted' = FALSE
  /\ phase' = "connecting"
  /\ ResetCounters
  /\ UNCHANGED <<disk, ended, prompts, boots, reason, batchVars, asked>>

Enter ==
  /\ phase = "connecting"
  /\ phase' = "top"
  /\ UNCHANGED <<sessionVars, reason, counters, batchVars, signals>>

-----------------------------------------------------------------------------
(* runLoop. *)

(* The head of the loop for an interrupted run. *)
TopAborted ==
  /\ phase = "top" /\ turns < MaxTurns /\ aborted
  /\ Finish("aborted")
  /\ UNCHANGED <<sessionVars, counters, signals>>

(* A turn starts: reminders, then maybeCompact, then the request. *)
StartTurn ==
  /\ phase = "top" /\ turns < MaxTurns /\ ~aborted
  /\ turns' = turns + 1
  /\ attempt' = 0
  /\ \E r \in Some("reminder"), c \in Some("compaction") :
       /\ c # <<>> => Len(Transcript(store \o r)) > 4
       /\ store' = store \o r \o c
  /\ phase' = "requesting"
  /\ UNCHANGED <<disk, ended, prompts, boots, reason, continuations, stops,
                 nudged, batchVars, signals>>

(* The turns are spent: a sub-agent writes its report, others stop here. *)
TurnsSpent ==
  /\ phase = "top" /\ turns = MaxTurns
  /\ IF WrapUp /\ ~aborted
     THEN /\ store' = Append(store, Plain("reminder"))
          /\ phase' = "closing"
          /\ UNCHANGED <<reason, batchVars>>
     ELSE /\ Finish("max_turns")
          /\ UNCHANGED store
  /\ UNCHANGED <<disk, ended, prompts, boots, counters, signals>>

(* closingTurn: words only.  Tool calls the model sends anyway are dropped, *)
(* and an empty or failed answer adds nothing.                             *)
Close ==
  /\ phase = "closing"
  /\ \E e \in {<<>>, <<Plain("assistant_message")>>} : store' = store \o e
  /\ Finish("max_turns")
  /\ UNCHANGED <<disk, ended, prompts, boots, counters, signals>>

(* streamTurn failed. *)
RequestAborted ==
  /\ phase = "requesting" /\ aborted
  /\ Finish("aborted")
  /\ UNCHANGED <<sessionVars, counters, signals>>

(* Mutant: the attempt is not counted. *)
RequestRetriedForever ==
  /\ phase = "requesting" /\ ~aborted /\ attempt < Retries
  /\ phase' = "pausing"
  /\ UNCHANGED <<sessionVars, reason, counters, batchVars, signals>>

RequestRetried ==
  /\ phase = "requesting" /\ ~aborted /\ attempt < Retries
  /\ attempt' = attempt + 1
  /\ phase' = "pausing"
  /\ UNCHANGED <<sessionVars, reason, turns, continuations, stops, nudged,
                 batchVars, signals>>

RequestFailed ==
  /\ phase = "requesting" /\ ~aborted
  /\ store' = Append(store, Plain("error"))
  /\ Finish("error")
  /\ UNCHANGED <<disk, ended, prompts, boots, counters, signals>>

(* pause(): the delay runs out, or the abort wakes it early. *)
PauseEnds ==
  /\ phase = "pausing"
  /\ IF aborted THEN Finish("aborted")
     ELSE phase' = "requesting" /\ UNCHANGED <<reason, batchVars>>
  /\ UNCHANGED <<sessionVars, counters, signals>>

(* The response is appended, after the reminders of stream rules it hit.   *)
(* "more" is what the loop appends before it goes on.                      *)
Respond(ids, more) ==
  \E note \in Some("advisor_note") :
    store' = store \o note \o <<Event("assistant_message", ids)>> \o more

(* Cut off by the token limit: continue. *)
AnswerTruncated ==
  /\ phase = "requesting" /\ continuations < MaxContinuations
  /\ continuations' = continuations + 1
  /\ Respond(<<>>, <<Plain("reminder")>>)
  /\ phase' = "top"
  /\ UNCHANGED <<disk, ended, prompts, boots, reason, turns, attempt, stops,
                 nudged, batchVars, signals>>

(* Empty: one nudge. *)
AnswerEmpty ==
  /\ phase = "requesting" /\ ~nudged /\ turns > 1
  /\ nudged' = TRUE
  /\ Respond(<<>>, <<Plain("reminder")>>)
  /\ phase' = "top"
  /\ UNCHANGED <<disk, ended, prompts, boots, reason, turns, attempt,
                 continuations, stops, batchVars, signals>>

(* An answer without calls: the stop hooks are asked. *)
AnswerFinal ==
  /\ phase = "requesting"
  /\ Respond(<<>>, <<>>)
  /\ phase' = "stopping"
  /\ UNCHANGED <<disk, ended, prompts, boots, reason, counters, batchVars,
                 signals>>

(* beforeStop: keep working, at most MaxStops times, or finish. *)
StopHookContinues ==
  /\ phase = "stopping" /\ stops < MaxStops
  /\ stops' = stops + 1
  /\ store' = Append(store, Plain("reminder"))
  /\ phase' = "top"
  /\ UNCHANGED <<disk, ended, prompts, boots, reason, turns, attempt,
                 continuations, nudged, batchVars, signals>>

Complete ==
  /\ phase = "stopping"
  /\ Finish("complete")
  /\ UNCHANGED <<sessionVars, counters, signals>>

(* An answer with tool calls. *)
AnswerCalls ==
  /\ phase = "requesting"
  /\ \E n \in 1..MaxCalls : \E kinds \in [1..n -> Kinds] :
       /\ calls' = kinds
       /\ Respond(CallIds(Asks + 1, n), <<>>)
  /\ lo' = 1 /\ next' = 1 /\ running' = {}
  /\ continuations' = 0
  /\ phase' = "batch"
  /\ UNCHANGED <<disk, ended, prompts, boots, reason, turns, attempt, stops,
                 nudged, signals>>

-----------------------------------------------------------------------------
(* runCalls. *)

(* Interrupted between batches: every call left gets a result saying so. *)
BatchAborted ==
  /\ phase = "batch" /\ aborted
  /\ store' = store \o InterruptedEvents(lo)
  /\ Finish("aborted")
  /\ UNCHANGED <<disk, ended, prompts, boots, counters, signals>>

(* The calls of the batch are announced; at most "limit" of them start. *)
StartAtMost(limit) ==
  /\ phase = "batch"
  /\ LET hi   == BatchEnd(lo)
         last == IF hi < lo + limit - 1 THEN hi ELSE lo + limit - 1
     IN  /\ store' = store \o CallEvents(lo, hi)
         /\ running' = lo..last
         /\ next' = last + 1
  /\ phase' = "running"
  /\ UNCHANGED <<disk, ended, prompts, boots, reason, counters, calls, lo, signals>>

(* Mutants: no look at the signal; no limit. *)
StartBatchUnchecked == StartAtMost(MaxParallel)
StartBatchUnbounded == ~aborted /\ StartAtMost(Len(calls))

StartBatch == ~aborted /\ StartAtMost(MaxParallel)

(* A call returns, whatever its outcome, and its worker takes the next one *)
(* of the batch.                                                           *)
CallReturns(c) ==
  /\ phase = "running" /\ c \in running
  /\ running # {c} \/ next <= BatchEnd(lo)
  /\ IF next <= BatchEnd(lo)
     THEN running' = (running \ {c}) \cup {next} /\ next' = next + 1
     ELSE running' = running \ {c} /\ next' = next
  /\ UNCHANGED <<sessionVars, phase, reason, counters, calls, lo, signals>>

(* The last call of the batch returns: the results are appended in the     *)
(* order of the calls.  After the last batch come the reminders about a    *)
(* truncated response and about repeated calls, if any.                    *)
Record(c, before, after) ==
  /\ phase = "running" /\ running = {c} /\ next > BatchEnd(lo)
  /\ store' = store \o before \o ResultEvents(lo, BatchEnd(lo)) \o after
  /\ IF BatchEnd(lo) = Len(calls)
     THEN phase' = "top" /\ NoCalls
     ELSE /\ before = <<>> /\ after = <<>>
          /\ lo' = BatchEnd(lo) + 1 /\ next' = lo' /\ running' = {}
          /\ phase' = "batch" /\ UNCHANGED calls
  /\ UNCHANGED <<disk, ended, prompts, boots, reason, counters, signals>>

(* Mutant: the reminders come before the results. *)
BatchReturnsRemindFirst(c) == \E e \in Some("reminder") : Record(c, e, <<>>)

BatchReturns(c) == \E e \in Some("reminder") : Record(c, <<>>, e)

(* registry.call throws out of its permission gate (a summary or a prompt  *)
(* for confirmation that fails is outside its try): the batch, the loop    *)
(* and send() reject, no result is recorded, and the server that sent the  *)
(* prompt saves the session as it stands.                                  *)
CallRejects(c) ==
  /\ GateMayThrow
  /\ phase = "running" /\ c \in running
  /\ phase' = "idle" /\ reason' = "rejected" /\ NoCalls
  /\ disk' = store
  /\ UNCHANGED <<store, ended, prompts, boots, counters, signals>>

-----------------------------------------------------------------------------
(* The end of send(), and the rest of the session. *)

(* runAdvisor may leave a note; the session is saved. *)
Advise ==
  /\ phase = "advising"
  /\ \E e \in Some("advisor_note") : store' = store \o e
  /\ disk' = store'
  /\ phase' = "idle"
  /\ UNCHANGED <<ended, prompts, boots, reason, counters, batchVars, signals>>

(* interrupt(): aborts the controller there is.  Until Accept has made     *)
(* this run's, that is the controller of the run before.                   *)
Interrupt ==
  /\ phase # "idle" /\ ~asked
  /\ asked' = TRUE
  /\ aborted' = (aborted \/ phase # "preparing")
  /\ UNCHANGED <<sessionVars, phase, reason, counters, batchVars>>

(* /compact: the line-based terminal reads it between runs; the full-screen *)
(* one runs it at once, whatever the run is doing.                         *)
CompactNow ==
  /\ phase = "idle" \/ CommandsMidRun
  /\ ~ended /\ Len(Transcript(store)) > 4
  /\ store' = Append(store, Plain("compaction"))
  /\ disk' = store'
  /\ UNCHANGED <<ended, prompts, boots, phase, reason, counters, batchVars, signals>>

(* end(): session_end is appended and the session saved.  The terminal     *)
(* calls it between runs; the server closes a session, having interrupted  *)
(* it, whatever its run is doing.                                          *)
End ==
  /\ ~ended
  /\ phase = "idle" \/ EndMidRun
  /\ ended' = TRUE
  /\ store' = Append(store, Plain("session_end"))
  /\ disk' = store'
  /\ asked' = (phase # "idle")
  /\ aborted' = (aborted \/ phase \notin {"idle", "preparing"})
  /\ UNCHANGED <<prompts, boots, phase, reason, counters, batchVars>>

(* The process exits or dies, and another one resumes the session from     *)
(* what the file holds.                                                    *)
Resume(file) ==
  /\ boots < MaxBoots
  /\ boots' = boots + 1
  /\ disk' = file
  /\ store' = IF file = <<>> THEN <<Plain("session_start")>> ELSE file
  /\ ended' = FALSE /\ phase' = "idle" /\ reason' = "none"
  /\ ResetCounters /\ NoCalls
  /\ aborted' = FALSE /\ asked' = FALSE
  /\ UNCHANGED prompts

Crash == Resume(disk)

(* saveSession rewrites the whole file in place: a crash in the middle of  *)
(* it leaves the first lines only.                                         *)
CrashSaving ==
  /\ TornWrites /\ phase = "advising"
  /\ \E n \in 0..Len(store) : Resume(SubSeq(store, 1, n))

-----------------------------------------------------------------------------

Run ==
  \/ Block \/ Accept \/ Enter
  \/ TopAborted \/ StartTurn \/ TurnsSpent \/ Close
  \/ RequestAborted \/ RequestRetried \/ RequestFailed \/ PauseEnds
  \/ AnswerTruncated \/ AnswerEmpty \/ AnswerFinal \/ AnswerCalls
  \/ StopHookContinues \/ Complete
  \/ BatchAborted \/ StartBatch
  \/ \E c \in running : CallReturns(c) \/ BatchReturns(c) \/ CallRejects(c)
  \/ Advise

Next == Send \/ Run \/ Interrupt \/ CompactNow \/ End \/ Crash \/ CrashSaving

Spec == Init /\ [][Next]_vars

(* Streams, hooks, tools and the advisor return in the end (each has a     *)
(* timeout of its own or answers the abort signal); nobody has to send,    *)
(* interrupt, compact, end or crash.                                       *)
FairSpec == Spec /\ WF_vars(Run)

-----------------------------------------------------------------------------
(* Properties. *)

EventType == [type : EventTypes, ids : Seq(Nat \X Nat)]

(* The state has the shape the code gives it. *)
TypeOK ==
  /\ store \in Seq(EventType) /\ disk \in Seq(EventType)
  /\ ended \in BOOLEAN
  /\ prompts \in 0..MaxPrompts /\ boots \in Nat
  /\ phase \in Phases /\ reason \in Reasons
  /\ turns \in 0..MaxTurns /\ attempt \in 0..Retries
  /\ continuations \in 0..MaxContinuations /\ stops \in 0..MaxStops
  /\ nudged \in BOOLEAN
  /\ calls \in Seq(Kinds) /\ lo \in Nat \ {0} /\ next \in Nat \ {0}
  /\ running \subseteq Nat
  /\ aborted \in BOOLEAN /\ asked \in BOOLEAN

(* Whatever was interrupted, compacted, retried or resumed before, each    *)
(* request the loop sends holds every tool call with its results next to   *)
(* it (streamTurn and closingTurn send the transcript).                    *)
RequestsValid ==
  phase \in {"requesting", "closing"} => ValidTranscript(Transcript(store))

(* The session file can be resumed at any moment: a prompt appended to it  *)
(* gives a transcript a provider accepts.                                  *)
ResumeValid == ValidTranscript(Transcript(disk))

Recorded == UNION {ToSet(store[i].ids) :
                     i \in {j \in DOMAIN store : store[j].type = "tool_result"}}

(* A serial call is a barrier: what runs beside another call is parallel-  *)
(* safe, and a call starts only when every call across a serial one before *)
(* it has its result in the log (partition, runCalls).                     *)
SerialBarrier ==
  \A c \in running, b \in DOMAIN calls :
    b < c /\ (\E k \in b..c : calls[k] = "serial") => CallId(b) \in Recorded

(* No more than MaxParallel calls are ever in flight, and every one of     *)
(* them belongs to the batch being run (mapLimit).                         *)
BoundedBatch ==
  /\ Cardinality(running) <= MaxParallel
  /\ phase = "running" => running # {} /\ running \subseteq lo..BatchEnd(lo)

(* What makes the two above inductive: where the batch stands, and that    *)
(* the calls before it are answered.                                       *)
BatchInv ==
  /\ phase \in {"batch", "running"} =>
       /\ lo \in 1..Len(calls)
       /\ \A b \in 1..(lo - 1) : CallId(b) \in Recorded
  /\ phase = "running" =>
       /\ running # {} /\ running \subseteq lo..BatchEnd(lo)
       /\ next \in lo..(BatchEnd(lo) + 1)
       /\ \A c \in running : c < next
       /\ IsFiniteSet(running) /\ Cardinality(running) <= MaxParallel
  /\ phase # "running" => running = {}

(* msgs, then an answer with n calls of which the first k have results.    *)
Asked(msgs, answer, n, k) ==
  LET called == Append(msgs, Message("assistant", CallIds(answer, n)))
  IN  IF k = 0 THEN called
      ELSE Append(called, Message("tool", CallIds(answer, k)))

(* What makes RequestsValid and ResumeValid inductive: no call waits for   *)
(* its result in the file, nor in the log but those of the batches left.   *)
TranscriptInv ==
  /\ ValidTranscript(Transcript(disk))
  /\ phase \notin {"batch", "running"} => ValidTranscript(Transcript(store))
  /\ phase \in {"batch", "running"} =>
       \E k \in 0..Len(Transcript(store)) :
         LET before == SubSeq(Transcript(store), 1, k)
         IN  /\ ValidTranscript(before)
             /\ Transcript(store) = Asked(before, Asks, Len(calls), lo - 1)

(* An interrupted run starts no further turn and no further batch of tool  *)
(* calls.                                                                  *)
AbortStops ==
  [][aborted /\ aborted' => /\ turns' <= turns
                            /\ phase' = "running" => phase = "running"]_vars

(* An interrupt asked for while send() is working is honoured: no turn     *)
(* starts after it.                                                        *)
InterruptHonoured == [][asked /\ asked' => turns' <= turns]_vars

(* Every run comes back to the user, whatever the model, the tools and the *)
(* stop hooks do: retries, continuations, nudges and turns are bounded.    *)
RunEnds == []<>(phase = "idle")
=============================================================================
