---------------------------- MODULE FileHistory -----------------------------
(***************************************************************************)
(* /rewind, /redo and /clear: packages/core/src/history.ts (FileHistory)   *)
(* with the log of eventstore.ts, driven by the orchestrator (rewind,      *)
(* redo, and beforeTool, which captures a file before a tool writes it).   *)
(*                                                                         *)
(* A turn keeps the log's length when it began and, for each file it       *)
(* touched, the content before its first change; a rewind keeps what those *)
(* files held when it came and the events it cut off.  In the log, <<n>>   *)
(* are the ids of every event of the turn of prompt n.                     *)
(***************************************************************************)
EXTENDS EventStore, FiniteSets

CONSTANTS
  Paths, Texts,     \* files of the project, and texts a tool may write
  MaxTurns,         \* maxTurns of FileHistory
  HooksRewrite,     \* whether a PreToolUse hook may change a call's path
  OtherWriters,     \* whether tools beyond FILE_WRITERS write (lsp_rename...)
  Notes,            \* whether the mode may change between runs (mode_change)
  Clears,           \* whether /clear is used
  CommandsMidRun,   \* whether slash commands run while a run is in flight
  MaxPrompts,       \* bound: prompts sent
  MaxEvents         \* bound: events up to which tools write and the mode changes

ASSUME HistoryAssumption ==
  /\ Paths # {} /\ "absent" \notin Texts
  /\ {MaxTurns, MaxPrompts, MaxEvents} \subseteq Nat \ {0}
  /\ {HooksRewrite, OtherWriters, Notes, Clears, CommandsMidRun} \subseteq BOOLEAN

Contents == Texts \cup {"absent"}

VARIABLES
  files,     \* the project on disk: path -> content, or "absent"
  store,     \* EventStore.events
  stack,     \* FileHistory.stack: turns that can be rewound
  undone,    \* FileHistory.undone: rewinds that can be redone
  prompts,   \* number of the last prompt
  running,   \* a run is in flight
  call,      \* the path a write or edit call was captured for, or "none"
  before     \* history: the files when each prompt was sent

vars == <<files, store, stack, undone, prompts, running, call, before>>

-----------------------------------------------------------------------------

(* Mutant: the log's length is taken once the prompt is in it. *)
TurnLate(index, prompt, kept) ==
  [eventIndex |-> index + 1, prompt |-> prompt, files |-> kept]

Turn(index, prompt, kept) == [eventIndex |-> index, prompt |-> prompt, files |-> kept]

NoFiles == [p \in {} |-> "absent"]

(* The project with the contents in "kept" written over it. *)
Over(kept, project) ==
  [p \in Paths |-> IF p \in DOMAIN kept THEN kept[p] ELSE project[p]]

(* Mutant: the oldest first. *)
UndoOldestFirst(turns, project) ==
  FoldLeft(LAMBDA fs, turn : Over(turn.files, fs), project, turns)

(* The project with "turns" undone, the newest first: left[i] is what is   *)
(* left of it once the i-th turn and all later ones are undone.            *)
Undo(turns, project) ==
  LET left[i \in 1..(Len(turns) + 1)] ==
        IF i = Len(turns) + 1 THEN project ELSE Over(turns[i].files, left[i + 1])
  IN  left[1]

Touched(turns) == UNION {DOMAIN turns[i].files : i \in DOMAIN turns}

Init ==
  /\ files \in [Paths -> Contents]
  /\ store = <<Plain("session_start")>>
  /\ stack = <<>> /\ undone = <<>>
  /\ prompts = 0 /\ running = FALSE /\ call = "none"
  /\ before = <<>>

(* The turns kept when one more begins. *)
KeptTurns(turns) == IF Len(turns) > MaxTurns THEN Tail(turns) ELSE turns

(* Bound: the events written so far, rewound ones included. *)
Room == FoldLeft(LAMBDA n, u : n + Len(u.events), Len(store), undone) < MaxEvents

(* Orchestrator.send: beginTurn, then the prompt. *)
Prompt ==
  /\ ~running /\ prompts < MaxPrompts
  /\ prompts' = prompts + 1
  /\ stack' = KeptTurns(Append(stack, Turn(Len(store), prompts', NoFiles)))
  /\ undone' = <<>>
  /\ store' = Append(store, Event("user_message", <<prompts'>>))
  /\ running' = TRUE
  /\ before' = Append(before, files)
  /\ UNCHANGED <<files, call>>

(* Mutant: a file is captured anew before every change. *)
CaptureAlways(path) ==
  IF stack = <<>> THEN stack
  ELSE [stack EXCEPT ![Len(stack)].files =
          [p \in DOMAIN @ \cup {path} |-> IF p = path THEN files[p] ELSE @[p]]]

(* FileHistory.capture: what the current turn changes first. *)
Capture(path) ==
  IF stack = <<>> \/ path \in DOMAIN Last(stack).files THEN stack
  ELSE [stack EXCEPT ![Len(stack)].files =
          [p \in DOMAIN @ \cup {path} |-> IF p = path THEN files[p] ELSE @[p]]]

(* beforeTool of a write or an edit; hooks and the gate are awaited next. *)
BeforeTool(path) ==
  /\ running /\ call = "none" /\ Room
  /\ stack' = Capture(path)
  /\ call' = path
  /\ UNCHANGED <<files, store, undone, prompts, running, before>>

(* The tool writes.  A hook may have replaced the path by another. *)
Write(path, text) ==
  /\ call # "none"
  /\ path = call \/ HooksRewrite
  /\ files' = [files EXCEPT ![path] = text]
  /\ store' = Append(store, Event("tool_result", <<prompts>>))
  /\ call' = "none"
  /\ UNCHANGED <<stack, undone, prompts, running, before>>

(* The hook or the gate refuses, or the edit does not match. *)
Refuse ==
  /\ call # "none"
  /\ store' = Append(store, Event("tool_result", <<prompts>>))
  /\ call' = "none"
  /\ UNCHANGED <<files, stack, undone, prompts, running, before>>

(* A tool that writes and is not captured: lsp_rename, lsp_rename_file,    *)
(* lsp_format, lsp_code_actions.                                           *)
WriteElse(path, content) ==
  /\ OtherWriters
  /\ running /\ call = "none" /\ Room
  /\ files' = [files EXCEPT ![path] = content]
  /\ store' = Append(store, Event("tool_result", <<prompts>>))
  /\ UNCHANGED <<stack, undone, prompts, running, call, before>>

Answer ==
  /\ running /\ call = "none"
  /\ store' = Append(store, Event("assistant_message", <<prompts>>))
  /\ running' = FALSE
  /\ UNCHANGED <<files, stack, undone, prompts, call, before>>

-----------------------------------------------------------------------------
(* Slash commands. *)

AtPrompt == ~running \/ CommandsMidRun

(* Mutant: read once the turns are undone. *)
LeftBehindLate(turns) == [p \in Touched(turns) |-> Undo(turns, files)[p]]

(* What the turns left in the files they touched, read before it is        *)
(* overwritten.                                                            *)
LeftBehind(turns) == [p \in Touched(turns) |-> files[p]]

(* FileHistory.rewind and Orchestrator.rewind: the turns from the n-th of  *)
(* the stack on are undone, and the log is cut where the n-th began.       *)
RewindTo(n) ==
  LET turns == SubSeq(stack, n, Len(stack))
      index == stack[n].eventIndex
  IN  /\ files' = Undo(turns, files)
      /\ undone' = Append(undone,
           [turns  |-> turns,
            after  |-> LeftBehind(turns),
            events |-> SubSeq(store, index + 1, Len(store))])
      /\ store' = Rewind(store, index)
      /\ stack' = SubSeq(stack, 1, n - 1)
      /\ UNCHANGED <<prompts, running, call, before>>

RewindTurns == AtPrompt /\ \E n \in DOMAIN stack : RewindTo(n)

(* FileHistory.redo and Orchestrator.redo. *)
Redo ==
  /\ AtPrompt /\ undone # <<>>
  /\ files' = Over(Last(undone).after, files)
  /\ stack' = stack \o Last(undone).turns
  /\ store' = store \o Last(undone).events
  /\ undone' = Front(undone)
  /\ UNCHANGED <<prompts, running, call, before>>

(* setMode. *)
Note ==
  /\ Notes /\ AtPrompt /\ Room
  /\ store' = Append(store, Plain("mode_change"))
  /\ UNCHANGED <<files, stack, undone, prompts, running, call, before>>

(* /clear: back to just after session_start. *)
Clear ==
  /\ Clears /\ ~running
  /\ store' = Rewind(store, 1)
  /\ UNCHANGED <<files, stack, undone, prompts, running, call, before>>

Next ==
  \/ Prompt
  \/ \E p \in Paths : BeforeTool(p)
  \/ \E p \in Paths, t \in Texts : Write(p, t)
  \/ Refuse
  \/ \E p \in Paths, c \in Contents : WriteElse(p, c)
  \/ Answer
  \/ RewindTurns \/ Redo \/ Note \/ Clear

Spec == Init /\ [][Next]_vars

-----------------------------------------------------------------------------
(* Properties. *)

Captures == UNION {[touched -> Contents] : touched \in SUBSET Paths}

TurnType   == [eventIndex : Nat, prompt : Nat, files : Captures]
EventType  == [type : EventTypes, ids : Seq(Nat)]
RewindType == [turns : Seq(TurnType), after : Captures, events : Seq(EventType)]

(* The state has the shape the code gives it. *)
TypeOK ==
  /\ files \in [Paths -> Contents]
  /\ store \in Seq(EventType)
  /\ stack \in Seq(TurnType)
  /\ undone \in Seq(RewindType)
  /\ prompts \in 0..MaxPrompts /\ running \in BOOLEAN
  /\ call \in Paths \cup {"none"}
  /\ before \in Seq([Paths -> Contents]) /\ Len(before) = prompts

(* The states that turns t, the newest of which left project fs and log    *)
(* l behind, began in.                                                     *)
Beginnings(t, fs, l) ==
  [i \in DOMAIN t |-> [files |-> Undo(SubSeq(t, i, Len(t)), fs),
                       log   |-> SubSeq(l, 1, t[i].eventIndex)]]

(* The state, now files fs and log l, with all but the first k of the      *)
(* rewinds u redone.                                                       *)
Ahead(u, fs, l) ==
  LET state[k \in 0..Len(u)] ==
        IF k = Len(u) THEN [files |-> fs, log |-> l]
        ELSE [files |-> Over(u[k + 1].after, state[k + 1].files),
              log   |-> state[k + 1].log \o u[k + 1].events]
  IN  state

(* The states that redoing leads to, one redo after the other. *)
Redone(u, fs, l) ==
  [k \in DOMAIN u |->
     LET landed == Ahead(u, fs, l)[k - 1]
     IN  [now |-> landed, past |-> Beginnings(u[k].turns, landed.files, landed.log)]]

States == INSTANCE Timeline
  WITH now    <- [files |-> files, log |-> store],
       past   <- Beginnings(stack, files, store),
       future <- Redone(undone, files, store)

(* Captures of first changes and log positions do what snapshots of the    *)
(* whole project and conversation would: any number of rewinds and redos,  *)
(* of one or several turns, goes to the states they stand for (history.ts, *)
(* Orchestrator.rewind and redo).                                          *)
IsTimeline == States!Spec

Rewinds == Len(undone') > Len(undone)
Rewound == {stack[i].prompt : i \in (Len(stack') + 1)..Len(stack)}
Kept    == {stack[i].prompt : i \in DOMAIN stack'}
Of(events, turns) ==
  Restrict(events, {i \in DOMAIN events : events[i].ids # <<>> /\ events[i].ids[1] \in turns})

(* A redo right after a rewind gives everything back: the files, the       *)
(* conversation and the turns that can be rewound.                         *)
RedoInvertsRewind ==
  [][Rewinds => /\ Over(Last(undone').after, files') = files
                /\ store' \o Last(undone').events = store
                /\ stack' \o Last(undone').turns = stack]_vars

(* A rewind takes the turns it undoes out of the conversation, and leaves  *)
(* the turns that stay whole.                                              *)
RewindExact ==
  [][Rewinds => /\ Of(store', Rewound) = <<>>
                /\ Of(store', Kept) = Of(store, Kept)]_vars

(* A rewind puts every file back as it was when the earliest turn it       *)
(* undoes began.                                                           *)
RewindRestores ==
  [][Rewinds => files' = before[stack[Len(stack') + 1].prompt]]_vars

(* Whatever is in the log of a turn comes after the turn's prompt. *)
TurnsBeginWithPrompts ==
  \A i \in DOMAIN store :
    store[i].ids # <<>> => \E j \in 1..i : store[j] = Event("user_message", store[i].ids)
=============================================================================
