----------------------------- MODULE Compaction -----------------------------
(***************************************************************************)
(* Compaction of a session: packages/core/src/compaction.ts (compact),     *)
(* with the split of context.ts (splitForCompaction), as the loop runs it  *)
(* before a request (maybeCompact) and as /compact runs it between runs.   *)
(*                                                                         *)
(* A text - a prompt, the model's words, the arguments of a call, a result *)
(* or a summary - is an item, a number; the ids of an event are the items  *)
(* it carries.  What a summary says of what it replaces is anybody's guess *)
(* (the model paraphrases, and is shown 2000 characters of each text; the  *)
(* fallback lists facts): it is an item of its own, and all it can be held *)
(* to is the frame of the archive it names.  AgentLoop has the loop in     *)
(* full; here a run is its requests and their answers.                     *)
(***************************************************************************)
EXTENDS EventStore, FiniteSets

CONSTANTS
  Weights,     \* token counts a text can have
  Threshold,   \* compactThreshold of the usable window, in tokens
  MaxItems     \* bound: items, after which only summaries are added

ASSUME CompactionAssumption ==
  /\ Weights \subseteq Nat \ {0}
  /\ {Threshold, MaxItems} \subseteq Nat \ {0}

VARIABLES
  history,   \* EventStore.events
  weight,    \* token count of every item so far
  archive,   \* frames on disk: the items each holds, and the summary naming it
  stage,     \* "idle", "top" of the loop, "summarizing", "requesting"
  older,     \* items of the messages being summarized
  recent,    \* items of the messages kept out of the summary
  back,      \* where the caller of compact() goes on
  replaced   \* history: items that summaries have replaced, since the last
             \* time that archiving them failed

compactionVars == <<history, weight, archive, stage, older, recent, back, replaced>>

-----------------------------------------------------------------------------
(* context.ts *)

ItemsOf(msgs) == UNION {ToSet(msgs[i].ids) : i \in DOMAIN msgs}

(* f[from] + ... + f[to] *)
Total(f, from, to) ==
  LET total[i \in (from - 1)..to] == IF i = from - 1 THEN 0 ELSE total[i - 1] + f[i]
  IN  total[to]

(* messageTokens: an envelope, plus every text of the message. *)
MessageTokens(m) ==
  1 + Total([k \in DOMAIN m.ids |-> weight[m.ids[k]]], 1, Len(m.ids))

(* Tokens of the messages from position "from" on. *)
Tokens(msgs, from) ==
  Total([i \in DOMAIN msgs |-> MessageTokens(msgs[i])], from, Len(msgs))

(* The last position from which the messages hold 30% of the tokens. *)
KeepFrom(msgs) ==
  Max({i \in DOMAIN msgs : 10 * Tokens(msgs, i) >= 3 * Tokens(msgs, 1)})

(* The first message from there on that is not a tool message. *)
PastTools(msgs, from) ==
  Min({i \in from..(Len(msgs) + 1) :
         i = Len(msgs) + 1 \/ msgs[i].role # "tool"})

(* splitForCompaction: the position of the first message that is kept. *)
SplitAt(msgs) ==
  IF Len(msgs) <= 4 THEN 1
  ELSE Min({PastTools(msgs, KeepFrom(msgs)), Len(msgs) - 1})

-----------------------------------------------------------------------------

CompactionInit ==
  /\ history = <<Plain("session_start")>>
  /\ weight = <<>> /\ archive = <<>> /\ replaced = {}
  /\ stage = "idle" /\ older = {} /\ recent = {} /\ back = "idle"

(* New texts, with what they weigh. *)
Say(texts) ==
  /\ Len(weight) + texts <= MaxItems
  /\ \E w \in [1..texts -> Weights] : weight' = weight \o w
  /\ UNCHANGED <<archive, older, recent, back, replaced>>

Prompt ==
  /\ stage = "idle" /\ stage' = "top"
  /\ Say(1)
  /\ history' = Append(history, Event("user_message", <<Len(weight) + 1>>))

(* Mutant: what is summarized and archived is what came since the last     *)
(* summary.                                                                *)
BeginAfterSummary(next) ==
  LET msgs == Transcript(history)
      from == IF LastCompaction(history) > 0 THEN 2 ELSE 1
  IN  IF SplitAt(msgs) = 1
      THEN stage' = next /\ UNCHANGED <<older, recent, back>>
      ELSE /\ stage' = "summarizing" /\ back' = next
           /\ older' = ItemsOf(SubSeq(msgs, from, SplitAt(msgs) - 1))
           /\ recent' = ItemsOf(SubSeq(msgs, SplitAt(msgs), Len(msgs)))

(* compact() reads the transcript, splits it, and awaits the summarizer;   *)
(* with nothing in the older half it returns at once.                      *)
Begin(next) ==
  LET msgs == Transcript(history)
  IN  IF SplitAt(msgs) = 1
      THEN stage' = next /\ UNCHANGED <<older, recent, back>>
      ELSE /\ stage' = "summarizing" /\ back' = next
           /\ older' = ItemsOf(SubSeq(msgs, 1, SplitAt(msgs) - 1))
           /\ recent' = ItemsOf(SubSeq(msgs, SplitAt(msgs), Len(msgs)))

(* maybeCompact, before each request of the loop. *)
MaybeCompact ==
  /\ stage = "top"
  /\ IF Tokens(Transcript(history), 1) >= Threshold
     THEN Begin("requesting")
     ELSE stage' = "requesting" /\ UNCHANGED <<older, recent, back>>
  /\ UNCHANGED <<history, weight, archive, replaced>>

(* /compact. *)
CompactCommand ==
  /\ stage = "idle"
  /\ Begin("idle")
  /\ UNCHANGED <<history, weight, archive, replaced>>

(* Of a call's arguments 400 characters are rendered, also for the archive. *)
Arguments(events) ==
  UNION {ToSet(call.ids) : call \in {e \in ToSet(events) : e.type = "tool_call"}}

(* archiveTurns: the texts become a frame that the summary names.  Without *)
(* the native bridge there is none; and a frame that cannot be written is  *)
(* named all the same.                                                     *)
Archive(texts, summary) ==
  \/ /\ archive' = Append(archive, [holds |-> texts, summary |-> summary])
     /\ replaced' = replaced \cup texts
  \/ /\ archive' = Append(archive, [holds |-> {}, summary |-> summary])
     /\ replaced' = {}
  \/ /\ archive' = archive
     /\ replaced' = {}

(* The summary is there, of the model or of deterministicSummary. *)
Summarize ==
  /\ stage = "summarizing" /\ stage' = back
  /\ Archive(older \ Arguments(history), Len(weight) + 1)
  /\ \E w \in Weights : weight' = Append(weight, w)
  /\ history' = Append(history, Event("compaction", <<Len(weight) + 1>>))
  /\ older' = {} /\ recent' = {}
  /\ UNCHANGED back

(* The model answers with a tool call, which runs; the loop goes on. *)
Work ==
  /\ stage = "requesting" /\ stage' = "top"
  /\ Say(2)
  /\ LET call   == Len(weight) + 1
         result == Len(weight) + 2
     IN  history' = history \o <<Event("assistant_message", <<call>>),
                                Event("tool_call", <<call>>),
                                Event("tool_result", <<result>>)>>

(* The model answers in words and the run ends. *)
Answer ==
  /\ stage = "requesting" /\ stage' = "idle"
  /\ Say(1)
  /\ history' = Append(history, Event("assistant_message", <<Len(weight) + 1>>))

CompactionNext == Prompt \/ MaybeCompact \/ CompactCommand \/ Summarize \/ Work \/ Answer

CompactionSpec == CompactionInit /\ [][CompactionNext]_compactionVars

-----------------------------------------------------------------------------
(* Properties. *)

(* What the model is sent. *)
Visible == ItemsOf(Transcript(history))

(* The frames that texts name. *)
Named(texts) == {f \in DOMAIN archive : archive[f].summary \in texts}

(* recall_archive gets to a frame from what the model is sent, by way of   *)
(* frames named in frames: it is in every set of frames that is closed.    *)
Reached(frame) ==
  \A frames \in SUBSET DOMAIN archive :
    Named(Visible) \cup UNION {Named(archive[f].holds) : f \in frames} \subseteq frames
      => frame \in frames

(* However often a session is compacted, by the loop and by hand: what was *)
(* replaced by a summary can be read again, word for word, from the newest *)
(* summary on - "one recall_archive call away instead of gone" - or from a *)
(* frame named in a frame.  Whatever was archived before an archive failed *)
(* may be out of reach, and what a split kept out of the summary is not in *)
(* question (RecentIntact).                                                *)
Recallable ==
  \A n \in replaced : \E f \in DOMAIN archive : n \in archive[f].holds /\ Reached(f)

-----------------------------------------------------------------------------
(* What does not hold (see the README). *)

(* What the split keeps out of the summary stays in the transcript as it   *)
(* is.                                                                     *)
RecentIntact ==
  [][stage = "summarizing" /\ stage' # "summarizing"
       => recent \subseteq Visible']_compactionVars

(* The split never lands between a tool call and its results. *)
SplitKeepsPairs ==
  LET msgs == Transcript(history)
  IN  Len(msgs) > 4 => msgs[SplitAt(msgs)].role # "tool"

(* No request of a session with history goes out over the threshold: the   *)
(* loop has just compacted it.                                             *)
RequestsFit ==
  stage = "requesting" /\ Len(Transcript(history)) > 4
    => Tokens(Transcript(history), 1) < Threshold

(* The archive can be read as far back as there are frames. *)
AllReached == \A f \in DOMAIN archive : Reached(f)
=============================================================================
