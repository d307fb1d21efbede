----------------------------- MODULE EventStore -----------------------------
(***************************************************************************)
(* packages/core/src/eventstore.ts: the append-only log that is the single *)
(* source of truth of a session, and the projection of the log into the    *)
(* message transcript the model is sent.                                   *)
(*                                                                         *)
(* An event is a record [type, ids].  "ids" names what the event says, as  *)
(* far as a property depends on it: the tool calls an assistant message    *)
(* issues, the call a tool_call or tool_result is about, the prompts and   *)
(* calls a summary covers.  Texts, times and token counts are left out.    *)
(***************************************************************************)
EXTENDS Naturals, SequencesExt

EventTypes == {"session_start", "mode_change", "user_message",
               "assistant_message", "tool_call", "tool_result",
               "advisor_note", "compaction", "reminder", "error",
               "session_end"}

Roles == {"user", "assistant", "tool"}

Event(type, ids) == [type |-> type, ids |-> ids]
Plain(type)      == Event(type, <<>>)
Message(role, ids) == [role |-> role, ids |-> ids]

-----------------------------------------------------------------------------

(* Index of the most recent compaction event, 0 when there is none. *)
LastCompaction(events) ==
  LET at == {i \in DOMAIN events : events[i].type = "compaction"}
  IN  IF at = {} THEN 0 ELSE CHOOSE i \in at : \A j \in at : j <= i

(* What one event adds to the messages.  Results are buffered and flushed  *)
(* as one tool message by the next message or by the end of the log, so    *)
(* consecutive results share a message; the event types that "default"     *)
(* ignores leave the buffer alone.                                         *)
Project(msgs, e) ==
  CASE e.type = "tool_result" ->
         IF msgs # <<>> /\ Last(msgs).role = "tool"
         THEN [msgs EXCEPT ![Len(msgs)] = Message("tool", @.ids \o e.ids)]
         ELSE Append(msgs, Message("tool", e.ids))
    [] e.type = "assistant_message" ->
         Append(msgs, Message("assistant", e.ids))
    [] e.type \in {"user_message", "advisor_note", "reminder"} ->
         Append(msgs, Message("user", e.ids))
    [] OTHER -> msgs

(* EventStore.transcript: the messages the model is sent once the loop has *)
(* come to position i of the log, from the summary of the last compaction, *)
(* if any, on.                                                             *)
Replay(events) ==
  LET c == LastCompaction(events)
      sent[i \in c..Len(events)] ==
        IF i = c THEN IF c = 0 THEN <<>> ELSE <<Message("user", events[c].ids)>>
        ELSE Project(sent[i - 1], events[i])
  IN  sent

Transcript(events) == Replay(events)[Len(events)]

(* EventStore.rewind, with the event kept last given by its (1-based)      *)
(* position: out-of-range indexes leave the log alone.                     *)
Rewind(events, index) ==
  IF index < 0 \/ index >= Len(events) THEN events
  ELSE SubSeq(events, 1, index)

-----------------------------------------------------------------------------

(* What providers accept: every assistant message that calls tools is      *)
(* followed at once by one tool message that answers each of its calls     *)
(* exactly once, and no tool message stands anywhere else.                 *)
Answers(call, tool) ==
  /\ tool.role = "tool"
  /\ ToSet(tool.ids) = ToSet(call.ids)
  /\ Len(tool.ids) = Len(call.ids)

ValidTranscript(msgs) ==
  \A i \in DOMAIN msgs :
    /\ msgs[i].role = "assistant" /\ msgs[i].ids # <<>>
         => i < Len(msgs) /\ Answers(msgs[i], msgs[i + 1])
    /\ msgs[i].role = "tool"
         => i > 1 /\ msgs[i - 1].role = "assistant" /\ msgs[i - 1].ids # <<>>
=============================================================================
