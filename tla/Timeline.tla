------------------------------ MODULE Timeline ------------------------------
(***************************************************************************)
(* What /rewind and /redo promise: a session moves along a line of states, *)
(* each the project's files together with the conversation.  Every prompt  *)
(* keeps the state it was sent in; rewinding goes back to one of those,    *)
(* and redoing takes the last rewind back, until the next prompt.          *)
(* FileHistory is shown to implement this with far less than snapshots.    *)
(***************************************************************************)
EXTENDS Naturals, Sequences

CONSTANTS
  Paths, Contents,   \* the files, and what may be in one ("absent" included)
  MaxTurns           \* states kept

VARIABLES
  now,      \* the current state, [files |-> ..., log |-> ...]
  past,     \* the states before each prompt that can be rewound, newest last
  future    \* rewinds that can be redone: [now |-> ..., past |-> ...]

vars == <<now, past, future>>

Extends(long, short) ==
  Len(long) >= Len(short) /\ SubSeq(long, 1, Len(short)) = short

Newest(seq, n) == IF Len(seq) <= n THEN seq
                  ELSE SubSeq(seq, Len(seq) - n + 1, Len(seq))

Init ==
  /\ now.files \in [Paths -> Contents] /\ Len(now.log) = 1
  /\ past = <<>> /\ future = <<>>

(* Work on the current prompt: a file, the conversation, or both change. *)
Change ==
  /\ past # <<>> /\ future = <<>>
  /\ \E p \in Paths, c \in Contents :
       now'.files \in {now.files, [now.files EXCEPT ![p] = c]}
  /\ Extends(now'.log, now.log)
  /\ UNCHANGED <<past, future>>

Prompt ==
  /\ past' = Newest(Append(past, now), MaxTurns)
  /\ future' = <<>>
  /\ now'.files = now.files
  /\ Len(now'.log) = Len(now.log) + 1 /\ Extends(now'.log, now.log)

Rewind ==
  \E n \in DOMAIN past :
    /\ now' = past[n]
    /\ past' = SubSeq(past, 1, n - 1)
    /\ future' = Append(future, [now |-> now, past |-> SubSeq(past, n, Len(past))])

Redo ==
  /\ future # <<>>
  /\ LET last == future[Len(future)]
     IN  now' = last.now /\ past' = past \o last.past
  /\ future' = SubSeq(future, 1, Len(future) - 1)

Next == Change \/ Prompt \/ Rewind \/ Redo

Spec == Init /\ [][Next]_vars
=============================================================================
