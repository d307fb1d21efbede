------------------------------ MODULE Mailbox -------------------------------
(***************************************************************************)
(* packages/teams/src/index.ts: Mailbox.  send and inbox each read the     *)
(* list of messages, change it and put it in the place of the file.  They  *)
(* do so under a lock like the one of TeamTasks, which is not repeated     *)
(* here: whoever calls gets in, and what the lock is for is Exclusive.     *)
(***************************************************************************)
EXTENDS Naturals, FiniteSets, SequencesExt

CONSTANTS
  Recipients,   \* teammates; "*", for all of them, is none
  Killable,     \* teammates that may be killed
  MaxMessages   \* bound: messages sent

VARIABLES
  messages,   \* mailbox.json: [to, read], the id is the position
  doing,      \* teammate -> "out", "send" or "inbox" (inside the lock), "dead"
  copy,       \* teammate inside -> the messages it has read
  to,         \* teammate inside -> whom it sends to
  got         \* history: for each teammate, the ids inbox() gave it, in order

mailboxVars == <<messages, doing, copy, to, got>>

MailboxInit ==
  /\ messages = <<>>
  /\ doing = [m \in Recipients |-> "out"] /\ copy = [m \in Recipients |-> <<>>]
  /\ to = [m \in Recipients |-> "*"]
  /\ got = [m \in Recipients |-> <<>>]

(* write: the lock is there, the file is read. *)
Enter(m, call) ==
  /\ doing[m] = "out"
  /\ doing' = [doing EXCEPT ![m] = call]
  /\ copy' = [copy EXCEPT ![m] = messages]

CallSend(m) ==
  /\ Len(messages) < MaxMessages
  /\ Enter(m, "send")
  /\ \E r \in Recipients \cup {"*"} : to' = [to EXCEPT ![m] = r]
  /\ UNCHANGED <<messages, got>>

CallInbox(m) == Enter(m, "inbox") /\ UNCHANGED <<messages, to, got>>

(* What m has not read yet: to it, or to everyone. *)
For(m) == {i \in DOMAIN copy[m] : ~copy[m][i].read /\ copy[m][i].to \in {m, "*"}}

(* The file is replaced by what the call has made of the list. *)
PutSent(m) ==
  /\ doing[m] = "send"
  /\ messages' = Append(copy[m], [to |-> to[m], read |-> FALSE])

PutRead(m) ==
  /\ doing[m] = "inbox"
  /\ messages' = [i \in DOMAIN copy[m] |-> [copy[m][i] EXCEPT !.read = @ \/ i \in For(m)]]

(* The elements of a set of positions, in order: the list as it is filtered. *)
InOrder(S) ==
  {s \in [1..Cardinality(S) -> S] : \A i, j \in DOMAIN s : i < j => s[i] < s[j]}

Return(m, where) ==
  /\ doing' = [doing EXCEPT ![m] = where]
  /\ copy' = [copy EXCEPT ![m] = <<>>] /\ to' = [to EXCEPT ![m] = "*"]

Send(m) == PutSent(m) /\ Return(m, "out") /\ UNCHANGED got

Inbox(m) ==
  /\ PutRead(m) /\ Return(m, "out")
  /\ \E given \in InOrder(For(m)) : got' = [got EXCEPT ![m] = @ \o given]

(* A teammate is killed, inside before or after it has replaced the file:  *)
(* after, nobody is given what it has marked.                              *)
Die(m) ==
  /\ m \in Killable /\ doing[m] # "dead"
  /\ PutSent(m) \/ PutRead(m) \/ UNCHANGED messages
  /\ Return(m, "dead") /\ UNCHANGED got

MailboxNext ==
  \E m \in Recipients : CallSend(m) \/ CallInbox(m) \/ Send(m) \/ Inbox(m) \/ Die(m)

MailboxSpec == MailboxInit /\ [][MailboxNext]_mailboxVars

Callers == {m \in Recipients : doing[m] \in {"send", "inbox"}}

(* The lock keeps everyone else out: so it does where no lock is broken by *)
(* two at once (TeamTasks, OneBreaker).                                    *)
Exclusive == \A m, n \in Callers : m = n

-----------------------------------------------------------------------------
(* Properties. *)

(* A teammate gets messages to it or to all, once each and in the order    *)
(* they were sent, and nobody else gets them as well (send, inbox), as     *)
(* long as the lock keeps the others out.                                  *)
InOrderOnce ==
  \A m \in Recipients :
    /\ \A i \in DOMAIN got[m] : messages[got[m][i]].to \in {m, "*"}
    /\ \A i, j \in DOMAIN got[m] : i < j => got[m][i] < got[m][j]
    /\ \A n \in Recipients \ {m} : \A i \in DOMAIN got[m], j \in DOMAIN got[n] :
         got[m][i] # got[n][j]

(* A message to "*" reaches every teammate: it is marked read, and thereby *)
(* out of reach, only when everyone has it.                                *)
BroadcastReachesAll ==
  \A i \in DOMAIN messages :
    messages[i].to = "*" /\ messages[i].read => \A m \in Recipients : i \in ToSet(got[m])
=============================================================================
