------------------------------- MODULE Server -------------------------------
(***************************************************************************)
(* packages/cli/src/commands/server.ts: `jean serve`, sessions over HTTP.  *)
(* A request that awaits - its body, or the opening of a session - is two  *)
(* steps, and every other client may come between them.  A run is one      *)
(* Orchestrator.send (AgentLoop has its inside); here it starts, asks for  *)
(* permission, and ends.  A session's log is the sequence of its turns.    *)
(***************************************************************************)
EXTENDS Naturals, SequencesExt

CONSTANTS
  Sessions,       \* ids of sessions that can be resumed
  Clients,        \* clients of the server, one request at a time each
  MaxRecords,     \* bound: sessions opened
  MaxTurns,       \* bound: prompts accepted
  MaxQuestions    \* bound: permission questions asked

ASSUME ServerAssumption ==
  /\ {MaxRecords, MaxTurns, MaxQuestions} \subseteq Nat
  /\ Sessions # {}

Records == 1..MaxRecords

VARIABLES
  live,       \* the map of live sessions: id -> record, 0 for none
  made,       \* records made so far: Live objects, each with an orchestrator
  of,         \* record -> its session
  store,      \* record -> the turns in its orchestrator's store
  busy,       \* record -> busy
  listeners,  \* record -> streams it feeds: <<client, turn>>, turn 0 for GET events
  runs,       \* sends in flight: [record, turn, client]
  questions,  \* permission questions: [record, turn, open]
  request,    \* client -> the request of it that is being awaited
  disk,       \* session -> the turns in its file
  turns,      \* prompts accepted so far
  done,       \* history: <<session, turn>> whose end was announced
  lost,       \* history: those among them that were missing from the file when
              \* the session was opened from it
  doubled,    \* history: sessions that have been opened beside a record of them
              \* that could still write
  torn        \* history: sessions whose file the last save has left short

openVars == <<live, made, of>>
runVars  == <<store, busy, runs, turns>>
fileVars == <<disk, done, lost, doubled, torn>>
vars == <<openVars, runVars, listeners, questions, request, fileVars>>

None == [kind |-> "none"]
Requests == {None}
  \cup [kind : {"open"}, session : Sessions]
  \cup [kind : {"prompt"}, record : Records]
  \cup [kind : {"answer"}, question : 1..MaxQuestions]

Init ==
  /\ live = [s \in Sessions |-> 0] /\ made = 0
  /\ of = [r \in Records |-> CHOOSE s \in Sessions : TRUE]
  /\ store = [r \in Records |-> <<>>]
  /\ busy = [r \in Records |-> FALSE]
  /\ listeners = [r \in Records |-> {}]
  /\ runs = {} /\ questions = <<>> /\ turns = 0
  /\ request = [c \in Clients |-> None]
  /\ disk = [s \in Sessions |-> <<>>]
  /\ done = {} /\ lost = {} /\ doubled = {} /\ torn = {}

Arrive(c, r) == request[c] = None /\ request' = [request EXCEPT ![c] = r]
Reply(c)     == request' = [request EXCEPT ![c] = None]

-----------------------------------------------------------------------------
(* Opening and closing. *)

(* POST /sessions with resume: a live session is found at once, another    *)
(* has to be opened, which is awaited.  (A session that is new is opened   *)
(* likewise, and nobody else knows its id yet.)                            *)
Open(c, s) ==
  /\ live[s] = 0
  /\ Arrive(c, [kind |-> "open", session |-> s])
  /\ UNCHANGED <<openVars, runVars, listeners, questions, fileVars>>

(* Records of s whose orchestrator can still write its file. *)
Writers(s) ==
  {r \in 1..made : of[r] = s /\ \/ live[s] = r
                                \/ \E run \in runs : run.record = r
                                \/ \E c \in Clients : request[c] \in
                                     [kind : {"prompt"}, record : {r}]}

(* The file is loaded and the record takes its place in the map, whatever  *)
(* has come there meanwhile.  Where nobody else writes the file, what is   *)
(* missing from it is gone for good.                                       *)
Opened(c) ==
  /\ request[c].kind = "open" /\ made < MaxRecords
  /\ LET s == request[c].session
     IN  /\ made' = made + 1
         /\ of' = [of EXCEPT ![made'] = s]
         /\ store' = [store EXCEPT ![made'] = disk[s]]
         /\ live' = [live EXCEPT ![s] = made']
         /\ IF Writers(s) = {}
            THEN /\ doubled' = doubled \ {s} /\ torn' = torn \ {s}
                 /\ lost' = lost \cup {d \in done : /\ d[1] = s /\ s \in doubled \cup torn
                                                    /\ d[2] \notin ToSet(disk[s])}
            ELSE doubled' = doubled \cup {s} /\ UNCHANGED <<torn, lost>>
  /\ Reply(c)
  /\ UNCHANGED <<busy, runs, turns, listeners, questions, disk, done>>

(* What a save may make of a file.  saveSession empties the file and       *)
(* writes every line anew, and persist keeps quiet about what fails: the   *)
(* file may come to hold the first lines only, or what it held.            *)
Saves(s, r) == Prefixes(store[r]) \cup {disk[s]}

Save(s, r) ==
  /\ \E turnsKept \in Saves(s, r) : disk' = [disk EXCEPT ![s] = turnsKept]
  /\ torn' = IF disk'[s] = store[r] THEN torn \ {s} ELSE torn \cup {s}

(* DELETE: interrupt, save, forget.  The run goes on until it notices. *)
Close(s) ==
  /\ live[s] # 0
  /\ Save(s, live[s])
  /\ live' = [live EXCEPT ![s] = 0]
  /\ UNCHANGED <<made, of, runVars, listeners, questions, request, done, lost, doubled>>

(* The process is gone, and everything but the files with it. *)
Gone ==
  /\ live' = [s \in Sessions |-> 0]
  /\ runs' = {}
  /\ busy' = [r \in Records |-> FALSE]
  /\ listeners' = [r \in Records |-> {}]
  /\ questions' = [q \in DOMAIN questions |-> [questions[q] EXCEPT !.open = FALSE]]
  /\ request' = [c \in Clients |-> None]
  /\ store' = [r \in Records |-> <<>>]
  /\ UNCHANGED <<made, of, turns, done, lost, doubled>>

(* The process has work to lose. *)
Up == runs # {} \/ \E s \in Sessions : live[s] # 0

(* SIGINT: closeAll saves every live session. *)
CloseAll ==
  LET open == {s \in Sessions : live[s] # 0}
  IN  /\ Up
      /\ disk' \in {d \in [Sessions -> UNION {Saves(s, live[s]) : s \in open} \cup Range(disk)] :
                     \A s \in Sessions : d[s] \in IF s \in open THEN Saves(s, live[s])
                                                  ELSE {disk[s]}}
      /\ torn' = (torn \ open) \cup {s \in open : disk'[s] # store[live[s]]}
      /\ Gone

(* The process is killed, in the middle of a save if one may be under way: *)
(* of a session that is closed, or of a run that is over.                  *)
Kill ==
  /\ Up /\ Gone
  /\ \/ UNCHANGED <<disk, torn>>
     \/ \E s \in Sessions : live[s] # 0 /\ Save(s, live[s])
     \/ \E run \in runs : Save(of[run.record], run.record)

-----------------------------------------------------------------------------
(* Prompts. *)

(* POST prompt: the session is looked up and the body awaited. *)
Prompt(c, s) ==
  /\ live[s] # 0
  /\ Arrive(c, [kind |-> "prompt", record |-> live[s]])
  /\ UNCHANGED <<openVars, runVars, listeners, questions, fileVars>>

Start(c, r) ==
  /\ turns < MaxTurns
  /\ turns' = turns + 1
  /\ busy' = [busy EXCEPT ![r] = TRUE]
  /\ store' = [store EXCEPT ![r] = Append(@, turns')]
  /\ runs' = runs \cup {[record |-> r, turn |-> turns', client |-> c]}
  /\ listeners' = [listeners EXCEPT ![r] = @ \cup {<<c, turns'>>}]

(* Mutant: the session was looked at before the body was awaited. *)
AcceptUnchecked(c) ==
  /\ request[c].kind = "prompt"
  /\ Start(c, request[c].record)
  /\ Reply(c)
  /\ UNCHANGED <<openVars, questions, fileVars>>

(* The body is there: refused if the session is busy, else its run starts, *)
(* streamed to the client.                                                 *)
Accept(c) ==
  /\ request[c].kind = "prompt"
  /\ LET r == request[c].record
     IN  IF busy[r] THEN UNCHANGED <<runVars, listeners>> ELSE Start(c, r)
  /\ Reply(c)
  /\ UNCHANGED <<openVars, questions, fileVars>>

Asking(run) == {q \in DOMAIN questions : questions[q].turn = run.turn /\ questions[q].open}

(* send() returns or throws: its session is free, saved as far as that     *)
(* goes, its end announced, and the stream of the prompt ends.             *)
Over(run) ==
  /\ Asking(run) = {}
  /\ runs' = runs \ {run}
  /\ busy' = [busy EXCEPT ![run.record] = FALSE]
  /\ done' = done \cup {<<of[run.record], run.turn>>}
  /\ listeners' = [listeners EXCEPT ![run.record] = @ \ {<<run.client, run.turn>>}]
  /\ UNCHANGED <<openVars, store, turns, questions, request, lost, doubled>>

(* Mutant: the run is over, and its session not saved. *)
FinishUnsaved(run) == Over(run) /\ UNCHANGED <<disk, torn>>

Finish(run) == Over(run) /\ Save(of[run.record], run.record)

-----------------------------------------------------------------------------
(* Who watches, and what they are asked. *)

(* GET events. *)
Watch(c, s) ==
  /\ live[s] # 0 /\ <<c, 0>> \notin listeners[live[s]]
  /\ listeners' = [listeners EXCEPT ![live[s]] = @ \cup {<<c, 0>>}]
  /\ UNCHANGED <<openVars, runVars, questions, request, fileVars>>

(* A client goes away, its streams with it. *)
Leave(c) ==
  /\ \E r \in Records : \E l \in listeners[r] : l[1] = c
  /\ listeners' = [r \in Records |-> {l \in listeners[r] : l[1] # c}]
  /\ UNCHANGED <<openVars, runVars, questions, request, fileVars>>

(* confirm: the question goes to whoever listens; with no one there the    *)
(* answer is no, and nothing is left to wait for.  (What the answer is     *)
(* matters to the tool only, and is left out.)                             *)
Ask(run) ==
  /\ Len(questions) < MaxQuestions
  /\ questions' = Append(questions,
       [record |-> run.record, turn |-> run.turn,
        open |-> listeners[run.record] # {}])
  /\ UNCHANGED <<openVars, runVars, listeners, request, fileVars>>

Settle(q) == questions' = [questions EXCEPT ![q].open = FALSE]

(* Mutant: the ten minutes count while somebody is there to answer. *)
ExpireWatched(q) ==
  /\ questions[q].open /\ listeners[questions[q].record] # {}
  /\ Settle(q)
  /\ UNCHANGED <<openVars, runVars, listeners, request, fileVars>>

(* Ten minutes without an answer. *)
Expire(q) ==
  /\ questions[q].open
  /\ Settle(q)
  /\ UNCHANGED <<openVars, runVars, listeners, request, fileVars>>

(* POST permissions: the question is looked up, in a session that is live, *)
(* and the body awaited.                                                   *)
Answer(c, q) ==
  /\ questions[q].open
  /\ live[of[questions[q].record]] = questions[q].record
  /\ Arrive(c, [kind |-> "answer", question |-> q])
  /\ UNCHANGED <<openVars, runVars, listeners, questions, fileVars>>

(* The promise of a question is settled once; a later answer does nothing. *)
Deliver(c) ==
  /\ request[c].kind = "answer"
  /\ Settle(request[c].question)
  /\ Reply(c)
  /\ UNCHANGED <<openVars, runVars, listeners, fileVars>>

Serve(c) == Opened(c) \/ Accept(c) \/ Deliver(c)

Next ==
  \/ \E c \in Clients, s \in Sessions : Open(c, s) \/ Prompt(c, s) \/ Watch(c, s)
  \/ \E c \in Clients : Serve(c) \/ Leave(c)
  \/ \E c \in Clients, q \in DOMAIN questions : Answer(c, q)
  \/ \E s \in Sessions : Close(s)
  \/ \E run \in runs : Finish(run) \/ Ask(run)
  \/ \E q \in DOMAIN questions : Expire(q)
  \/ CloseAll \/ Kill

Spec == Init /\ [][Next]_vars

(* A run that waits for no answer returns, and timers fire. *)
FairSpec ==
  /\ Spec
  /\ \A t \in 1..MaxTurns : WF_vars(\E run \in runs : run.turn = t /\ Finish(run))
  /\ \A q \in 1..MaxQuestions : WF_vars(q \in DOMAIN questions /\ Expire(q))

-----------------------------------------------------------------------------
(* Properties. *)

Runs == [record : Records, turn : 1..MaxTurns, client : Clients]

(* The state has the shape the code gives it. *)
TypeOK ==
  /\ live \in [Sessions -> 0..made] /\ made \in 0..MaxRecords
  /\ of \in [Records -> Sessions]
  /\ \A s \in Sessions : live[s] # 0 => of[live[s]] = s
  /\ store \in [Records -> Seq(1..MaxTurns)]
  /\ busy \in [Records -> BOOLEAN]
  /\ listeners \in [Records -> SUBSET (Clients \X (0..MaxTurns))]
  /\ runs \subseteq Runs /\ turns \in 0..MaxTurns
  /\ questions \in Seq([record : Records, turn : 1..MaxTurns, open : BOOLEAN])
  /\ Len(questions) <= MaxQuestions
  /\ request \in [Clients -> Requests]
  /\ disk \in [Sessions -> Seq(1..MaxTurns)]
  /\ done \subseteq Sessions \X (1..MaxTurns) /\ lost \subseteq done
  /\ doubled \subseteq Sessions /\ torn \subseteq Sessions

(* An orchestrator is never in two sends at once - what AgentLoop takes    *)
(* for granted - however prompts, their bodies and closes interleave, and  *)
(* it is busy just while a run is there to take the flag down again.       *)
OneSend ==
  /\ \A a, b \in runs : a.record = b.record => a = b
  /\ \A r \in Records : busy[r] <=> \E run \in runs : run.record = r

(* A turn whose end was announced is in its session's file, whatever is    *)
(* closed, opened again, stopped and killed in between, with two ways out. *)
(* Where two orchestrators had the session open, the later save wins.  And *)
(* where a save fails or is cut off, the file is short, of turns announced *)
(* long before too: the next save that succeeds brings back all of them,   *)
(* but only while the orchestrator lives, and what is missing when the     *)
(* session is opened again is lost.                                        *)
NothingLost ==
  \A d \in done \ lost : d[1] \in doubled \cup torn \/ d[2] \in ToSet(disk[d[1]])

(* Every prompt accepted comes to its end, with the answers nobody gives,  *)
(* whoever goes away or closes the session: or the server dies.            *)
RunsEnd ==
  \A t \in 1..MaxTurns :
    (\E run \in runs : run.turn = t) ~> ~(\E run \in runs : run.turn = t)

-----------------------------------------------------------------------------
(* What does not hold (see the README). *)

(* A turn whose end was announced is never lost again. *)
AnnouncedStays == lost = {}

(* A session has one orchestrator that writes its file. *)
OneWriter == doubled = {}

(* A run that is working can be reached: aborted, answered, closed. *)
Reachable == \A run \in runs : live[of[run.record]] = run.record
=============================================================================
