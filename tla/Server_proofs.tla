--------------------------- MODULE Server_proofs ----------------------------
(***************************************************************************)
(* Theorems about the session server, for any number of sessions, clients, *)
(* prompts and questions.                                                  *)
(***************************************************************************)
EXTENDS Server, SequenceTheorems, TLAPS

Question == [record : Records, turn : 1..MaxTurns, open : BOOLEAN]

-----------------------------------------------------------------------------
(* The shape of the state. *)

LEMMA RequestKinds ==
  ASSUME NEW r \in Requests
  PROVE  /\ r.kind = "open" => r.session \in Sessions
         /\ r.kind = "prompt" => r.record \in Records
         /\ r.kind = "prompt" => r = [kind |-> "prompt", record |-> r.record]
         /\ r.kind = "answer" => r.question \in 1..MaxQuestions
BY DEF Requests, None

LEMMA RequestForms ==
  /\ None \in Requests
  /\ \A s \in Sessions : [kind |-> "open", session |-> s] \in Requests
  /\ \A r \in Records : [kind |-> "prompt", record |-> r] \in Requests
  /\ \A q \in 1..MaxQuestions : [kind |-> "answer", question |-> q] \in Requests
BY DEF Requests, None

(* Giving up the questions that are open. *)
LEMMA GivenUp ==
  ASSUME NEW qs \in Seq(Question), NEW new,
         new = [q \in DOMAIN qs |-> [qs[q] EXCEPT !.open = FALSE]]
  PROVE  new \in Seq(Question) /\ Len(new) = Len(qs)
<1>1. DOMAIN qs = 1..Len(qs) /\ Len(qs) \in Nat /\ qs \in [1..Len(qs) -> Question]
  BY LenProperties
<1>2. ASSUME NEW q \in DOMAIN qs PROVE new[q] \in Question
  <2>1. qs[q] \in Question
    BY <1>1
  <2>2. [qs[q] EXCEPT !.open = FALSE] \in Question
    BY <2>1 DEF Question
  <2> QED
    BY <2>1, <2>2
<1>3. new \in [1..Len(qs) -> Question]
  BY <1>1, <1>2
<1> QED
  BY <1>1, <1>3, LenProperties

(* Records and questions are spoken of once they are there. *)
Known ==
  /\ \A run \in runs : run.record \in 1..made
  /\ \A c \in Clients : /\ request[c].kind = "prompt" => request[c].record \in 1..made
                        /\ request[c].kind = "answer" =>
                             request[c].question \in DOMAIN questions

Typed == TypeOK /\ Known

LEMMA TypedFacts ==
  ASSUME Typed
  PROVE  /\ live \in [Sessions -> 0..made] /\ made \in Nat /\ made <= MaxRecords
         /\ of \in [Records -> Sessions]
         /\ \A s \in Sessions : live[s] # 0 => of[live[s]] = s /\ live[s] \in Records
         /\ store \in [Records -> Seq(1..MaxTurns)]
         /\ busy \in [Records -> BOOLEAN]
         /\ listeners \in [Records -> SUBSET (Clients \X (0..MaxTurns))]
         /\ runs \subseteq Runs /\ turns \in Nat /\ turns <= MaxTurns
         /\ questions \in Seq(Question) /\ Len(questions) <= MaxQuestions
         /\ DOMAIN questions = 1..Len(questions) /\ Len(questions) \in Nat
         /\ request \in [Clients -> Requests]
         /\ disk \in [Sessions -> Seq(1..MaxTurns)]
         /\ done \subseteq Sessions \X (1..MaxTurns) /\ lost \subseteq done
         /\ doubled \subseteq Sessions /\ torn \subseteq Sessions
         /\ {MaxRecords, MaxTurns, MaxQuestions} \subseteq Nat
         /\ Known
<1>1. questions \in Seq(Question)
  BY DEF Typed, TypeOK, Question
<1>2. DOMAIN questions = 1..Len(questions) /\ Len(questions) \in Nat
  BY <1>1, LenProperties
<1>3. /\ live \in [Sessions -> 0..made] /\ made \in 0..MaxRecords
      /\ \A s \in Sessions : live[s] # 0 => of[live[s]] = s
      /\ {MaxRecords, MaxTurns, MaxQuestions} \subseteq Nat
  BY ServerAssumption DEF Typed, TypeOK
<1>4. \A s \in Sessions : live[s] # 0 => live[s] \in Records
  BY <1>3 DEF Records
<1> QED
  BY <1>1, <1>2, <1>3, <1>4 DEF Typed, TypeOK

(* What a save leaves. *)
LEMMA SavesTyped ==
  ASSUME Typed, NEW s \in Sessions, NEW r \in Records
  PROVE  Saves(s, r) \subseteq Seq(1..MaxTurns)
<1>1. store[r] \in Seq(1..MaxTurns) /\ disk[s] \in Seq(1..MaxTurns)
  BY TypedFacts
<1>2. ASSUME NEW n \in 0..Len(store[r]) PROVE SubSeq(store[r], 1, n) \in Seq(1..MaxTurns)
  <2>1. Len(store[r]) \in Nat /\ \A i \in 1..Len(store[r]) : store[r][i] \in 1..MaxTurns
    BY <1>1, LenProperties, ElementOfSeq
  <2>2. 1 \in Int /\ n \in Int /\ \A i \in 1..n : store[r][i] \in 1..MaxTurns
    BY <2>1
  <2> QED
    BY <1>1, <2>2, SubSeqProperties
<1> QED
  BY <1>1, <1>2 DEF Saves, Prefixes

LEMMA SaveIs ==
  ASSUME Typed, NEW s \in Sessions, NEW r \in Records, Save(s, r)
  PROVE  /\ disk' \in [Sessions -> Seq(1..MaxTurns)] /\ torn' \subseteq Sessions
         /\ \A t \in Sessions \ {s} : disk'[t] = disk[t] /\ (t \in torn <=> t \in torn')
         /\ s \in torn' \/ disk'[s] = store[r]
<1>1. disk \in [Sessions -> Seq(1..MaxTurns)] /\ torn \subseteq Sessions
  BY TypedFacts
<1>2. PICK kept \in Seq(1..MaxTurns) : disk' = [disk EXCEPT ![s] = kept]
  BY SavesTyped DEF Save
<1>3. torn' = IF disk'[s] = store[r] THEN torn \ {s} ELSE torn \cup {s}
  BY DEF Save
<1> QED
  BY <1>1, <1>2, <1>3

LEMMA CloseAllIs ==
  ASSUME Typed, CloseAll
  PROVE  /\ disk' \in [Sessions -> Seq(1..MaxTurns)] /\ torn' \subseteq Sessions
         /\ \A t \in Sessions : \/ disk'[t] = disk[t] /\ (t \in torn => t \in torn')
                                \/ t \in torn'
                                \/ live[t] # 0 /\ disk'[t] = store[live[t]]
<1> DEFINE open == {s \in Sessions : live[s] # 0}
<1>1. /\ disk \in [Sessions -> Seq(1..MaxTurns)] /\ torn \subseteq Sessions
      /\ \A s \in open : Saves(s, live[s]) \subseteq Seq(1..MaxTurns)
  BY TypedFacts, SavesTyped
<1>2. PICK any : disk' \in [Sessions -> any]
  BY DEF CloseAll
<1>3. /\ \A s \in Sessions : disk'[s] \in IF s \in open THEN Saves(s, live[s]) ELSE {disk[s]}
      /\ torn' = (torn \ open) \cup {s \in open : disk'[s] # store[live[s]]}
  BY DEF CloseAll
<1>4. \A s \in Sessions : /\ disk'[s] \in Seq(1..MaxTurns)
                          /\ s \notin open => disk'[s] = disk[s]
  <2> SUFFICES ASSUME NEW s \in Sessions
               PROVE  disk'[s] \in Seq(1..MaxTurns) /\ (s \notin open => disk'[s] = disk[s])
    OBVIOUS
  <2>0. disk[s] \in Seq(1..MaxTurns)
    BY <1>1
  <2>1. CASE s \in open
    <3>1. disk'[s] \in Saves(s, live[s])
      BY <1>3, <2>1
    <3> QED
      BY ONLY <1>1, <2>1, <3>1
  <2>2. CASE s \notin open
    <3>1. disk'[s] = disk[s]
      BY <1>3, <2>2
    <3> QED
      BY ONLY <2>0, <2>2, <3>1
  <2> QED
    BY <2>1, <2>2
<1> HIDE DEF open
<1>5. disk' \in [Sessions -> Seq(1..MaxTurns)]
  BY <1>2, <1>4
<1>6. torn' \subseteq Sessions
  BY <1>1, <1>3 DEF open
<1>7. \A t \in Sessions : \/ disk'[t] = disk[t] /\ (t \in torn => t \in torn')
                          \/ t \in torn'
                          \/ live[t] # 0 /\ disk'[t] = store[live[t]]
  <2> SUFFICES ASSUME NEW t \in Sessions
               PROVE  \/ disk'[t] = disk[t] /\ (t \in torn => t \in torn')
                      \/ t \in torn'
                      \/ live[t] # 0 /\ disk'[t] = store[live[t]]
    OBVIOUS
  <2>1. torn' = (torn \ open) \cup {s \in open : disk'[s] # store[live[s]]}
    BY <1>3
  <2>2. t \in open => live[t] # 0
    BY DEF open
  <2>3. t \notin open => disk'[t] = disk[t]
    BY <1>4
  <2> QED
    BY ONLY <2>1, <2>2, <2>3, t \in Sessions
<1> QED
  BY <1>5, <1>6, <1>7

LEMMA TypedInit == Init => Typed
<1> SUFFICES ASSUME Init PROVE Typed
  OBVIOUS
<1>1. <<>> \in Seq(1..MaxTurns) /\ Len(<<>>) = 0 /\ DOMAIN <<>> = {}
      /\ <<>> \in Seq([record : Records, turn : 1..MaxTurns,
                        open : BOOLEAN])
  OBVIOUS
<1>2. (CHOOSE s \in Sessions : TRUE) \in Sessions
  BY ServerAssumption
<1>3. None \in Requests
  BY RequestForms
<1>4. TypeOK
  BY <1>1, <1>2, <1>3, ServerAssumption DEF Init, TypeOK
<1>5. Known
  BY DEF Init, Known, None
<1> QED
  BY <1>4, <1>5 DEF Typed

LEMMA StartTyped ==
  ASSUME Typed, NEW c \in Clients, NEW r \in 1..made, Start(c, r)
  PROVE  /\ store' \in [Records -> Seq(1..MaxTurns)] /\ busy' \in [Records -> BOOLEAN]
         /\ listeners' \in [Records -> SUBSET (Clients \X (0..MaxTurns))]
         /\ runs' \subseteq Runs /\ turns' \in 0..MaxTurns
         /\ \A run \in runs' : run.record \in 1..made
<1> USE TypedFacts
<1>1. turns' \in 1..MaxTurns /\ r \in Records
  BY DEF Start, Records
<1>2. Append(store[r], turns') \in Seq(1..MaxTurns)
  BY <1>1, AppendProperties
<1>3. store' \in [Records -> Seq(1..MaxTurns)]
  BY <1>1, <1>2 DEF Start
<1>4. [record |-> r, turn |-> turns', client |-> c] \in Runs
  BY <1>1 DEF Runs
<1>5. runs' \subseteq Runs /\ \A run \in runs' : run.record \in 1..made
  BY <1>4 DEF Start, Known
<1>6. busy' \in [Records -> BOOLEAN]
  BY DEF Start
<1>7. <<c, turns'>> \in Clients \X (0..MaxTurns)
  BY <1>1
<1>8. listeners' \in [Records -> SUBSET (Clients \X (0..MaxTurns))]
  BY <1>1, <1>7 DEF Start
<1> QED
  BY <1>1, <1>3, <1>5, <1>6, <1>8

LEMMA TypedStep == Typed /\ [Next]_vars => Typed'
<1> SUFFICES ASSUME Typed, [Next]_vars PROVE Typed'
  OBVIOUS
<1> USE TypedFacts
<1>1. ASSUME NEW c \in Clients, NEW s \in Sessions, Open(c, s) PROVE Typed'
  <2>1. request' \in [Clients -> Requests] /\ \A d \in Clients :
          request'[d] = request[d] \/ request'[d].kind = "open"
    BY <1>1, RequestForms DEF Open, Arrive
  <2>2. Known'
    BY <1>1, <2>1 DEF Open, Known, openVars, runVars
  <2> QED
    BY <1>1, <2>1, <2>2 DEF Open, Typed, TypeOK, openVars, runVars, fileVars
<1>2. ASSUME NEW c \in Clients, NEW s \in Sessions, Prompt(c, s) PROVE Typed'
  <2>1. live[s] \in 1..made
    BY <1>2 DEF Prompt
  <2>2. request' \in [Clients -> Requests] /\ \A d \in Clients :
          \/ request'[d] = request[d]
          \/ request'[d] = [kind |-> "prompt", record |-> live[s]]
    BY <1>2, RequestForms DEF Prompt, Arrive
  <2>3. Known'
    BY <1>2, <2>1, <2>2 DEF Prompt, Known, openVars, runVars
  <2> QED
    BY <1>2, <2>2, <2>3 DEF Prompt, Typed, TypeOK, openVars, runVars, fileVars
<1>3. ASSUME NEW c \in Clients, NEW s \in Sessions, Watch(c, s) PROVE Typed'
  <2>1. live[s] \in Records /\ <<c, 0>> \in Clients \X (0..MaxTurns)
    BY <1>3 DEF Watch
  <2>2. listeners' \in [Records -> SUBSET (Clients \X (0..MaxTurns))]
    BY <1>3, <2>1 DEF Watch
  <2> QED
    BY <1>3, <2>2 DEF Watch, Typed, TypeOK, Known, openVars, runVars, fileVars
<1>4. ASSUME NEW c \in Clients, Reply(c)
      PROVE  request' \in [Clients -> Requests] /\ \A d \in Clients :
               request'[d] = request[d] \/ request'[d].kind = "none"
  BY <1>4, RequestForms DEF Reply, None
<1>5. ASSUME NEW c \in Clients, Opened(c) PROVE Typed'
  <2> DEFINE s == request[c].session
  <2>1. s \in Sessions
    BY <1>5, RequestKinds DEF Opened
  <2>2. made' = made + 1 /\ made' \in Records
    BY <1>5 DEF Opened, Records
  <2>3. /\ of' = [of EXCEPT ![made'] = s] /\ store' = [store EXCEPT ![made'] = disk[s]]
        /\ live' = [live EXCEPT ![s] = made']
        /\ doubled' \subseteq doubled \cup {s} /\ torn' \subseteq torn
        /\ lost' \subseteq done /\ done' = done
    BY <1>5 DEF Opened
  <2>4. /\ of' \in [Records -> Sessions] /\ store' \in [Records -> Seq(1..MaxTurns)]
        /\ doubled' \subseteq Sessions /\ torn' \subseteq Sessions
    BY <2>1, <2>2, <2>3
  <2>5. live' \in [Sessions -> 0..made']
    BY <2>1, <2>2, <2>3
  <2>6. \A t \in Sessions : live'[t] # 0 => of'[live'[t]] = t
    BY <2>1, <2>2, <2>3
  <2>7. Known'
    <3>1. runs' = runs /\ questions' = questions /\ Reply(c)
      BY <1>5 DEF Opened
    <3>2. \A d \in Clients : request'[d] = request[d] \/ request'[d].kind = "none"
      BY <1>4, <3>1
    <3>3. 1..made \subseteq 1..made'
      BY <2>2
    <3>4. Known
      OBVIOUS
    <3> QED
      BY ONLY <3>1, <3>2, <3>3, <3>4 DEF Known
  <2>8. UNCHANGED <<busy, runs, turns, listeners, questions, disk, done>>
    BY <1>5 DEF Opened
  <2>9. TypeOK'
    <3>1. request' \in [Clients -> Requests] /\ TypeOK
      BY <1>4, <1>5 DEF Opened, Typed
    <3>2. made' \in 0..MaxRecords
      BY <2>2 DEF Records
    <3> QED
      BY <2>3, <2>4, <2>5, <2>6, <2>8, <3>1, <3>2 DEF TypeOK
  <2> QED
    BY <2>7, <2>9 DEF Typed
<1>6. ASSUME NEW c \in Clients, Accept(c) PROVE Typed'
  <2> DEFINE r == request[c].record
  <2>1. r \in 1..made /\ Reply(c)
    BY <1>6 DEF Accept, Known
  <2>2. CASE busy[r]
    BY <1>4, <1>6, <2>1, <2>2 DEF Accept, Typed, TypeOK, Known, openVars, runVars, fileVars
  <2>3. CASE ~busy[r]
    <3>1. Start(c, r)
      BY <1>6, <2>3 DEF Accept
    <3>2. Known'
      BY <1>4, <1>6, <2>1, <3>1, StartTyped DEF Accept, Known, openVars
    <3> QED
      BY <1>4, <1>6, <2>1, <3>1, <3>2, StartTyped DEF Accept, Typed, TypeOK, openVars, fileVars
  <2> QED
    BY <2>2, <2>3
<1>7. ASSUME NEW q \in DOMAIN questions, Settle(q)
      PROVE  /\ questions' \in Seq(Question) /\ Len(questions') <= MaxQuestions
             /\ DOMAIN questions' = DOMAIN questions
  <2>1. /\ questions' \in Seq(Question) /\ Len(questions') = Len(questions)
        /\ DOMAIN questions' = DOMAIN questions
    <3>1. /\ DOMAIN questions = 1..Len(questions) /\ Len(questions) \in Nat
          /\ questions \in [1..Len(questions) -> Question]
      <4>1. questions \in Seq(Question)
        OBVIOUS
      <4> QED
        BY ONLY <4>1, LenProperties
    <3>2. [questions[q] EXCEPT !.open = FALSE] \in Question
      <4>1. questions[q] \in Question
        BY ONLY <3>1, q \in DOMAIN questions
      <4> QED
        BY ONLY <4>1 DEF Question
    <3>3. questions' = [questions EXCEPT ![q] = [questions[q] EXCEPT !.open = FALSE]]
      BY <1>7 DEF Settle
    <3>4. questions' \in [1..Len(questions) -> Question]
      BY ONLY <3>1, <3>2, <3>3
    <3>5. questions' \in Seq(Question) /\ Len(questions') = Len(questions)
      BY ONLY <3>1, <3>4, LenProperties
    <3> QED
      BY ONLY <3>1, <3>4, <3>5
  <2> QED
    BY <2>1
<1>8. ASSUME NEW c \in Clients, Deliver(c) PROVE Typed'
  <2> DEFINE q == request[c].question
  <2>1. q \in DOMAIN questions /\ Reply(c) /\ Settle(q)
    BY <1>8 DEF Deliver, Known
  <2>4. /\ questions' \in Seq(Question) /\ Len(questions') <= MaxQuestions
        /\ DOMAIN questions' = DOMAIN questions
    BY <1>7, <2>1
  <2>5. Known'
    BY <1>4, <1>8, <2>1, <2>4 DEF Deliver, Known, openVars, runVars
  <2> QED
    BY <1>4, <1>8, <2>1, <2>4, <2>5 DEF Deliver, Typed, TypeOK, Question, openVars, runVars, fileVars
<1>9. ASSUME NEW c \in Clients, Leave(c) PROVE Typed'
  <2>1. listeners' \in [Records -> SUBSET (Clients \X (0..MaxTurns))]
    BY <1>9 DEF Leave
  <2> QED
    BY <1>9, <2>1 DEF Leave, Typed, TypeOK, Known, openVars, runVars, fileVars
<1>10. ASSUME NEW c \in Clients, NEW q \in DOMAIN questions, Answer(c, q)
       PROVE  Typed'
  <2>1. q \in 1..MaxQuestions
    OBVIOUS
  <2>2. request' \in [Clients -> Requests] /\ \A d \in Clients :
          \/ request'[d] = request[d]
          \/ request'[d] = [kind |-> "answer", question |-> q]
    <3>1. [kind |-> "answer", question |-> q] \in Requests
      BY <2>1, RequestForms
    <3>2. request' = [request EXCEPT ![c] = [kind |-> "answer", question |-> q]]
      BY <1>10 DEF Answer, Arrive
    <3>3. request \in [Clients -> Requests]
      OBVIOUS
    <3> QED
      BY ONLY <3>1, <3>2, <3>3
  <2>3. Known'
    <3>1. UNCHANGED <<made, runs, questions>>
      BY <1>10 DEF Answer, openVars, runVars
    <3>2. ASSUME NEW d \in Clients
          PROVE  /\ request'[d].kind = "prompt" => request'[d].record \in 1..made
                 /\ request'[d].kind = "answer" => request'[d].question \in DOMAIN questions
      <4>1. CASE request'[d] = request[d]
        <5>1. /\ request[d].kind = "prompt" => request[d].record \in 1..made
              /\ request[d].kind = "answer" => request[d].question \in DOMAIN questions
          BY DEF Known
        <5> QED
          BY ONLY <4>1, <5>1
      <4>2. CASE request'[d] = [kind |-> "answer", question |-> q]
        BY ONLY <4>2, q \in DOMAIN questions
      <4> QED
        BY <2>2, <4>1, <4>2
    <3>3. \A run \in runs : run.record \in 1..made
      BY DEF Known
    <3> QED
      BY ONLY <3>1, <3>2, <3>3 DEF Known
  <2>4. TypeOK'
    <3>1. UNCHANGED <<openVars, runVars, listeners, questions, fileVars>>
      BY <1>10 DEF Answer
    <3> QED
      BY <2>2, <3>1 DEF Typed, TypeOK, openVars, runVars, fileVars
  <2> QED
    BY <2>3, <2>4 DEF Typed
<1>11. ASSUME NEW s \in Sessions, Close(s) PROVE Typed'
  <2>0. disk' \in [Sessions -> Seq(1..MaxTurns)] /\ torn' \subseteq Sessions
    BY <1>11, SaveIs DEF Close
  <2>1. live' \in [Sessions -> 0..made]
    BY <1>11 DEF Close
  <2>2. \A t \in Sessions : live'[t] # 0 => of[live'[t]] = t
    BY <1>11 DEF Close
  <2> QED
    BY <1>11, <2>0, <2>1, <2>2 DEF Close, Typed, TypeOK, Known, runVars
<1>12. ASSUME NEW run \in runs, Finish(run) PROVE Typed'
  <2>1. run \in Runs /\ run.record \in Records /\ run.turn \in 1..MaxTurns /\ run.client \in Clients
    BY DEF Runs
  <2>2. of[run.record] \in Sessions /\ store[run.record] \in Seq(1..MaxTurns)
    BY <2>1
  <2>4. disk' \in [Sessions -> Seq(1..MaxTurns)] /\ torn' \subseteq Sessions
    BY <1>12, <2>1, <2>2, SaveIs DEF Finish
  <2>3. /\ done' \subseteq Sessions \X (1..MaxTurns) /\ done \subseteq done'
        /\ busy' \in [Records -> BOOLEAN]
        /\ listeners' \in [Records -> SUBSET (Clients \X (0..MaxTurns))]
        /\ runs' \subseteq runs
    BY <1>12, <2>1, <2>2 DEF Finish, Over
  <2> QED
    BY <1>12, <2>3, <2>4 DEF Finish, Over, Typed, TypeOK, Known, openVars
<1>13. ASSUME NEW run \in runs, Ask(run) PROVE Typed'
  <2>1. run.record \in Records /\ run.turn \in 1..MaxTurns
    BY DEF Runs
  <2> DEFINE new == [record |-> run.record, turn |-> run.turn,
                     open |-> listeners[run.record] # {}]
  <2>2. new \in Question
    BY <2>1 DEF Question
  <2>3. questions' = Append(questions, new)
    BY <1>13 DEF Ask
  <2> HIDE DEF new
  <2>4. /\ questions' \in Seq(Question) /\ Len(questions') = Len(questions) + 1
        /\ DOMAIN questions' = 1..(Len(questions) + 1)
    BY <2>2, <2>3, AppendProperties
  <2>5. Len(questions') <= MaxQuestions
    BY <1>13, <2>4 DEF Ask
  <2>6. Known'
    BY <1>13, <2>4 DEF Ask, Known, openVars, runVars
  <2> QED
    BY <1>13, <2>4, <2>5, <2>6 DEF Ask, Typed, TypeOK, Question, openVars, runVars, fileVars
<1>14. ASSUME NEW q \in DOMAIN questions, Expire(q) PROVE Typed'
  <2>1. /\ questions' \in Seq(Question) /\ Len(questions') <= MaxQuestions
        /\ DOMAIN questions' = DOMAIN questions
    BY <1>7, <1>14 DEF Expire
  <2> QED
    BY <1>14, <2>1 DEF Expire, Typed, TypeOK, Question, Known, openVars, runVars, fileVars
<1>15. ASSUME Gone, disk' \in [Sessions -> Seq(1..MaxTurns)], torn' \subseteq Sessions
       PROVE  Typed'
  <2>3. questions' \in Seq(Question) /\ Len(questions') = Len(questions)
    BY <1>15, GivenUp DEF Gone
  <2>4. request' \in [Clients -> Requests] /\ \A c \in Clients : request'[c].kind = "none"
    BY <1>15, RequestForms DEF Gone, None
  <2>5. Known'
    BY <1>15, <2>4 DEF Gone, Known
  <2>6. /\ live' \in [Sessions -> 0..made'] /\ made' \in 0..MaxRecords
        /\ \A s \in Sessions : live'[s] = 0
        /\ busy' \in [Records -> BOOLEAN] /\ runs' \subseteq Runs
        /\ listeners' \in [Records -> SUBSET (Clients \X (0..MaxTurns))]
        /\ store' \in [Records -> Seq(1..MaxTurns)]
        /\ UNCHANGED <<of, turns, done, lost, doubled>>
    <3>1. <<>> \in Seq(1..MaxTurns)
      OBVIOUS
    <3> QED
      BY <1>15, <3>1 DEF Gone
  <2>7. TypeOK'
    BY <1>15, <2>3, <2>4, <2>6 DEF Typed, TypeOK, Question
  <2> QED
    BY <2>5, <2>7 DEF Typed
<1>16. CASE CloseAll
  <2>1. disk' \in [Sessions -> Seq(1..MaxTurns)] /\ torn' \subseteq Sessions
    BY <1>16, CloseAllIs
  <2> QED
    BY <1>15, <1>16, <2>1 DEF CloseAll
<1>17. CASE Kill
  <2>1. disk' \in [Sessions -> Seq(1..MaxTurns)] /\ torn' \subseteq Sessions
    BY <1>17, SaveIs, TypedFacts DEF Kill, Runs
  <2> QED
    BY <1>15, <1>17, <2>1 DEF Kill
<1>18. CASE UNCHANGED vars
  BY <1>18 DEF vars, openVars, runVars, fileVars, Typed, TypeOK, Known
<1> QED
  BY <1>1, <1>2, <1>3, <1>5, <1>6, <1>8, <1>9, <1>10, <1>11, <1>12, <1>13, <1>14,
     <1>16, <1>17, <1>18 DEF Next, Serve

(* Every variable keeps its shape: a request that was awaited finds the    *)
(* record and the question it was made for (server.ts, start).             *)
THEOREM TypeCorrect == Spec => [](TypeOK /\ Known)
<1>1. Spec => []Typed
  BY TypedInit, TypedStep, PTL DEF Spec
<1> QED
  BY <1>1, PTL DEF Typed

-----------------------------------------------------------------------------
(* One send for a record. *)

LEMMA OneSendInit == Init => OneSend
BY DEF Init, OneSend

LEMMA OneSendStep == Typed /\ OneSend /\ [Next]_vars => OneSend'
<1> SUFFICES ASSUME Typed, OneSend, [Next]_vars PROVE OneSend'
  OBVIOUS
<1>0. busy \in [Records -> BOOLEAN] /\ runs \subseteq Runs
  BY TypedFacts
<1>1. ASSUME runs' = runs, busy' = busy PROVE OneSend'
  BY <1>1 DEF OneSend
<1>2. ASSUME NEW c \in Clients, Accept(c) PROVE OneSend'
  <2> DEFINE r == request[c].record
  <2>1. CASE busy[r]
    BY <1>1, <1>2, <2>1 DEF Accept, runVars
  <2>2. CASE ~busy[r]
    <3>1. r \in Records
      BY <1>2, RequestKinds, TypedFacts DEF Accept
    <3>2. \A run \in runs : run.record # r
      BY <2>2, <3>1 DEF OneSend
    <3>3. PICK new : new.record = r /\ runs' = runs \cup {new}
                     /\ busy' = [busy EXCEPT ![r] = TRUE]
      BY <1>2, <2>2 DEF Accept, Start
    <3> QED
      BY <1>0, <3>1, <3>2, <3>3 DEF OneSend
  <2> QED
    BY <2>1, <2>2
<1>3. ASSUME NEW run \in runs, Finish(run) PROVE OneSend'
  <2>1. run.record \in Records
    BY <1>0 DEF Runs
  <2>2. runs' = runs \ {run} /\ busy' = [busy EXCEPT ![run.record] = FALSE]
    BY <1>3 DEF Finish, Over
  <2> QED
    BY <1>0, <2>1, <2>2 DEF OneSend
<1>4. CASE CloseAll \/ Kill
  BY <1>4 DEF CloseAll, Kill, Gone, OneSend
<1>5. ASSUME NEW c \in Clients, NEW s \in Sessions, Open(c, s) \/ Prompt(c, s) \/ Watch(c, s)
      PROVE  OneSend'
  BY <1>1, <1>5 DEF Open, Prompt, Watch, runVars
<1>6. ASSUME NEW c \in Clients, Opened(c) \/ Deliver(c) \/ Leave(c) PROVE OneSend'
  BY <1>1, <1>6 DEF Opened, Deliver, Leave, runVars
<1>7. ASSUME NEW c \in Clients, NEW q \in DOMAIN questions, Answer(c, q) \/ Expire(q)
      PROVE  OneSend'
  BY <1>1, <1>7 DEF Answer, Expire, runVars
<1>8. ASSUME NEW s \in Sessions, Close(s) PROVE OneSend'
  BY <1>1, <1>8 DEF Close, runVars
<1>9. ASSUME NEW run \in runs, Ask(run) PROVE OneSend'
  BY <1>1, <1>9 DEF Ask, runVars
<1>10. ASSUME NEW q \in DOMAIN questions, Expire(q) PROVE OneSend'
  BY <1>1, <1>10 DEF Expire, runVars
<1>11. CASE UNCHANGED vars
  BY <1>1, <1>11 DEF vars, runVars
<1> QED
  BY <1>2, <1>3, <1>4, <1>5, <1>6, <1>7, <1>8, <1>9, <1>10, <1>11 DEF Next, Serve

(* An orchestrator is in one send at most, and busy just while it is: a    *)
(* prompt whose body comes late is refused by what is true then (server.ts, *)
(* prompt), not when it arrived.                                           *)
THEOREM OneSendTheorem == Spec => []OneSend
<1>1. Spec => []Typed
  BY TypedInit, TypedStep, PTL DEF Spec
<1> QED
  BY <1>1, OneSendInit, OneSendStep, PTL DEF Spec

-----------------------------------------------------------------------------
(* What ended is on disk. *)

(* As long as no session of it was opened beside a writer, a session has   *)
(* one writer, and that one has every turn that ended.                     *)
OneWriterHolds ==
  \A s \in Sessions \ doubled :
    /\ \A a, b \in Writers(s) : a = b
    /\ \A r \in Writers(s), t \in 1..MaxTurns :
         <<s, t>> \in done \ lost => t \in ToSet(store[r])

(* A run's turn is in its store from its start. *)
RunStored == \A run \in runs : run.turn \in ToSet(store[run.record])

DiskInv == Typed /\ OneWriterHolds /\ RunStored /\ NothingLost

LEMMA AppendSet ==
  ASSUME NEW S, NEW q \in Seq(S), NEW x \in S
  PROVE  x \in ToSet(Append(q, x)) /\ \A y \in ToSet(q) : y \in ToSet(Append(q, x))
<1>1. /\ Len(q) \in Nat /\ DOMAIN q = 1..Len(q)
      /\ DOMAIN Append(q, x) = 1..(Len(q) + 1)
      /\ Append(q, x)[Len(q) + 1] = x
      /\ \A i \in 1..Len(q) : Append(q, x)[i] = q[i]
  BY AppendProperties, LenProperties
<1>2. \A i \in 1..Len(q) : i \in 1..(Len(q) + 1)
  BY <1>1
<1>3. Len(q) + 1 \in 1..(Len(q) + 1)
  BY <1>1
<1> QED
  BY <1>1, <1>2, <1>3 DEF ToSet

LEMMA DiskInit == Init => DiskInv
<1> SUFFICES ASSUME Init PROVE DiskInv
  OBVIOUS
<1>1. Typed
  BY TypedInit
<1>2. \A s \in Sessions : Writers(s) = {}
  BY DEF Init, Writers
<1> QED
  BY <1>1, <1>2 DEF Init, DiskInv, OneWriterHolds, RunStored, NothingLost

(* Nothing can go wrong where nobody becomes a writer and nothing ends. *)
LEMMA NoNewWriter ==
  ASSUME DiskInv, Typed',
         \A s \in Sessions : Writers(s)' \subseteq Writers(s),
         runs' \subseteq runs, store' = store \/ (runs' = {} /\ \A s \in Sessions : Writers(s)' = {}),
         done' = done, lost' = lost, doubled' = doubled,
         \A s \in Sessions : \/ disk'[s] = disk[s] /\ (s \in torn => s \in torn')
                             \/ s \in torn'
                             \/ \E r \in Writers(s) : disk'[s] = store[r]
  PROVE  DiskInv'
<1>1. OneWriterHolds'
  BY DEF DiskInv, OneWriterHolds
<1>2. RunStored'
  BY DEF DiskInv, RunStored
<1>3. NothingLost'
  <2> SUFFICES ASSUME NEW d \in done \ lost, d[1] \notin doubled, d[1] \notin torn'
               PROVE  d[2] \in ToSet(disk'[d[1]])
    BY DEF NothingLost
  <2>1. d[1] \in Sessions /\ d[2] \in 1..MaxTurns /\ d = <<d[1], d[2]>>
    BY TypedFacts DEF DiskInv
  <2> QED
    BY <2>1 DEF DiskInv, NothingLost, OneWriterHolds
<1> QED
  BY <1>1, <1>2, <1>3 DEF DiskInv

LEMMA LiveWrites ==
  ASSUME Typed, NEW s \in Sessions, live[s] # 0
  PROVE  live[s] \in Writers(s)
<1>1. live[s] \in 1..made /\ of[live[s]] = s
  BY TypedFacts
<1> QED
  BY <1>1 DEF Writers

LEMMA RunWrites ==
  ASSUME Typed, NEW run \in runs
  PROVE  /\ run.record \in Records /\ of[run.record] \in Sessions
         /\ run.turn \in 1..MaxTurns /\ run.record \in Writers(of[run.record])
<1>1. run.record \in Records /\ run.turn \in 1..MaxTurns /\ run.record \in 1..made
  BY TypedFacts DEF Runs, Known
<1> QED
  BY <1>1, TypedFacts DEF Writers

LEMMA AcceptDisk ==
  ASSUME DiskInv, Typed', NEW c \in Clients, Accept(c)
  PROVE  DiskInv'
<1> DEFINE r == request[c].record
<1>0. Typed
  BY DEF DiskInv
<1>1. request[c].kind = "prompt" /\ r \in 1..made /\ r \in Records /\ of[r] \in Sessions
  BY <1>0, TypedFacts, RequestKinds DEF Accept, Known
<1>2. request[c] \in [kind : {"prompt"}, record : {r}]
  BY <1>0, <1>1, RequestKinds, TypedFacts
<1>3. r \in Writers(of[r])
  BY <1>1, <1>2 DEF Writers
<1>4. \A d \in Clients : request'[d] = request[d] \/ request'[d] = None
  BY <1>0, TypedFacts DEF Accept, Reply
<1>5. UNCHANGED <<live, made, of, questions, disk, done, lost, doubled, torn>>
  BY DEF Accept, openVars, fileVars
<1>6. CASE busy[r]
  <2>1. runs' = runs /\ store' = store
    BY <1>6 DEF Accept, runVars
  <2>2. \A s \in Sessions : Writers(s)' \subseteq Writers(s)
    BY <1>4, <1>5, <2>1 DEF Writers, None
  <2> QED
    BY <1>5, <2>1, <2>2, NoNewWriter
<1>7. CASE ~busy[r]
  <2>1. Start(c, r)
    BY <1>7 DEF Accept
  <2>2. turns' \in 1..MaxTurns /\ store[r] \in Seq(1..MaxTurns)
    BY <1>0, <1>1, <2>1, TypedFacts DEF Start
  <2>3. /\ turns' \in ToSet(store'[r])
        /\ \A x \in Records : \A t \in ToSet(store[x]) : t \in ToSet(store'[x])
    <3>1. store' = [store EXCEPT ![r] = Append(store[r], turns')]
      BY <2>1 DEF Start
    <3>2. store \in [Records -> Seq(1..MaxTurns)]
      BY <1>0, TypedFacts
    <3>3. \A x \in Records : store'[x] = IF x = r THEN Append(store[r], turns') ELSE store[x]
      BY <3>1, <3>2
    <3>4. /\ turns' \in ToSet(Append(store[r], turns'))
          /\ \A t \in ToSet(store[r]) : t \in ToSet(Append(store[r], turns'))
      BY <2>2, AppendSet
    <3> QED
      BY <1>1, <3>3, <3>4
  <2>4. runs' = runs \cup {[record |-> r, turn |-> turns', client |-> c]}
    BY <2>1 DEF Start
  <2>5. \A s \in Sessions : Writers(s)' \subseteq Writers(s)
    BY <1>3, <1>4, <1>5, <2>4 DEF Writers, None
  <2>6. \A s \in Sessions : Writers(s) \subseteq Records
    BY <1>0, TypedFacts DEF Writers, Records
  <2>7. OneWriterHolds'
    BY <1>5, <2>3, <2>5, <2>6 DEF DiskInv, OneWriterHolds
  <2>8. RunStored'
    BY <1>0, <2>3, <2>4, RunWrites DEF DiskInv, RunStored
  <2>9. NothingLost'
    BY <1>5 DEF DiskInv, NothingLost
  <2> QED
    BY <2>7, <2>8, <2>9 DEF DiskInv
<1> QED
  BY <1>6, <1>7

LEMMA OpenedDisk ==
  ASSUME DiskInv, Typed', NEW c \in Clients, Opened(c)
  PROVE  DiskInv'
<1> DEFINE s == request[c].session
<1>0. Typed
  BY DEF DiskInv
<1>1. s \in Sessions /\ made \in Nat /\ made' = made + 1 /\ made' \in Records
  BY <1>0, TypedFacts, RequestKinds DEF Opened, Records
<1>2. /\ of' = [of EXCEPT ![made'] = s] /\ store' = [store EXCEPT ![made'] = disk[s]]
      /\ live' = [live EXCEPT ![s] = made']
      /\ IF Writers(s) = {}
         THEN /\ doubled' = doubled \ {s} /\ torn' = torn \ {s}
              /\ lost' = lost \cup {d \in done : /\ d[1] = s /\ s \in doubled \cup torn
                                                 /\ d[2] \notin ToSet(disk[s])}
         ELSE doubled' = doubled \cup {s} /\ torn' = torn /\ lost' = lost
      /\ UNCHANGED <<runs, done, disk>>
      /\ \A d \in Clients : request'[d] = request[d] \/ request'[d] = None
  BY <1>0, TypedFacts DEF Opened, Reply
<1>3. \A x \in 1..made : x \in Records /\ x # made' /\ of'[x] = of[x] /\ store'[x] = store[x]
  BY <1>0, <1>1, <1>2, TypedFacts DEF Records
<1>4. of'[made'] = s /\ store'[made'] = disk[s]
  BY <1>0, <1>1, <1>2, TypedFacts
<1>5. ASSUME NEW t \in Sessions, NEW x \in Writers(t)'
      PROVE  x \in Writers(t) \/ (t = s /\ x = made')
  <2>1. x \in 1..made \/ x = made'
    BY <1>1 DEF Writers
  <2>2. CASE x = made'
    BY <1>4, <2>2 DEF Writers
  <2>3. CASE x \in 1..made
    <3>1. of[x] = t
      BY <1>3, <2>3 DEF Writers
    <3>2. live'[t] = x => live[t] = x
      BY <1>0, <1>1, <1>2, <1>3, <2>3, TypedFacts
    <3>3. \A d \in Clients : request'[d] \in [kind : {"prompt"}, record : {x}]
                              => request'[d] = request[d]
      BY <1>2 DEF None
    <3> QED
      BY <1>2, <2>3, <3>1, <3>2, <3>3 DEF Writers
  <2> QED
    BY <2>1, <2>2, <2>3
<1>6. \A t \in Sessions : Writers(t) \subseteq 1..made
  BY DEF Writers
<1>7. OneWriterHolds'
  <2> SUFFICES ASSUME NEW t \in Sessions, t \notin doubled'
               PROVE  /\ \A a, b \in Writers(t)' : a = b
                      /\ \A r \in Writers(t)', u \in 1..MaxTurns :
                           <<t, u>> \in done \ lost' => u \in ToSet(store'[r])
    BY <1>2 DEF OneWriterHolds
  <2>1. lost \subseteq lost'
    BY <1>2
  <2>2. CASE t # s
    <3>1. Writers(t)' \subseteq Writers(t) /\ t \notin doubled
      BY <1>2, <1>5, <2>2
    <3> QED
      BY <1>3, <1>6, <2>1, <3>1 DEF DiskInv, OneWriterHolds
  <2>3. CASE t = s
    <3>1. Writers(s) = {}
      BY <1>2, <2>3
    <3>2. \A x \in Writers(t)' : x = made'
      BY <1>5, <2>3, <3>1
    <3>3. ASSUME NEW u \in 1..MaxTurns, <<t, u>> \in done \ lost' PROVE u \in ToSet(disk[s])
      <4>1. CASE s \in doubled \cup torn
        BY <1>2, <2>3, <3>1, <3>3, <4>1
      <4>2. CASE s \notin doubled \cup torn
        BY <2>1, <2>3, <3>3, <4>2 DEF DiskInv, NothingLost
      <4> QED
        BY <4>1, <4>2
    <3> QED
      BY <1>4, <3>2, <3>3
  <2> QED
    BY <2>2, <2>3
<1>8. RunStored'
  BY <1>0, <1>2, <1>3, TypedFacts DEF DiskInv, RunStored, Known
<1>9. NothingLost'
  <2> SUFFICES ASSUME NEW d \in done \ lost', d[1] \notin doubled' \cup torn'
               PROVE  d[2] \in ToSet(disk[d[1]])
    BY <1>2 DEF NothingLost
  <2>1. CASE d[1] \notin doubled \cup torn
    BY <1>2, <2>1 DEF DiskInv, NothingLost
  <2>2. CASE d[1] \in doubled \cup torn
    BY <1>2, <2>2
  <2> QED
    BY <2>1, <2>2
<1> QED
  BY <1>7, <1>8, <1>9 DEF DiskInv

LEMMA FinishDisk ==
  ASSUME DiskInv, Typed', NEW run \in runs, Finish(run)
  PROVE  DiskInv'
<1> DEFINE s == of[run.record]
<1>0. Typed
  BY DEF DiskInv
<1>1. /\ run.record \in Records /\ s \in Sessions
      /\ run.turn \in 1..MaxTurns /\ run.record \in Writers(s)
  BY <1>0, RunWrites
<1>2. /\ runs' = runs \ {run} /\ done' = done \cup {<<s, run.turn>>}
      /\ UNCHANGED <<live, made, of, store, request, lost, doubled>>
  BY DEF Finish, Over, openVars
<1>9. /\ \A t \in Sessions \ {s} : disk'[t] = disk[t] /\ (t \in torn <=> t \in torn')
      /\ s \in torn' \/ disk'[s] = store[run.record]
  BY <1>0, <1>1, SaveIs DEF Finish
<1>3. \A t \in Sessions : Writers(t)' \subseteq Writers(t)
  BY <1>2 DEF Writers
<1>4. run.turn \in ToSet(store[run.record])
  BY DEF DiskInv, RunStored
<1>5. OneWriterHolds'
  <2> SUFFICES ASSUME NEW t \in Sessions, t \notin doubled
               PROVE  /\ \A a, b \in Writers(t)' : a = b
                      /\ \A r \in Writers(t)', u \in 1..MaxTurns :
                           <<t, u>> \in done' \ lost => u \in ToSet(store[r])
    BY <1>2 DEF OneWriterHolds
  <2>1. /\ \A a, b \in Writers(t) : a = b
        /\ \A r \in Writers(t), u \in 1..MaxTurns :
             <<t, u>> \in done \ lost => u \in ToSet(store[r])
    BY DEF DiskInv, OneWriterHolds
  <2>2. ASSUME NEW r \in Writers(t)', NEW u \in 1..MaxTurns, <<t, u>> \in done' \ lost
        PROVE  u \in ToSet(store[r])
    <3>1. r \in Writers(t)
      BY <1>3
    <3>2. CASE <<t, u>> \in done
      BY <2>1, <2>2, <3>1, <3>2
    <3>3. CASE t = s /\ u = run.turn
      BY <1>1, <1>4, <2>1, <3>1, <3>3
    <3> QED
      BY <1>2, <2>2, <3>2, <3>3
  <2> QED
    BY <1>3, <2>1, <2>2
<1>6. RunStored'
  BY <1>2 DEF DiskInv, RunStored
<1>7. NothingLost'
  <2> SUFFICES ASSUME NEW d \in done' \ lost, d[1] \notin doubled, d[1] \notin torn'
               PROVE  d[2] \in ToSet(disk'[d[1]])
    BY <1>2 DEF NothingLost
  <2>1. CASE d = <<s, run.turn>>
    BY <1>1, <1>4, <1>9, <2>1
  <2>2. CASE d \in done
    <3>1. d[1] \in Sessions /\ d[2] \in 1..MaxTurns /\ d = <<d[1], d[2]>>
      BY <1>0, <2>2, TypedFacts
    <3>2. CASE d[1] = s
      BY <1>1, <1>9, <2>2, <3>1, <3>2 DEF DiskInv, OneWriterHolds
    <3>3. CASE d[1] # s
      BY <1>9, <2>2, <3>1, <3>3 DEF DiskInv, NothingLost
    <3> QED
      BY <3>2, <3>3
  <2> QED
    BY <1>2, <2>1, <2>2
<1> QED
  BY <1>5, <1>6, <1>7 DEF DiskInv

LEMMA DiskStep == DiskInv /\ [Next]_vars => DiskInv'
<1> SUFFICES ASSUME DiskInv, [Next]_vars PROVE DiskInv'
  OBVIOUS
<1>0. Typed /\ Typed'
  BY TypedStep DEF DiskInv
<1>1. ASSUME UNCHANGED <<live, made, of, runs, store, fileVars>>,
             \A c \in Clients : \/ request'[c] = request[c] \/ request'[c].kind # "prompt"
                                \/ \E s \in Sessions : live[s] # 0
                                     /\ request'[c] = [kind |-> "prompt", record |-> live[s]]
      PROVE  DiskInv'
  <2>1. ASSUME NEW s \in Sessions, NEW r \in Writers(s)' PROVE r \in Writers(s)
    <3>1. r \in 1..made /\ of[r] = s
      BY <1>1 DEF Writers
    <3>2. CASE \E c \in Clients : request'[c] \in [kind : {"prompt"}, record : {r}]
      <4>1. PICK c \in Clients : request'[c] \in [kind : {"prompt"}, record : {r}]
        BY <3>2
      <4>2. CASE request'[c] = request[c]
        BY <3>1, <4>1, <4>2 DEF Writers
      <4>3. ASSUME NEW t \in Sessions, live[t] # 0,
                   request'[c] = [kind |-> "prompt", record |-> live[t]]
            PROVE  r \in Writers(s)
        <5>1. r = live[t] /\ of[live[t]] = t
          BY <1>0, <4>1, <4>3, TypedFacts
        <5> QED
          BY <1>0, <3>1, <4>3, <5>1, LiveWrites
      <4> QED
        BY <1>1, <4>1, <4>2, <4>3
    <3>3. CASE ~ \E c \in Clients : request'[c] \in [kind : {"prompt"}, record : {r}]
      BY <1>1, <3>1, <3>3 DEF Writers
    <3> QED
      BY <3>2, <3>3
  <2> QED
    BY <1>0, <1>1, <2>1, NoNewWriter DEF fileVars
<1>2. ASSUME NEW c \in Clients, NEW r, Arrive(c, r)
      PROVE  \A d \in Clients : request'[d] = request[d] \/ request'[d] = r
  BY <1>0, <1>2, TypedFacts DEF Arrive
<1>3. ASSUME NEW c \in Clients, NEW s \in Sessions, Open(c, s) \/ Prompt(c, s) \/ Watch(c, s)
      PROVE  DiskInv'
  BY <1>1, <1>2, <1>3 DEF Open, Prompt, Watch, openVars, runVars
<1>4. ASSUME NEW c \in Clients, Deliver(c) \/ Leave(c) PROVE DiskInv'
  <2>1. \A d \in Clients : request'[d] = request[d] \/ request'[d] = None
    BY <1>0, <1>4, TypedFacts DEF Deliver, Leave, Reply
  <2> QED
    BY <1>1, <1>4, <2>1 DEF Deliver, Leave, None, openVars, runVars
<1>5. ASSUME NEW c \in Clients, NEW q \in DOMAIN questions, Answer(c, q)
      PROVE  DiskInv'
  BY <1>1, <1>2, <1>5 DEF Answer, openVars, runVars
<1>6. ASSUME NEW q \in DOMAIN questions, Expire(q) PROVE DiskInv'
  BY <1>1, <1>6 DEF Expire, openVars, runVars
<1>7. ASSUME NEW run \in runs, Ask(run) PROVE DiskInv'
  BY <1>1, <1>7 DEF Ask, openVars, runVars
<1>8. CASE UNCHANGED vars
  BY <1>1, <1>8 DEF vars, openVars, runVars, fileVars
<1>9. ASSUME NEW s \in Sessions, Close(s) PROVE DiskInv'
  <2>1. /\ live' = [live EXCEPT ![s] = 0]
        /\ UNCHANGED <<made, of, runs, store, done, lost, doubled, request>>
    BY <1>9 DEF Close, runVars
  <2>5. /\ \A t \in Sessions \ {s} : disk'[t] = disk[t] /\ (t \in torn <=> t \in torn')
        /\ s \in torn' \/ disk'[s] = store[live[s]]
    BY <1>0, <1>9, TypedFacts, SaveIs DEF Close
  <2>2. live[s] \in Writers(s)
    BY <1>0, <1>9, LiveWrites DEF Close
  <2>3. ASSUME NEW t \in Sessions, NEW r \in Writers(t)' PROVE r \in Writers(t)
    <3>1. r \in 1..made /\ r # 0
      BY <1>0, <2>1, TypedFacts DEF Writers
    <3>2. live'[t] = r => live[t] = r
      BY <1>0, <2>1, <3>1, TypedFacts
    <3> QED
      BY <2>1, <3>1, <3>2 DEF Writers
  <2>4. \A t \in Sessions : \/ disk'[t] = disk[t] /\ (t \in torn => t \in torn')
                            \/ t \in torn'
                            \/ \E r \in Writers(t) : disk'[t] = store[r]
    BY <2>2, <2>5
  <2> QED
    BY <1>0, <2>1, <2>3, <2>4, NoNewWriter
<1>10. ASSUME Gone, \A t \in Sessions : \/ disk'[t] = disk[t] /\ (t \in torn => t \in torn')
                                        \/ t \in torn'
                                        \/ \E r \in Writers(t) : disk'[t] = store[r]
       PROVE  DiskInv'
  <2>1. \A t \in Sessions : Writers(t)' = {}
    BY <1>0, <1>10, TypedFacts DEF Gone, Writers, None
  <2>2. runs' = {} /\ UNCHANGED <<done, lost, doubled>>
    BY <1>10 DEF Gone
  <2> QED
    BY <1>0, <1>10, <2>1, <2>2, NoNewWriter
<1>11. CASE CloseAll
  BY <1>0, <1>10, <1>11, CloseAllIs, LiveWrites DEF CloseAll
<1>12. CASE Kill
  <2>1. CASE UNCHANGED <<disk, torn>>
    BY <1>10, <1>12, <2>1 DEF Kill
  <2>2. ASSUME NEW s \in Sessions, NEW r \in Writers(s), r \in Records, Save(s, r)
        PROVE  DiskInv'
    <3>1. /\ \A t \in Sessions \ {s} : disk'[t] = disk[t] /\ (t \in torn <=> t \in torn')
          /\ s \in torn' \/ disk'[s] = store[r]
      BY <1>0, <2>2, SaveIs
    <3> QED
      BY <1>10, <1>12, <2>2, <3>1 DEF Kill
  <2>3. ASSUME NEW s \in Sessions, live[s] # 0, Save(s, live[s]) PROVE DiskInv'
    BY <1>0, <2>2, <2>3, LiveWrites, TypedFacts
  <2>4. ASSUME NEW run \in runs, Save(of[run.record], run.record) PROVE DiskInv'
    BY <1>0, <2>2, <2>4, RunWrites
  <2> QED
    BY <1>12, <2>1, <2>3, <2>4 DEF Kill
<1> QED
  BY <1>0, <1>3, <1>4, <1>5, <1>6, <1>7, <1>8, <1>9, <1>11, <1>12,
     AcceptDisk, OpenedDisk, FinishDisk DEF Next, Serve

(* A turn whose end was announced is in its session's file whatever is     *)
(* closed, opened again, stopped or killed (server.ts, persist and close,  *)
(* session.ts, saveSession), unless a save was cut off or failed and no    *)
(* later one of the same orchestrator made up for it, or the session was   *)
(* opened while a record of it could still write.                          *)
THEOREM NothingLostTheorem == Spec => []NothingLost
<1>1. Spec => []DiskInv
  BY DiskInit, DiskStep, PTL DEF Spec
<1> QED
  BY <1>1, PTL DEF DiskInv
=============================================================================
