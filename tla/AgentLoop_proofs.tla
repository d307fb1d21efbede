--------------------------- MODULE AgentLoop_proofs ---------------------------
(***************************************************************************)
(* Theorems about AgentLoop, for every value of its constants: the batches *)
(* of tool calls, what an abort stops, and the requests the transcript     *)
(* makes; then about Compaction, which rewrites the same log.              *)
(***************************************************************************)
EXTENDS AgentLoop, Compaction, WellFoundedInduction, FiniteSetTheorems, SequenceTheorems, TLAPS

-----------------------------------------------------------------------------
(* Operators. *)

(* A nonempty set of naturals has a least element. *)
LEMMA LeastNatural ==
  ASSUME NEW T \in SUBSET Nat, T # {}
  PROVE  \E m \in T : \A k \in T : m <= k
<1> DEFINE R == OpToRel(<, Nat)
<1>1. IsWellFoundedOn(R, Nat)
  BY NatLessThanWellFounded
<1>2. \A x, y \in Nat : x < y => <<x, y>> \in R
  BY DEF OpToRel
<1> HIDE DEF R
<1>3. PICK m \in T : \A y \in T : ~ (<<y, m>> \in R)
  BY <1>1, WFMin
<1>4. \A k \in T : ~ (k < m)
  BY <1>2, <1>3
<1> QED
  BY <1>4

-----------------------------------------------------------------------------
(* The transcript: what a log sends to the model. *)

(* The messages a log starts with: those of its last compaction. *)
Start(events) ==
  LET c == LastCompaction(events)
  IN  IF c = 0 THEN <<>> ELSE <<Message("user", events[c].ids)>>

(* r replays the first positions of the log, up to n. *)
Replays(r, events, n) ==
  LET c == LastCompaction(events)
  IN  r = [i \in c..n |-> IF i = c THEN Start(events) ELSE Project(r[i - 1], events[i])]

(* lastCompaction: the last of the log's compactions, or 0. *)
LEMMA LastCompactionBounds ==
  ASSUME NEW E, NEW s \in Seq(E)
  PROVE  /\ LastCompaction(s) \in 0..Len(s)
         /\ LastCompaction(s) # 0 => s[LastCompaction(s)].type = "compaction"
         /\ \A i \in 1..Len(s) : s[i].type = "compaction" => i <= LastCompaction(s)
<1> DEFINE at == {i \in DOMAIN s : s[i].type = "compaction"}
           Gaps == {k \in 0..Len(s) : \A i \in at : i <= k}
<1>1. Len(s) \in Nat /\ DOMAIN s = 1..Len(s)
  BY LenProperties
<1>2. CASE at = {}
  BY <1>1, <1>2 DEF LastCompaction
<1>3. CASE at # {}
  <2>1. Len(s) \in Gaps /\ Gaps \in SUBSET Nat
    BY <1>1
  <2>2. PICK m \in Gaps : \A k \in Gaps : m <= k
    <3> HIDE DEF Gaps
    <3> QED BY <2>1, LeastNatural
  <2>3. m \in at
    <3>1. SUFFICES ASSUME m \notin at PROVE FALSE
      OBVIOUS
    <3>2. m # 0
      BY <1>1, <1>3, <2>2
    <3>3. m - 1 \in Gaps
      BY <1>1, <2>2, <3>1, <3>2
    <3> QED
      BY <1>1, <2>2, <3>3
  <2>4. \A j \in at : j <= m
    BY <2>2
  <2>5. LastCompaction(s) = CHOOSE i \in at : \A j \in at : j <= i
    BY <1>3 DEF LastCompaction
  <2>6. LastCompaction(s) \in at /\ \A j \in at : j <= LastCompaction(s)
    <3> HIDE DEF at
    <3> QED BY <2>3, <2>4, <2>5
  <2> QED
    BY <1>1, <2>6
<1> QED
  BY <1>2, <1>3

(* A replay exists, of any length: by the least length without one. *)
LEMMA ReplayExists ==
  ASSUME NEW E, NEW s \in Seq(E), NEW n \in Nat, n >= LastCompaction(s)
  PROVE  \E r : Replays(r, s, n)
<1> DEFINE c == LastCompaction(s)
           Bad == {k \in Nat : k >= c /\ ~ \E r : Replays(r, s, k)}
<1>0. c \in Nat
  BY LastCompactionBounds, LenProperties
<1>1. SUFFICES ASSUME Bad # {} PROVE FALSE
  OBVIOUS
<1>2. PICK m \in Bad : \A k \in Bad : m <= k
  <2>1. Bad \in SUBSET Nat
    OBVIOUS
  <2> HIDE DEF Bad
  <2> QED BY <1>1, <2>1, LeastNatural
<1>3. CASE m = c
  <2> DEFINE r == [i \in c..c |-> Start(s)]
  <2>1. r = [i \in c..m |-> IF i = c THEN Start(s) ELSE Project(r[i - 1], s[i])]
    BY <1>0, <1>3
  <2> HIDE DEF r
  <2>2. Replays(r, s, m)
    BY <2>1 DEF Replays
  <2> QED
    BY <1>2, <2>2
<1>4. CASE m # c
  <2>1. m - 1 \in Nat /\ m - 1 >= c /\ m > c
    BY <1>0, <1>2, <1>4
  <2>2. PICK q : Replays(q, s, m - 1)
    BY <1>2, <2>1
  <2> DEFINE r == [i \in c..m |-> IF i = m THEN Project(q[m - 1], s[m]) ELSE q[i]]
  <2>3. q = [i \in c..(m - 1) |-> IF i = c THEN Start(s) ELSE Project(q[i - 1], s[i])]
    BY <2>2 DEF Replays
  <2>4. \A i \in c..m : r[i] = IF i = c THEN Start(s) ELSE Project(r[i - 1], s[i])
    <3> TAKE i \in c..m
    <3>1. CASE i = m
      BY <1>0, <1>4, <2>1, <3>1
    <3>2. CASE i # m
      <4>1. i \in c..(m - 1) /\ (i # c => i - 1 \in c..(m - 1) /\ i - 1 # m /\ i - 1 \in c..m)
        BY <1>0, <2>1, <3>2
      <4>2. r[i] = q[i] /\ (i # c => r[i - 1] = q[i - 1])
        BY <3>2, <4>1
      <4>3. q[i] = IF i = c THEN Start(s) ELSE Project(q[i - 1], s[i])
        BY <2>3, <4>1
      <4> HIDE DEF r
      <4> QED
        BY <4>2, <4>3
    <3> QED
      BY <3>1, <3>2
  <2>5. r = [i \in c..m |-> IF i = c THEN Start(s) ELSE Project(r[i - 1], s[i])]
    <3>1. r = [i \in c..m |-> r[i]]
      OBVIOUS
    <3> HIDE DEF r
    <3> QED
      BY <2>4, <3>1, Zenon
  <2> HIDE DEF r
  <2>6. Replays(r, s, m)
    BY <2>5 DEF Replays
  <2> QED
    BY <1>2, <2>6
<1> QED
  BY <1>3, <1>4

(* The loop of transcript satisfies its equation. *)
LEMMA ReplayEquation ==
  ASSUME NEW E, NEW s \in Seq(E)
  PROVE  Replays(Replay(s), s, Len(s))
<1>1. Replay(s) = CHOOSE r : Replays(r, s, Len(s))
  BY DEF Replay, Replays, Start
<1>2. \E r : Replays(r, s, Len(s))
  BY ReplayExists, LastCompactionBounds, LenProperties
<1> QED
  BY <1>1, <1>2

(* Two replays of logs that agree up to n agree up to n. *)
LEMMA ReplayUnique ==
  ASSUME NEW E, NEW s \in Seq(E), NEW t \in Seq(E),
         NEW q, NEW r, NEW n \in Nat, NEW k \in Nat, k <= n,
         LastCompaction(s) = LastCompaction(t), LastCompaction(s) <= k,
         k <= Len(s), k <= Len(t),
         \A i \in 1..k : s[i] = t[i],
         Replays(q, s, k), Replays(r, t, n)
  PROVE  q[k] = r[k]
<1> DEFINE c == LastCompaction(s)
           Bad == {i \in c..k : q[i] # r[i]}
<1>9. c \in Nat /\ Len(s) \in Nat /\ c <= k
  BY LastCompactionBounds, LenProperties
<1>0. /\ q = [i \in c..k |-> IF i = c THEN Start(s) ELSE Project(q[i - 1], s[i])]
      /\ r = [i \in c..n |-> IF i = c THEN Start(t) ELSE Project(r[i - 1], t[i])]
  BY DEF Replays
<1>1. SUFFICES ASSUME Bad # {} PROVE FALSE
  BY <1>9
<1>2. PICK m \in Bad : \A i \in Bad : m <= i
  <2>1. Bad \in SUBSET Nat
    BY <1>9
  <2> HIDE DEF Bad
  <2> QED BY <1>1, <2>1, LeastNatural
<1>3. m \in c..k /\ m \in c..n /\ q[m] # r[m]
  BY <1>9, <1>2
<1>4. CASE m = c
  <2>1. q[m] = Start(s) /\ r[m] = Start(t)
    BY <1>0, <1>3, <1>4
  <2>2. Start(s) = Start(t)
    BY <1>9, LastCompactionBounds DEF Start
  <2> QED
    BY <1>3, <2>1, <2>2
<1>5. CASE m # c
  <2>1. m - 1 \in c..k /\ m \in 1..k
    BY <1>9, <1>3, <1>5
  <2>2. q[m - 1] = r[m - 1]
    <3>1. m - 1 \notin Bad
      BY <1>9, <1>2, <1>3
    <3> QED
      BY <2>1, <3>1
  <2>3. q[m] = Project(q[m - 1], s[m]) /\ r[m] = Project(r[m - 1], t[m])
    BY <1>0, <1>3, <1>5
  <2> QED
    BY <1>3, <2>1, <2>2, <2>3
<1> QED
  BY <1>4, <1>5

(* What is appended to the log is projected on top of the messages before, *)
(* or, when it is a compaction, replaces them all.                         *)
LEMMA TranscriptAppend ==
  ASSUME NEW E, NEW s \in Seq(E), NEW e \in E
  PROVE  /\ e.type # "compaction" => Transcript(Append(s, e)) = Project(Transcript(s), e)
         /\ e.type = "compaction" => Transcript(Append(s, e)) = <<Message("user", e.ids)>>
<1> DEFINE t == Append(s, e)
           n == Len(s)
<1>1. /\ t \in Seq(E) /\ Len(t) = n + 1 /\ n \in Nat
      /\ \A i \in 1..n : t[i] = s[i]
      /\ t[n + 1] = e
  BY AppendProperties, LenProperties
<1> HIDE DEF t
<1>2. /\ LastCompaction(s) \in 0..n
      /\ LastCompaction(s) # 0 => s[LastCompaction(s)].type = "compaction"
      /\ \A i \in 1..n : s[i].type = "compaction" => i <= LastCompaction(s)
  BY LastCompactionBounds
<1>3. /\ LastCompaction(t) \in 0..(n + 1)
      /\ LastCompaction(t) # 0 => t[LastCompaction(t)].type = "compaction"
      /\ \A i \in 1..(n + 1) : t[i].type = "compaction" => i <= LastCompaction(t)
  BY <1>1, LastCompactionBounds
<1>4. Replays(Replay(s), s, n) /\ Replays(Replay(t), t, n + 1)
  BY <1>1, ReplayEquation
<1>5. ASSUME e.type # "compaction"
      PROVE  Transcript(t) = Project(Transcript(s), e)
  <2>1. LastCompaction(t) = LastCompaction(s)
    BY <1>1, <1>2, <1>3, <1>5
  <2>2. Replay(s)[n] = Replay(t)[n]
    BY <1>1, <1>2, <1>4, <2>1, ReplayUnique
  <2>3. Replay(t)[n + 1] = Project(Replay(t)[n], t[n + 1])
    <3>1. n + 1 \in LastCompaction(t)..(n + 1) /\ n + 1 # LastCompaction(t) /\ (n + 1) - 1 = n
      BY <1>1, <1>2, <2>1
    <3> QED
      BY <1>4, <3>1 DEF Replays
  <2> QED
    BY <1>1, <2>2, <2>3 DEF Transcript
<1>6. ASSUME e.type = "compaction"
      PROVE  Transcript(t) = <<Message("user", e.ids)>>
  <2>1. LastCompaction(t) = n + 1
    BY <1>1, <1>2, <1>3, <1>6
  <2>2. Replay(t)[n + 1] = Start(t)
    BY <1>1, <1>4, <2>1 DEF Replays
  <2> QED
    BY <1>1, <2>1, <2>2 DEF Transcript, Start
<1> QED
  BY <1>5, <1>6 DEF t

(* An empty log sends nothing. *)
LEMMA TranscriptEmpty == Transcript(<<>>) = <<>>
<1>1. ASSUME NEW s \in Seq(EventType), Len(s) = 0
      PROVE  Transcript(s) = <<>>
  <2>1. LastCompaction(s) = 0
    <3>1. LastCompaction(s) \in 0..Len(s)
      BY LastCompactionBounds
    <3> QED
      BY <1>1, <3>1
  <2>2. Replay(s)[0] = Start(s)
    <3>1. Replays(Replay(s), s, 0)
      BY <1>1, ReplayEquation
    <3> QED
      BY <2>1, <3>1 DEF Replays
  <2> QED
    BY <1>1, <2>1, <2>2 DEF Transcript, Start
<1> QED
  BY <1>1, EmptySeq

MessageType == [role : Roles, ids : Seq(Nat \X Nat)]

(* Their types. *)
LEMMA CallIdsType ==
  ASSUME NEW a \in Nat, NEW n \in Nat
  PROVE  /\ CallIds(a, n) \in Seq(Nat \X Nat) /\ Len(CallIds(a, n)) = n
         /\ CallIds(a, n) = <<>> <=> n = 0
<1>1. CallIds(a, n) \in [1..n -> Nat \X Nat]
  BY DEF CallIds
<1>2. CallIds(a, n) \in Seq(Nat \X Nat) /\ Len(CallIds(a, n)) = n
  BY <1>1
<1> QED
  BY <1>2, EmptySeq

LEMMA MessageIsMessage ==
  ASSUME NEW role \in Roles, NEW ids \in Seq(Nat \X Nat)
  PROVE  Message(role, ids) \in MessageType
BY DEF Message, MessageType

LEMMA AskedType ==
  ASSUME NEW v \in Seq(MessageType), NEW a \in Nat, NEW n \in Nat, NEW k \in Nat
  PROVE  /\ Asked(v, a, n, k) \in Seq(MessageType)
         /\ k = 0 => Len(Asked(v, a, n, k)) = Len(v) + 1
         /\ k # 0 => Len(Asked(v, a, n, k)) = Len(v) + 2
         /\ \A i \in 1..Len(v) : Asked(v, a, n, k)[i] = v[i]
         /\ Asked(v, a, n, k)[Len(v) + 1] = Message("assistant", CallIds(a, n))
         /\ k # 0 => Asked(v, a, n, k)[Len(v) + 2] = Message("tool", CallIds(a, k))
<1> DEFINE A == Message("assistant", CallIds(a, n))
           T == Message("tool", CallIds(a, k))
<1>1. A \in MessageType /\ T \in MessageType
  BY CallIdsType, MessageIsMessage DEF Roles
<1> HIDE DEF A, T
<1>2. /\ Append(v, A) \in Seq(MessageType) /\ Len(Append(v, A)) = Len(v) + 1
      /\ \A i \in 1..Len(v) : Append(v, A)[i] = v[i]
      /\ Append(v, A)[Len(v) + 1] = A
      /\ Len(v) \in Nat
  BY <1>1, AppendProperties, LenProperties
<1>3. /\ Append(Append(v, A), T) \in Seq(MessageType)
      /\ Len(Append(Append(v, A), T)) = Len(v) + 2
      /\ \A i \in 1..(Len(v) + 1) : Append(Append(v, A), T)[i] = Append(v, A)[i]
      /\ Append(Append(v, A), T)[Len(v) + 2] = T
  BY <1>1, <1>2, AppendProperties
<1>4. Asked(v, a, n, k) = IF k = 0 THEN Append(v, A) ELSE Append(Append(v, A), T)
  BY DEF Asked, A, T
<1>5. CASE k = 0
  BY <1>2, <1>4, <1>5 DEF A
<1>6. CASE k # 0
  <2>1. \A i \in 1..Len(v) : i \in 1..(Len(v) + 1)
    BY <1>2
  <2> QED
    BY <1>2, <1>3, <1>4, <1>6, <2>1 DEF A, T
<1> QED
  BY <1>5, <1>6

(* A result is added to those of the call before it; a call's announcement *)
(* is not sent.                                                            *)
LEMMA AnswerOne ==
  ASSUME NEW v \in Seq(MessageType), NEW a \in Nat, NEW n \in Nat, NEW k \in Nat,
         NEW e \in EventType
  PROVE  /\ e.type = "tool_call" => Project(Asked(v, a, n, k), e) = Asked(v, a, n, k)
         /\ e.type = "tool_result" /\ e.ids = <<<<a, k + 1>>>>
              => Project(Asked(v, a, n, k), e) = Asked(v, a, n, k + 1)
<1> DEFINE m == Asked(v, a, n, k)
           p == Asked(v, a, n, k + 1)
           l == Len(v)
           T == Message("tool", CallIds(a, k + 1))
<1>1. ASSUME e.type = "tool_call"
      PROVE  Project(m, e) = m
  BY <1>1 DEF Project
<1>2. ASSUME e.type = "tool_result", e.ids = <<<<a, k + 1>>>>
      PROVE  Project(m, e) = p
  <2>0. l \in Nat /\ k + 1 \in Nat /\ k + 1 # 0
    BY LenProperties
  <2>1. /\ m \in Seq(MessageType) 
        /\ k = 0 => Len(m) = l + 1
        /\ k # 0 => Len(m) = l + 2
        /\ \A i \in 1..l : m[i] = v[i]
        /\ m[l + 1] = Message("assistant", CallIds(a, n))
        /\ k # 0 => m[l + 2] = Message("tool", CallIds(a, k))
    <3>1. m \in Seq(MessageType)
      BY AskedType
    <3>2. (k = 0 => Len(m) = l + 1) /\ (k # 0 => Len(m) = l + 2)
      BY AskedType, ZenonT(30)
    <3>3. \A i \in 1..l : m[i] = v[i]
      BY AskedType
    <3>4. m[l + 1] = Message("assistant", CallIds(a, n))
      BY AskedType
    <3>5. k # 0 => m[l + 2] = Message("tool", CallIds(a, k))
      BY AskedType
    <3> QED
      BY <3>1, <3>2, <3>3, <3>4, <3>5
  <2>2. /\ p \in Seq(MessageType) /\ Len(p) = l + 2
        /\ \A i \in 1..l : p[i] = v[i]
        /\ p[l + 1] = Message("assistant", CallIds(a, n))
        /\ p[l + 2] = T
    <3> DEFINE j == k + 1
    <3>0. j \in Nat /\ j # 0
      BY <2>0
    <3>9. p = Asked(v, a, n, j) /\ T = Message("tool", CallIds(a, j))
      OBVIOUS
    <3> HIDE DEF j
    <3>1. Asked(v, a, n, j) \in Seq(MessageType)
      BY <3>0, AskedType
    <3>2. Len(Asked(v, a, n, j)) = l + 2
      BY <3>0, AskedType, SMTT(30)
    <3>3. \A i \in 1..l : Asked(v, a, n, j)[i] = v[i]
      BY <3>0, AskedType
    <3>4. Asked(v, a, n, j)[l + 1] = Message("assistant", CallIds(a, n))
      BY <3>0, AskedType
    <3>5. Asked(v, a, n, j)[l + 2] = Message("tool", CallIds(a, j))
      BY <3>0, AskedType
    <3> HIDE DEF p, T
    <3> QED
      BY <3>9, <3>1, <3>2, <3>3, <3>4, <3>5
  <2>3. Project(m, e) = IF m # <<>> /\ Last(m).role = "tool"
                        THEN [m EXCEPT ![Len(m)] = Message("tool", @.ids \o e.ids)]
                        ELSE Append(m, Message("tool", e.ids))
    BY <1>2 DEF Project
  <2>4. CASE k = 0
    <3>1. e.ids = CallIds(a, k + 1)
      BY <1>2, <2>4 DEF CallIds
    <3>2. Last(m).role = "assistant"
      BY <2>1, <2>4 DEF Last, Message
    <3>3. Project(m, e) = Append(m, T)
      BY <2>3, <3>1, <3>2
    <3>4. p = Append(m, T)
      BY <2>4 DEF Asked
    <3> QED
      BY <3>3, <3>4
  <2>5. CASE k # 0
    <3>1. m # <<>> /\ Last(m) = Message("tool", CallIds(a, k)) /\ Len(m) = l + 2
      BY <2>0, <2>1, <2>5 DEF Last
    <3>2. Project(m, e) = [m EXCEPT ![l + 2] = Message("tool", m[l + 2].ids \o e.ids)]
      BY <2>3, <3>1 DEF Message
    <3>3. CallIds(a, k) \o e.ids = CallIds(a, k + 1)
      <4>1. /\ CallIds(a, k) \in Seq(Nat \X Nat) /\ Len(CallIds(a, k)) = k
            /\ CallIds(a, k + 1) \in Seq(Nat \X Nat) /\ Len(CallIds(a, k + 1)) = k + 1
        BY <2>0, CallIdsType
      <4>2. e.ids \in Seq(Nat \X Nat) /\ Len(e.ids) = 1 /\ e.ids[1] = <<a, k + 1>>
        BY <1>2
      <4>3. /\ CallIds(a, k) \o e.ids \in Seq(Nat \X Nat) /\ Len(CallIds(a, k) \o e.ids) = k + 1
            /\ \A i \in 1..(k + 1) : (CallIds(a, k) \o e.ids)[i]
                                   = IF i <= k THEN CallIds(a, k)[i] ELSE e.ids[i - k]
        <5> DEFINE x == CallIds(a, k)
                   y == e.ids
        <5>1. x \in Seq(Nat \X Nat) /\ Len(x) = k /\ y \in Seq(Nat \X Nat) /\ Len(y) = 1
          BY <4>1, <4>2
        <5> HIDE DEF x, y
        <5>2. x \o y \in Seq(Nat \X Nat)
          BY <5>1, ConcatProperties
        <5>3. Len(x \o y) = Len(x) + Len(y)
          BY <5>1, ConcatProperties
        <5>4. \A i \in 1..(Len(x) + Len(y)) :
                (x \o y)[i] = IF i <= Len(x) THEN x[i] ELSE y[i - Len(x)]
          BY <5>1, ConcatProperties
        <5> QED
          BY <5>1, <5>2, <5>3, <5>4 DEF x, y
      <4>4. \A i \in 1..(k + 1) : (CallIds(a, k) \o e.ids)[i] = CallIds(a, k + 1)[i]
        BY <4>2, <4>3 DEF CallIds
      <4> QED
        BY <4>1, <4>3, <4>4, SeqEqual
    <3>4. m[l + 2].ids = CallIds(a, k)
      BY <2>1, <2>5 DEF Message
    <3>5. Project(m, e) = [m EXCEPT ![l + 2] = T]
      BY <3>2, <3>3, <3>4
    <3>6. T \in MessageType
      BY CallIdsType, MessageIsMessage DEF Roles
    <3> HIDE DEF m, p, T
    <3>7. /\ [m EXCEPT ![l + 2] = T] \in Seq(MessageType)
          /\ Len([m EXCEPT ![l + 2] = T]) = l + 2
          /\ \A j \in 1..(l + 2) : [m EXCEPT ![l + 2] = T][j] = IF j = l + 2 THEN T ELSE m[j]
      BY <2>0, <2>1, <3>1, <3>6, ExceptSeq
    <3>8. \A j \in 1..(l + 2) : [m EXCEPT ![l + 2] = T][j] = p[j]
      BY <2>0, <2>1, <2>2, <3>7
    <3> HIDE DEF l
    <3> QED
      BY <2>2, <3>5, <3>7, <3>8, SeqEqual
  <2> QED
    BY <2>4, <2>5
<1> QED
  BY <1>1, <1>2

(* A sequence can be appended element by element. *)
LEMMA ConcatOne ==
  ASSUME NEW E, NEW s \in Seq(E), NEW p \in Seq(E), NEW x \in E
  PROVE  s \o (p \o <<x>>) = Append(s \o p, x)
<1>1. <<x>> \in Seq(E)
  OBVIOUS
<1>2. s \o p \in Seq(E)
  BY ConcatProperties
<1>3. s \o (p \o <<x>>) = (s \o p) \o <<x>>
  <2> DEFINE q == <<x>>
  <2>1. q \in Seq(E)
    BY <1>1
  <2> HIDE DEF q
  <2>2. s \o (p \o q) = (s \o p) \o q
    BY <2>1, ConcatAssociative
  <2> QED
    BY <2>2 DEF q
<1> QED
  BY <1>2, <1>3, AppendIsConcat

(* The events of a batch, one after the other: f says how many calls have  *)
(* their results after each.                                               *)
LEMMA AnswerMany ==
  ASSUME NEW s \in Seq(EventType), NEW t \in Seq(EventType),
         NEW v \in Seq(MessageType), NEW a \in Nat, NEW n \in Nat,
         NEW f \in [0..Len(t) -> Nat],
         Transcript(s) = Asked(v, a, n, f[0]),
         \A i \in 1..Len(t) :
           \/ t[i].type = "tool_call" /\ f[i] = f[i - 1]
           \/ /\ t[i].type = "tool_result" /\ t[i].ids = <<<<a, f[i - 1] + 1>>>>
              /\ f[i] = f[i - 1] + 1
  PROVE  Transcript(s \o t) = Asked(v, a, n, f[Len(t)])
<1> DEFINE u(i) == s \o SubSeq(t, 1, i)
           Bad  == {i \in 0..Len(t) : Transcript(u(i)) # Asked(v, a, n, f[i])}
<1>0. Len(t) \in Nat /\ Len(s) \in Nat
  BY LenProperties
<1>1. \A i \in 0..Len(t) : SubSeq(t, 1, i) \in Seq(EventType) /\ u(i) \in Seq(EventType)
  <2> TAKE i \in 0..Len(t)
  <2>1. \A j \in 1..i : t[j] \in EventType
    BY <1>0, ElementOfSeq
  <2>2. SubSeq(t, 1, i) \in Seq(EventType)
    BY <1>0, <2>1, SubSeqProperties
  <2> QED
    BY <2>2, ConcatProperties
<1>2. u(0) = s
  <2>1. SubSeq(t, 1, 0) = <<>>
    BY SubSeqEmpty
  <2> QED
    BY <2>1, ConcatEmptySeq
<1>3. u(Len(t)) = s \o t
  BY SubSeqFull
<1>4. \A i \in 1..Len(t) : u(i) = Append(u(i - 1), t[i])
  <2> TAKE i \in 1..Len(t)
  <2>1. i \in Nat /\ i - 1 \in 0..Len(t) /\ 1 \in 1..Len(t) /\ i \in 1..Len(t)
    BY <1>0
  <2>2. SubSeq(t, 1, i) = SubSeq(t, 1, i - 1) \o <<t[i]>>
    BY <2>1, SubSeqRecursiveSecond
  <2>3. SubSeq(t, 1, i - 1) \in Seq(EventType) /\ t[i] \in EventType
    BY <1>1, <2>1, ElementOfSeq
  <2> QED
    BY <2>2, <2>3, ConcatOne
<1>5. \A i \in 0..Len(t) : f[i] \in Nat
  OBVIOUS
<1> HIDE DEF u
<1>6. SUFFICES ASSUME Bad # {} PROVE FALSE
  <2>1. Len(t) \in 0..Len(t)
    BY <1>0
  <2> QED
    BY <1>3, <2>1
<1>7. PICK m \in Bad : \A i \in Bad : m <= i
  <2>1. Bad \in SUBSET Nat
    OBVIOUS
  <2> HIDE DEF Bad
  <2> QED
    BY <1>6, <2>1, LeastNatural
<1>8. m # 0
  BY <1>2, <1>7
<1>9. m \in 1..Len(t) /\ m - 1 \in 0..Len(t) /\ m - 1 \notin Bad
  BY <1>0, <1>7, <1>8
<1>10. Transcript(u(m - 1)) = Asked(v, a, n, f[m - 1])
  BY <1>9
<1>11. t[m] \in EventType /\ t[m].type # "compaction"
  BY <1>9, ElementOfSeq
<1>12. Transcript(u(m)) = Project(Asked(v, a, n, f[m - 1]), t[m])
  <2>1. u(m) = Append(u(m - 1), t[m]) /\ u(m - 1) \in Seq(EventType)
    BY <1>1, <1>4, <1>9
  <2> QED
    BY <1>10, <1>11, <2>1, TranscriptAppend
<1>13. Project(Asked(v, a, n, f[m - 1]), t[m]) = Asked(v, a, n, f[m])
  <2>1. f[m - 1] \in Nat
    BY <1>5, <1>9
  <2>2. \/ t[m].type = "tool_call" /\ f[m] = f[m - 1]
        \/ /\ t[m].type = "tool_result" /\ t[m].ids = <<<<a, f[m - 1] + 1>>>>
           /\ f[m] = f[m - 1] + 1
    BY <1>9
  <2>3. CASE t[m].type = "tool_call" /\ f[m] = f[m - 1]
    <3>1. Project(Asked(v, a, n, f[m - 1]), t[m]) = Asked(v, a, n, f[m - 1])
      BY <1>11, <2>1, <2>3, AnswerOne
    <3> QED
      BY <2>3, <3>1
  <2>4. CASE /\ t[m].type = "tool_result" /\ t[m].ids = <<<<a, f[m - 1] + 1>>>>
             /\ f[m] = f[m - 1] + 1
    <3>1. Project(Asked(v, a, n, f[m - 1]), t[m]) = Asked(v, a, n, f[m - 1] + 1)
      BY <1>11, <2>1, <2>4, AnswerOne, ZenonT(30)
    <3> QED
      BY <2>4, <3>1
  <2> QED
    BY <2>2, <2>3, <2>4
<1> QED
  BY <1>7, <1>12, <1>13

-----------------------------------------------------------------------------
(* The calls of a response. *)

(* partition: a batch ends within the calls, and is one serial call or     *)
(* parallel-safe calls only.                                               *)
LEMMA BatchEndBounds ==
  ASSUME calls \in Seq(Kinds), NEW i \in 1..Len(calls)
  PROVE  /\ BatchEnd(i) \in i..Len(calls)
         /\ calls[i] = "serial" => BatchEnd(i) = i
         /\ calls[i] # "serial" => \A k \in i..BatchEnd(i) : calls[k] = "parallel"
<1>1. CASE calls[i] = "serial"
  BY <1>1 DEF BatchEnd
<1>2. CASE calls[i] # "serial"
  <2> DEFINE Ends(j) == /\ \A k \in i..j : calls[k] = "parallel"
                        /\ j = Len(calls) \/ calls[j + 1] = "serial"
             Later   == {k \in i..Len(calls) : calls[k] = "serial"}
  <2>1. \A k \in 1..Len(calls) : calls[k] \in {"parallel", "serial"}
    BY ElementOfSeq DEF Kinds
  <2>2. \E j \in i..Len(calls) : Ends(j)
    <3>1. CASE Later = {}
      BY <2>1, <3>1
    <3>2. CASE Later # {}
      <4>0. Later \in SUBSET Nat
        OBVIOUS
      <4> HIDE DEF Later
      <4>1. PICK m \in Later : \A k \in Later : m <= k
        BY <3>2, <4>0, LeastNatural
      <4> USE DEF Later
      <4>2. m \in i..Len(calls) /\ calls[m] = "serial" /\ m # i
        BY <1>2, <4>1
      <4>3. \A k \in i..(m - 1) : calls[k] = "parallel"
        BY <2>1, <4>1, <4>2
      <4>4. /\ m - 1 \in i..Len(calls)
            /\ calls[(m - 1) + 1] = "serial"
        BY <4>2
      <4> QED
        BY <4>3, <4>4
    <3> QED
      BY <3>1, <3>2
  <2>3. BatchEnd(i) = CHOOSE j \in i..Len(calls) : Ends(j)
    BY <1>2 DEF BatchEnd
  <2>4. BatchEnd(i) \in i..Len(calls) /\ Ends(BatchEnd(i))
    BY <2>2, <2>3
  <2> QED
    BY <1>2, <2>4
<1> QED
  BY <1>1, <1>2

(* Appending events that are no assistant message keeps the call ids, and  *)
(* keeps every result recorded so far.                                     *)
LEMMA AppendKeepsAnswers ==
  ASSUME store \in Seq(EventType), NEW more \in Seq(EventType),
         store' = store \o more,
         \A i \in 1..Len(more) : more[i].type # "assistant_message"
  PROVE  /\ Asks' = Asks
         /\ Recorded \subseteq Recorded'
<1>1. /\ Len(store') = Len(store) + Len(more)
      /\ \A i \in 1..Len(store) : store'[i] = store[i]
      /\ \A i \in (Len(store) + 1)..Len(store') : store'[i] = more[i - Len(store)]
      /\ DOMAIN store = 1..Len(store) /\ DOMAIN store' = 1..Len(store')
      /\ Len(store) \in Nat /\ Len(more) \in Nat
  BY ConcatProperties, LenProperties
<1>2. {i \in DOMAIN store' : store'[i].type = "assistant_message"}
      = {i \in DOMAIN store : store[i].type = "assistant_message"}
  <2>1. \A i \in (Len(store) + 1)..Len(store') : i - Len(store) \in 1..Len(more)
    BY <1>1
  <2> QED
    BY <1>1, <2>1
<1>3. {j \in DOMAIN store : store[j].type = "tool_result"}
      \subseteq {j \in DOMAIN store' : store'[j].type = "tool_result"}
  BY <1>1
<1>4. ASSUME NEW x \in Recorded
      PROVE  x \in Recorded'
  <2>1. PICK i \in {j \in DOMAIN store : store[j].type = "tool_result"} :
               x \in ToSet(store[i].ids)
    BY <1>4 DEF Recorded
  <2>2. i \in {j \in DOMAIN store' : store'[j].type = "tool_result"} /\ store'[i] = store[i]
    BY <1>1, <1>3, <2>1
  <2> QED
    BY <2>1, <2>2 DEF Recorded, ToSet
<1> QED
  BY <1>2, <1>4 DEF Asks

(* The events the loop appends are events. *)
LEMMA PlainType ==
  ASSUME NEW type \in EventTypes
  PROVE  /\ Plain(type) \in EventType
         /\ <<Plain(type)>> \in Seq(EventType)
         /\ \A e \in Some(type) : e \in Seq(EventType)
<1>1. <<>> \in Seq(Nat \X Nat)
  BY EmptySeq
<1>2. Plain(type) \in EventType
  BY <1>1 DEF Plain, Event, EventType
<1>3. <<Plain(type)>> \in Seq(EventType)
  BY <1>2
<1>4. <<>> \in Seq(EventType)
  BY EmptySeq
<1> QED
  BY <1>2, <1>3, <1>4 DEF Some

LEMMA CallIdType ==
  ASSUME store \in Seq(EventType), NEW i \in Nat
  PROVE  Asks \in Nat /\ CallId(i) \in Nat \X Nat /\ <<CallId(i)>> \in Seq(Nat \X Nat)
<1>1. DOMAIN store = 1..Len(store) /\ Len(store) \in Nat
  BY LenProperties
<1>2. IsFiniteSet(1..Len(store))
  BY <1>1, FS_Interval
<1>3. Asks \in Nat
  BY <1>1, <1>2, FS_Subset, FS_CardinalityType DEF Asks
<1>4. CallId(i) \in Nat \X Nat
  BY <1>3 DEF CallId
<1>5. \A S, x : x \in S => <<x>> \in Seq(S)
  OBVIOUS
<1> QED
  BY <1>3, <1>4, <1>5

(* One call or result event each, for the calls from "from" to "to". *)
LEMMA CallEventsType ==
  ASSUME store \in Seq(EventType), NEW from \in Nat, NEW to \in Nat, from <= to
  PROVE  /\ CallEvents(from, to) \in Seq(EventType)
         /\ ResultEvents(from, to) \in Seq(EventType)
         /\ Len(CallEvents(from, to)) = to - from + 1
         /\ Len(ResultEvents(from, to)) = to - from + 1
         /\ \A i \in 1..(to - from + 1) :
              /\ CallEvents(from, to)[i].type = "tool_call"
              /\ ResultEvents(from, to)[i].type = "tool_result"
              /\ ResultEvents(from, to)[i].ids = <<CallId(from + i - 1)>>
<1> DEFINE n == to - from + 1
<1>1. n \in Nat
  OBVIOUS
<1>2. \A i \in 1..n : from + i - 1 \in Nat
  OBVIOUS
<1>3. \A i \in 1..n : <<CallId(from + i - 1)>> \in Seq(Nat \X Nat)
  BY <1>2, CallIdType
<1>4. \A i \in 1..n : /\ Event("tool_call", <<CallId(from + i - 1)>>) \in EventType
                      /\ Event("tool_result", <<CallId(from + i - 1)>>) \in EventType
  BY <1>3 DEF Event, EventType, EventTypes
<1>5. /\ CallEvents(from, to) \in [1..n -> EventType]
      /\ ResultEvents(from, to) \in [1..n -> EventType]
  BY <1>4 DEF CallEvents, ResultEvents
<1>6. /\ CallEvents(from, to) \in Seq(EventType)
      /\ ResultEvents(from, to) \in Seq(EventType)
  BY <1>1, <1>5
<1>7. Len(CallEvents(from, to)) = n /\ Len(ResultEvents(from, to)) = n
  BY <1>1, <1>5, <1>6, LenProperties
<1> QED
  BY <1>6, <1>7 DEF CallEvents, ResultEvents, Event

LEMMA InterruptedType ==
  ASSUME store \in Seq(EventType), calls \in Seq(Kinds), NEW from \in 1..Len(calls)
  PROVE  InterruptedEvents(from) \in Seq(EventType)
<1> DEFINE n == 2 * (Len(calls) - from + 1)
<1>1. Len(calls) \in Nat /\ n \in Nat
  BY LenProperties
<1>2. \A i \in 1..n : from + ((i - 1) \div 2) \in Nat
  BY <1>1
<1>3. \A i \in 1..n : <<CallId(from + ((i - 1) \div 2))>> \in Seq(Nat \X Nat)
  BY <1>2, CallIdType
<1>4. \A i \in 1..n :
        Event(IF i % 2 = 1 THEN "tool_call" ELSE "tool_result",
              <<CallId(from + ((i - 1) \div 2))>>) \in EventType
  BY <1>3 DEF Event, EventType, EventTypes
<1>5. InterruptedEvents(from) \in [1..n -> EventType]
  BY <1>4 DEF InterruptedEvents, Interruption
<1> QED
  BY <1>1, <1>5

-----------------------------------------------------------------------------
(* The invariant. *)

IInv == TypeOK /\ BatchInv

LEMMA InitInv == Init => IInv
<1> SUFFICES ASSUME Init PROVE IInv
  OBVIOUS
<1>1. <<Plain("session_start")>> \in Seq(EventType)
  BY PlainType DEF EventTypes
<1>2. <<>> \in Seq(EventType) /\ <<>> \in Seq(Kinds)
  BY EmptySeq
<1>3. store \in Seq(EventType) /\ disk \in Seq(EventType) /\ calls \in Seq(Kinds)
  BY <1>1, <1>2 DEF Init
<1>4. /\ prompts \in 0..MaxPrompts /\ boots \in Nat
      /\ turns \in 0..MaxTurns /\ attempt \in 0..Retries
      /\ continuations \in 0..MaxContinuations /\ stops \in 0..MaxStops
  BY LimitsAssumption DEF Init
<1>5. {ended, nudged, aborted, asked} \subseteq BOOLEAN
  BY Zenon DEF Init
<1>6. phase \in Phases /\ reason \in Reasons
  BY DEF Init, Phases, Reasons
<1>7. lo \in Nat \ {0} /\ next \in Nat \ {0} /\ running \subseteq Nat
  BY DEF Init
<1>8. TypeOK
  BY <1>3, <1>4, <1>5, <1>6, <1>7 DEF TypeOK
<1> QED
  BY <1>8 DEF Init, IInv, BatchInv

(* Each step keeps the log a sequence of events. *)
LEMMA StoreStep ==
  ASSUME IInv, [Next]_vars
  PROVE  store' \in Seq(EventType) /\ disk' \in Seq(EventType)
<1> USE DEF IInv
<1>0. \A type \in EventTypes :
        /\ Plain(type) \in EventType
        /\ <<Plain(type)>> \in Seq(EventType)
        /\ \A e \in Some(type) : e \in Seq(EventType)
  BY PlainType
<1>1. \A s, t \in Seq(EventType) : s \o t \in Seq(EventType)
  BY ConcatProperties
<1>2. \A s \in Seq(EventType), e \in EventType : Append(s, e) \in Seq(EventType)
  BY AppendProperties
<1>3. /\ store \in Seq(EventType) /\ disk \in Seq(EventType)
      /\ <<>> \in Seq(EventType)
  BY EmptySeq DEF TypeOK
<1>4. CASE Send
  BY <1>0, <1>1, <1>3, <1>4 DEF Send, EventTypes
<1>5. CASE Run
  <2>1. CASE Block \/ Enter \/ TopAborted \/ RequestAborted \/ RequestRetried
             \/ PauseEnds \/ Complete
    BY <1>3, <2>1 DEF Block, Enter, TopAborted, RequestAborted, RequestRetried,
                      PauseEnds, Complete, sessionVars
  <2>2. CASE Accept
    BY <1>0, <1>1, <1>3, <2>2 DEF Accept, EventTypes
  <2>3. CASE StartTurn
    BY <1>0, <1>1, <1>3, <2>3 DEF StartTurn, EventTypes
  <2>4. CASE TurnsSpent
    BY <1>0, <1>2, <1>3, <2>4 DEF TurnsSpent, EventTypes
  <2>5. CASE Close
    BY <1>0, <1>1, <1>3, <2>5 DEF Close, EventTypes
  <2>6. CASE RequestFailed
    BY <1>0, <1>2, <1>3, <2>6 DEF RequestFailed, EventTypes
  <2>7. \A ids \in Seq(Nat \X Nat), more \in Seq(EventType) :
          Respond(ids, more) => store' \in Seq(EventType)
    <3>1. \A ids \in Seq(Nat \X Nat) :
            <<Event("assistant_message", ids)>> \in Seq(EventType)
      <4>1. \A ids \in Seq(Nat \X Nat) : Event("assistant_message", ids) \in EventType
        BY DEF Event, EventType, EventTypes
      <4>2. \A e \in EventType : <<e>> \in Seq(EventType)
        OBVIOUS
      <4> QED
        BY <4>1, <4>2
    <3> QED
      BY <1>0, <1>1, <1>3, <3>1 DEF Respond, EventTypes
  <2>8. CASE AnswerTruncated \/ AnswerEmpty \/ AnswerFinal
    <3>1. <<>> \in Seq(Nat \X Nat)
      BY EmptySeq
    <3> QED
      BY <1>0, <1>3, <2>7, <2>8, <3>1
         DEF AnswerTruncated, AnswerEmpty, AnswerFinal, EventTypes
  <2>9. CASE AnswerCalls
    <3>1. PICK n \in 1..MaxCalls : Respond(CallIds(Asks + 1, n), <<>>)
      BY <2>9 DEF AnswerCalls
    <3>2. Asks + 1 \in Nat /\ n \in Nat
      <4>1. Asks \in Nat
        BY <1>3, CallIdType
      <4> QED
        BY <4>1, LimitsAssumption
    <3>4. CallIds(Asks + 1, n) \in Seq(Nat \X Nat)
      BY <3>2, CallIdsType
    <3>5. disk' = disk
      BY <2>9 DEF AnswerCalls
    <3> HIDE DEF Respond
    <3> QED
      BY <1>3, <2>7, <3>1, <3>4, <3>5
  <2>10. CASE StopHookContinues
    BY <1>0, <1>2, <1>3, <2>10 DEF StopHookContinues, EventTypes
  <2>11. CASE BatchAborted
    <3>1. lo \in 1..Len(calls) /\ calls \in Seq(Kinds)
      BY <2>11 DEF BatchAborted, BatchInv, TypeOK
    <3> QED
      BY <1>1, <1>3, <2>11, <3>1, InterruptedType DEF BatchAborted
  <2>12. CASE StartBatch
    <3>1. /\ lo \in 1..Len(calls) /\ calls \in Seq(Kinds)
          /\ store' = store \o CallEvents(lo, BatchEnd(lo)) /\ disk' = disk
      BY <2>12 DEF StartBatch, StartAtMost, BatchInv, TypeOK
    <3>2. lo \in Nat /\ BatchEnd(lo) \in Nat /\ lo <= BatchEnd(lo)
      BY <3>1, BatchEndBounds, LenProperties
    <3>3. CallEvents(lo, BatchEnd(lo)) \in Seq(EventType)
      BY <1>3, <3>1, <3>2, CallEventsType
    <3> QED
      BY <1>1, <1>3, <3>1, <3>3
  <2>13. CASE \E c \in running : CallReturns(c) \/ CallRejects(c)
    BY <1>3, <2>13 DEF CallReturns, CallRejects, sessionVars
  <2>14. CASE \E c \in running : BatchReturns(c)
    <3>1. PICK c \in running, e \in Some("reminder") : Record(c, <<>>, e)
      BY <2>14 DEF BatchReturns
    <3>2. /\ lo \in 1..Len(calls) /\ calls \in Seq(Kinds)
          /\ store' = store \o <<>> \o ResultEvents(lo, BatchEnd(lo)) \o e
          /\ disk' = disk
      BY <3>1 DEF Record, BatchInv, TypeOK
    <3>3. lo \in Nat /\ BatchEnd(lo) \in Nat /\ lo <= BatchEnd(lo)
      BY <3>2, BatchEndBounds, LenProperties
    <3>4. ResultEvents(lo, BatchEnd(lo)) \in Seq(EventType)
      BY <1>3, <3>2, <3>3, CallEventsType
    <3>5. e \in Seq(EventType)
      BY <1>0 DEF EventTypes
    <3> QED
      BY <1>1, <1>3, <3>2, <3>4, <3>5
  <2>15. CASE Advise
    BY <1>0, <1>1, <1>3, <2>15 DEF Advise, EventTypes
  <2> QED
    BY <1>5, <2>1, <2>2, <2>3, <2>4, <2>5, <2>6, <2>8, <2>9, <2>10, <2>11,
       <2>12, <2>13, <2>14, <2>15 DEF Run
<1>6. CASE Interrupt
  BY <1>3, <1>6 DEF Interrupt, sessionVars
<1>7. CASE CompactNow \/ End
  BY <1>0, <1>2, <1>3, <1>7 DEF CompactNow, End, EventTypes
<1>8. ASSUME NEW file \in Seq(EventType), Resume(file)
      PROVE  store' \in Seq(EventType) /\ disk' \in Seq(EventType)
  BY <1>0, <1>8 DEF Resume, EventTypes
<1>9. CASE Crash
  BY <1>3, <1>8, <1>9 DEF Crash
<1>10. CASE CrashSaving
  <2>1. PICK n \in 0..Len(store) : Resume(SubSeq(store, 1, n))
    BY <1>10 DEF CrashSaving
  <2>2. \A i \in 1..n : store[i] \in EventType
    BY <1>3, ElementOfSeq, LenProperties
  <2>3. SubSeq(store, 1, n) \in Seq(EventType)
    BY <1>3, <2>2, LenProperties, SubSeqProperties
  <2> QED
    BY <1>8, <2>1, <2>3
<1>11. CASE UNCHANGED vars
  BY <1>3, <1>11 DEF vars, sessionVars
<1> QED
  BY <1>4, <1>5, <1>6, <1>7, <1>9, <1>10, <1>11 DEF Next

(* The counters of the run stay within their limits. *)
LEMMA CountersStep ==
  ASSUME IInv, [Next]_vars
  PROVE  /\ prompts' \in 0..MaxPrompts /\ boots' \in Nat
         /\ turns' \in 0..MaxTurns /\ attempt' \in 0..Retries
         /\ continuations' \in 0..MaxContinuations /\ stops' \in 0..MaxStops
<1>1. /\ prompts \in 0..MaxPrompts /\ boots \in Nat
      /\ turns \in 0..MaxTurns /\ attempt \in 0..Retries
      /\ continuations \in 0..MaxContinuations /\ stops \in 0..MaxStops
  BY DEF IInv, TypeOK
<1>2. /\ MaxPrompts \in Nat /\ MaxTurns \in Nat /\ Retries \in Nat
      /\ MaxContinuations \in Nat /\ MaxStops \in Nat
  BY LimitsAssumption
<1>3. CASE Send \/ Interrupt \/ CompactNow \/ End
  BY <1>1, <1>2, <1>3 DEF Send, Interrupt, CompactNow, End, sessionVars, counters
<1>4. CASE Block \/ Accept \/ Enter \/ TopAborted \/ StartTurn \/ TurnsSpent \/ Close
  BY <1>1, <1>2, <1>4 DEF Block, Accept, Enter, TopAborted, StartTurn, TurnsSpent, Close,
     ResetCounters, sessionVars, counters
<1>5. CASE RequestAborted \/ RequestRetried \/ RequestFailed \/ PauseEnds
           \/ StopHookContinues \/ Complete
  BY <1>1, <1>2, <1>5 DEF RequestAborted, RequestRetried, RequestFailed, PauseEnds,
     StopHookContinues, Complete, sessionVars, counters
<1>6. CASE AnswerTruncated \/ AnswerEmpty \/ AnswerFinal \/ AnswerCalls
  BY <1>1, <1>2, <1>6 DEF AnswerTruncated, AnswerEmpty, AnswerFinal, AnswerCalls, counters
<1>7. CASE \/ BatchAborted \/ StartBatch \/ Advise
           \/ \E c \in running : CallReturns(c) \/ BatchReturns(c) \/ CallRejects(c)
  BY <1>1, <1>2, <1>7 DEF BatchAborted, StartBatch, StartAtMost, Advise, CallReturns,
     BatchReturns, Record, CallRejects, sessionVars, counters
<1>8. CASE Crash \/ CrashSaving
  BY <1>1, <1>2, <1>8 DEF Crash, CrashSaving, Resume, ResetCounters
<1>9. CASE UNCHANGED vars
  BY <1>1, <1>9 DEF vars, sessionVars, counters
<1> QED
  BY <1>3, <1>4, <1>5, <1>6, <1>7, <1>8, <1>9 DEF Next, Run

LEMMA FlagsStep ==
  ASSUME IInv, [Next]_vars
  PROVE  /\ {ended', nudged', aborted', asked'} \subseteq BOOLEAN
         /\ phase' \in Phases /\ reason' \in Reasons
<1>1. /\ ended \in BOOLEAN /\ nudged \in BOOLEAN
      /\ aborted \in BOOLEAN /\ asked \in BOOLEAN
      /\ phase \in Phases /\ reason \in Reasons
  BY DEF IInv, TypeOK
<1>2. CASE Send \/ Interrupt \/ CompactNow \/ End
  <2>1. phase' \in Phases /\ reason' \in Reasons
    BY <1>1, <1>2 DEF Send, Interrupt, CompactNow, End, Phases, Reasons
  <2>2. ended' \in BOOLEAN /\ nudged' \in BOOLEAN /\ aborted' \in BOOLEAN /\ asked' \in BOOLEAN
    BY <1>1, <1>2, Zenon DEF Send, Interrupt, CompactNow, End, sessionVars, counters, signals
  <2> QED
    BY <2>1, <2>2
<1>3. CASE Block \/ Accept \/ Enter \/ TopAborted \/ StartTurn \/ TurnsSpent \/ Close
  BY <1>1, <1>3 DEF Block, Accept, Enter, TopAborted, StartTurn, TurnsSpent, Close,
     Finish, ResetCounters, sessionVars, counters, signals, Phases, Reasons
<1>4. CASE RequestAborted \/ RequestRetried \/ RequestFailed \/ PauseEnds
           \/ StopHookContinues \/ Complete
  BY <1>1, <1>4 DEF RequestAborted, RequestRetried, RequestFailed, PauseEnds,
     StopHookContinues, Complete, Finish, sessionVars, counters, signals, Phases, Reasons
<1>5. CASE AnswerTruncated \/ AnswerEmpty \/ AnswerFinal \/ AnswerCalls
  BY <1>1, <1>5 DEF AnswerTruncated, AnswerEmpty, AnswerFinal, AnswerCalls,
     counters, signals, Phases, Reasons
<1>6. CASE \/ BatchAborted \/ StartBatch \/ Advise
           \/ \E c \in running : CallReturns(c) \/ BatchReturns(c) \/ CallRejects(c)
  BY <1>1, <1>6 DEF BatchAborted, StartBatch, StartAtMost, Advise, CallReturns,
     BatchReturns, Record, CallRejects, NoCalls, Finish, sessionVars, counters, signals,
     Phases, Reasons
<1>7. CASE Crash \/ CrashSaving
  BY <1>1, <1>7 DEF Crash, CrashSaving, Resume, ResetCounters, Phases, Reasons
<1>8. CASE UNCHANGED vars
  BY <1>1, <1>8 DEF vars, sessionVars, counters, signals
<1> QED
  BY <1>2, <1>3, <1>4, <1>5, <1>6, <1>7, <1>8 DEF Next, Run

(* Nothing the batch depends on changes. *)
LEMMA BatchUnchanged ==
  ASSUME UNCHANGED <<store, calls, lo>>
  PROVE  /\ Asks' = Asks /\ Recorded' = Recorded
         /\ \A i : CallId(i)' = CallId(i)
         /\ BatchEnd(lo)' = BatchEnd(lo)
  BY DEF Asks, Recorded, CallId, BatchEnd

(* Outside a batch there is nothing to keep. *)
LEMMA NoBatch ==
  ASSUME phase' \notin {"batch", "running"}, running' = {}
  PROVE  BatchInv'
  BY DEF BatchInv

LEMMA BatchStep ==
  ASSUME IInv, [Next]_vars
  PROVE  /\ calls' \in Seq(Kinds) /\ lo' \in Nat \ {0} /\ next' \in Nat \ {0}
         /\ running' \subseteq Nat
         /\ BatchInv'
<1> DEFINE Goal == /\ calls' \in Seq(Kinds) /\ lo' \in Nat \ {0} /\ next' \in Nat \ {0}
                   /\ running' \subseteq Nat
                   /\ BatchInv'
<1>0. /\ store \in Seq(EventType) /\ calls \in Seq(Kinds) /\ Len(calls) \in Nat
      /\ lo \in Nat \ {0} /\ next \in Nat \ {0} /\ running \subseteq Nat
      /\ BatchInv
      /\ MaxParallel \in Nat \ {0}
  BY LenProperties, LimitsAssumption DEF IInv, TypeOK
<1>1. ASSUME NoCalls, phase' \notin {"batch", "running"}
      PROVE  Goal
  <2>1. <<>> \in Seq(Kinds)
    BY EmptySeq
  <2> QED
    BY <1>1, <2>1, NoBatch DEF NoCalls
<1>2. ASSUME UNCHANGED batchVars, phase \notin {"batch", "running"},
             phase' \notin {"batch", "running"}
      PROVE  Goal
  BY <1>0, <1>2, NoBatch DEF batchVars, BatchInv
<1>3. ASSUME UNCHANGED batchVars, phase' = phase, store' = store
      PROVE  Goal
  BY <1>0, <1>3, BatchUnchanged DEF batchVars, BatchInv
<1>4. CASE Send \/ Block \/ Accept \/ Enter \/ StartTurn \/ RequestRetried
           \/ AnswerTruncated \/ AnswerEmpty \/ AnswerFinal \/ StopHookContinues
           \/ Advise
  <2>1. /\ UNCHANGED batchVars /\ phase \notin {"batch", "running"}
        /\ phase' \notin {"batch", "running"}
    BY <1>4 DEF Send, Block, Accept, Enter, StartTurn, RequestRetried, AnswerTruncated,
       AnswerEmpty, AnswerFinal, StopHookContinues, Advise
  <2> QED
    BY <1>2, <2>1
<1>5. CASE \/ TopAborted \/ Close \/ RequestAborted \/ RequestFailed \/ Complete
           \/ BatchAborted \/ Crash \/ CrashSaving
           \/ \E c \in running : CallRejects(c)
  <2>1. NoCalls /\ phase' \notin {"batch", "running"}
    BY <1>5 DEF TopAborted, Close, RequestAborted, RequestFailed, Complete,
       BatchAborted, Crash, CrashSaving, Resume, CallRejects, Finish
  <2> QED
    BY <1>1, <2>1
<1>6. CASE TurnsSpent \/ PauseEnds
  <2>1. \/ NoCalls /\ phase' \notin {"batch", "running"}
        \/ /\ UNCHANGED batchVars /\ phase \notin {"batch", "running"}
           /\ phase' \notin {"batch", "running"}
    BY <1>6 DEF TurnsSpent, PauseEnds, Finish
  <2> QED
    BY <1>1, <1>2, <2>1
<1>7. CASE Interrupt \/ UNCHANGED vars
  <2>1. UNCHANGED batchVars /\ phase' = phase /\ store' = store
    BY <1>7 DEF Interrupt, vars, sessionVars
  <2> QED
    BY <1>3, <2>1
<1>8. CASE AnswerCalls
  <2>1. PICK n \in 1..MaxCalls : calls' \in [1..n -> Kinds]
    BY <1>8 DEF AnswerCalls
  <2>2. n \in Nat /\ n > 0
    BY LimitsAssumption
  <2>3. calls' \in Seq(Kinds) /\ Len(calls') = n
    <3>1. calls' \in Seq(Kinds)
      BY <2>1, <2>2
    <3> QED
      BY <2>1, <2>2, <3>1, LenProperties
  <2>4. lo' = 1 /\ next' = 1 /\ running' = {} /\ phase' = "batch"
    BY <1>8 DEF AnswerCalls
  <2> QED
    BY <2>2, <2>3, <2>4 DEF BatchInv
<1>9. CASE End \/ CompactNow
  <2>1. PICK type \in {"session_end", "compaction"} :
          /\ UNCHANGED batchVars /\ phase' = phase
          /\ store' = Append(store, Plain(type))
    BY <1>9 DEF End, CompactNow
  <2>2. /\ <<Plain(type)>> \in Seq(EventType)
        /\ store' = store \o <<Plain(type)>>
        /\ \A i \in 1..Len(<<Plain(type)>>) : <<Plain(type)>>[i].type # "assistant_message"
    <3>1. Plain(type) \in EventType /\ <<Plain(type)>> \in Seq(EventType)
      BY PlainType DEF EventTypes
    <3>2. Plain(type).type = type
      BY DEF Plain, Event
    <3> QED
      BY <1>0, <2>1, <3>1, <3>2, AppendIsConcat
  <2>3. Asks' = Asks /\ Recorded \subseteq Recorded'
    BY <1>0, <2>2, AppendKeepsAnswers
  <2>4. BatchEnd(lo)' = BatchEnd(lo)
    BY <2>1 DEF batchVars, BatchEnd
  <2> QED
    BY <1>0, <2>1, <2>3, <2>4 DEF batchVars, BatchInv, CallId
<1>10. CASE StartBatch
  <2> DEFINE hi   == BatchEnd(lo)
             last == IF hi < lo + MaxParallel - 1 THEN hi ELSE lo + MaxParallel - 1
  <2>1. /\ phase = "batch" /\ phase' = "running"
        /\ store' = store \o CallEvents(lo, hi)
        /\ running' = lo..last /\ next' = last + 1
        /\ UNCHANGED <<calls, lo>>
    BY <1>10 DEF StartBatch, StartAtMost
  <2>2. lo \in 1..Len(calls)
    BY <1>0, <2>1 DEF BatchInv
  <2>3. hi \in lo..Len(calls)
    BY <1>0, <2>2, BatchEndBounds
  <2>4. last \in lo..hi /\ last - lo + 1 <= MaxParallel
    BY <1>0, <2>3
  <2>5. /\ CallEvents(lo, hi) \in Seq(EventType)
        /\ \A i \in 1..Len(CallEvents(lo, hi)) :
             CallEvents(lo, hi)[i].type # "assistant_message"
    <3>1. lo \in Nat /\ hi \in Nat /\ lo <= hi
      BY <1>0, <2>3
    <3> HIDE DEF hi
    <3> QED
      BY <1>0, <3>1, CallEventsType
  <2>6. Asks' = Asks /\ Recorded \subseteq Recorded'
    BY <1>0, <2>1, <2>5, AppendKeepsAnswers
  <2>7. hi' = hi
    BY <2>1 DEF BatchEnd
  <2>8. IsFiniteSet(running') /\ Cardinality(running') <= MaxParallel
    <3>1. lo \in Int /\ last \in Int /\ lo <= last
      BY <1>0, <2>3, <2>4
    <3> HIDE DEF last
    <3>2. IsFiniteSet(lo..last) /\ Cardinality(lo..last) = last - lo + 1
      BY <3>1, FS_Interval
    <3> QED
      BY <2>1, <2>4, <3>2
  <2>9. \A b \in 1..(lo' - 1) : CallId(b)' \in Recorded'
    BY <1>0, <2>1, <2>6 DEF BatchInv, CallId
  <2>10. /\ running' # {} /\ running' \subseteq lo..hi /\ next' \in lo..(hi + 1)
         /\ \A c \in running' : c < next'
    <3>1. lo \in Int /\ last \in Int /\ hi \in Int /\ lo <= last /\ last <= hi
      BY <1>0, <2>3, <2>4
    <3>2. running' = lo..last /\ next' = last + 1
      BY <2>1
    <3> HIDE DEF hi, last
    <3>3. lo \in running'
      BY <3>1, <3>2
    <3>4. running' \subseteq lo..hi /\ next' \in lo..(hi + 1)
      BY <3>1, <3>2
    <3>5. \A c \in running' : c < next'
      BY <3>1, <3>2
    <3> QED
      BY <3>3, <3>4, <3>5
  <2> HIDE DEF hi, last
  <2>11. lo' = lo /\ calls' = calls /\ phase' = "running"
    BY <2>1
  <2>12. BatchInv'
    BY <2>2, <2>7, <2>8, <2>9, <2>10, <2>11 DEF BatchInv, hi
  <2>13. next' \in Nat \ {0} /\ running' \subseteq Nat
    BY <1>0, <2>3, <2>10
  <2> QED
    BY <1>0, <2>11, <2>12, <2>13
<1>11. CASE \E c \in running : CallReturns(c)
  <2> DEFINE hi == BatchEnd(lo)
  <2>1. PICK c \in running : CallReturns(c)
    BY <1>11
  <2>2. /\ phase = "running" /\ phase' = phase /\ UNCHANGED <<store, calls, lo>>
        /\ running # {c} \/ next <= hi
        /\ \/ /\ next <= hi
              /\ running' = (running \ {c}) \cup {next} /\ next' = next + 1
           \/ running' = running \ {c} /\ next' = next /\ running # {c}
    BY <2>1 DEF CallReturns, sessionVars
  <2>3. /\ lo \in 1..Len(calls)
        /\ running # {} /\ running \subseteq lo..hi /\ next \in lo..(hi + 1)
        /\ \A d \in running : d < next
        /\ IsFiniteSet(running) /\ Cardinality(running) <= MaxParallel
    BY <1>0, <2>2 DEF BatchInv
  <2>4. hi \in lo..Len(calls)
    BY <1>0, <2>3, BatchEndBounds
  <2>5. hi' = hi
    BY <2>2, BatchUnchanged
  <2>6. lo' \in 1..Len(calls') /\ \A b \in 1..(lo' - 1) : CallId(b)' \in Recorded'
    BY <1>0, <2>2, BatchUnchanged DEF BatchInv
  <2> HIDE DEF hi
  <2>7. /\ running' # {} /\ running' \subseteq lo..hi /\ next' \in lo..(hi + 1)
        /\ \A d \in running' : d < next'
    <3>1. lo \in Int /\ hi \in Int /\ next \in Int /\ lo <= hi /\ running \subseteq Int
      BY <1>0, <2>3, <2>4
    <3>2. CASE next <= hi /\ running' = (running \ {c}) \cup {next} /\ next' = next + 1
      BY <2>3, <3>1, <3>2
    <3>3. CASE running' = running \ {c} /\ next' = next /\ running # {c}
      BY <2>3, <3>1, <3>3
    <3> QED
      BY <2>2, <3>2, <3>3
  <2>8. IsFiniteSet(running') /\ Cardinality(running') <= MaxParallel
    <3>1. /\ IsFiniteSet(running \ {c}) /\ Cardinality(running \ {c}) = Cardinality(running) - 1
          /\ Cardinality(running) \in Nat
      BY <2>3, <2>1, FS_RemoveElement, FS_CardinalityType
    <3>2. /\ IsFiniteSet((running \ {c}) \cup {next})
          /\ Cardinality((running \ {c}) \cup {next}) <= Cardinality(running)
      BY <3>1, FS_AddElement
    <3>3. running' = (running \ {c}) \cup {next} \/ running' = running \ {c}
      BY <2>2
    <3>4. Cardinality(running \ {c}) <= MaxParallel
      BY <1>0, <2>3, <3>1
    <3>5. Cardinality((running \ {c}) \cup {next}) <= MaxParallel
      <4>1. Cardinality((running \ {c}) \cup {next}) \in Nat
        BY <3>2, FS_CardinalityType
      <4> QED
        BY <1>0, <2>3, <3>1, <3>2, <4>1
    <3> QED
      BY <3>1, <3>2, <3>3, <3>4, <3>5
  <2>9. BatchInv'
    BY <2>2, <2>5, <2>6, <2>7, <2>8 DEF BatchInv, hi
  <2>10. next' \in Nat \ {0} /\ running' \subseteq Nat
    BY <1>0, <2>4, <2>7, <2>2
  <2> QED
    BY <1>0, <2>2, <2>9, <2>10
<1>12. CASE \E c \in running : BatchReturns(c)
  <2> DEFINE hi == BatchEnd(lo)
             results == ResultEvents(lo, hi)
  <2>1. PICK c \in running, e \in Some("reminder") : Record(c, <<>>, e)
    BY <1>12 DEF BatchReturns
  <2>2. phase = "running" /\ store' = store \o <<>> \o results \o e
    BY <2>1 DEF Record
  <2>3. lo \in 1..Len(calls)
    BY <1>0, <2>2 DEF BatchInv
  <2>4. hi \in lo..Len(calls)
    BY <1>0, <2>3, BatchEndBounds
  <2>5. CASE hi = Len(calls)
    <3>1. phase' = "top" /\ NoCalls
      BY <2>1, <2>5 DEF Record
    <3> QED
      BY <1>1, <3>1
  <2>6. CASE hi # Len(calls)
    <3>1. /\ e = <<>> /\ lo' = hi + 1 /\ next' = hi + 1 /\ running' = {}
          /\ phase' = "batch" /\ calls' = calls
      BY <2>1, <2>6 DEF Record
    <3>2. lo \in Nat /\ lo > 0 /\ hi \in Nat /\ lo <= hi /\ hi < Len(calls)
      BY <1>0, <2>3, <2>4, <2>6
    <3> HIDE DEF hi
    <3>3. /\ results \in Seq(EventType) /\ Len(results) = hi - lo + 1
          /\ \A i \in 1..(hi - lo + 1) :
               /\ results[i].type = "tool_result"
               /\ results[i].ids = <<CallId(lo + i - 1)>>
      <4>1. lo \in Nat /\ hi \in Nat /\ lo <= hi /\ store \in Seq(EventType)
        BY <1>0, <3>2
      <4> QED
        BY <4>1, CallEventsType, ZenonT(30)
    <3>4. store' = store \o results
      BY <1>0, <2>2, <3>1, <3>3, ConcatEmptySeq, ConcatProperties
    <3> HIDE DEF results
    <3>5. Asks' = Asks /\ Recorded \subseteq Recorded'
      <4>1. \A i \in 1..Len(results) : results[i].type # "assistant_message"
        BY <3>3
      <4> QED
        BY <1>0, <3>3, <3>4, <4>1, AppendKeepsAnswers
    <3>6. ASSUME NEW b \in lo..hi
          PROVE  CallId(b) \in Recorded'
      <4> DEFINE k == Len(store) + (b - lo + 1)
      <4>1. Len(store) \in Nat
        BY <1>0, LenProperties
      <4>2. b - lo + 1 \in 1..Len(results)
        BY <3>2, <3>3
      <4>3. k \in DOMAIN store' /\ store'[k] = results[b - lo + 1]
        <5>1. /\ store' \in Seq(EventType) /\ Len(store') = Len(store) + Len(results)
              /\ \A i \in 1..(Len(store) + Len(results)) :
                   store'[i] = IF i <= Len(store) THEN store[i] ELSE results[i - Len(store)]
          BY <1>0, <3>3, <3>4, ConcatProperties
        <5>2. k \in 1..(Len(store) + Len(results)) /\ ~ (k <= Len(store))
              /\ k - Len(store) = b - lo + 1
          BY <3>2, <3>3, <4>1, <4>2
        <5> QED
          BY <5>1, <5>2, LenProperties
      <4>4. store'[k].type = "tool_result" /\ store'[k].ids = <<CallId(lo + (b - lo + 1) - 1)>>
        BY <3>3, <4>2, <4>3
      <4>5. lo + (b - lo + 1) - 1 = b
        BY <3>2
      <4>6. CallId(b) \in ToSet(store'[k].ids)
        BY <4>4, <4>5 DEF ToSet
      <4> QED
        BY <4>3, <4>4, <4>6 DEF Recorded
    <3>7. \A b \in 1..(lo' - 1) : CallId(b)' \in Recorded'
      <4> TAKE b \in 1..(lo' - 1)
      <4>1. b \in 1..(lo - 1) \/ b \in lo..hi
        BY <3>1, <3>2
      <4>2. b \in 1..(lo - 1) => CallId(b) \in Recorded
        BY <1>0, <2>2 DEF BatchInv
      <4>3. CallId(b)' = CallId(b)
        BY <3>5 DEF CallId
      <4> QED
        BY <3>5, <3>6, <4>1, <4>2, <4>3
    <3> QED
      BY <1>0, <3>1, <3>2, <3>7 DEF BatchInv
  <2> QED
    BY <2>5, <2>6
<1> QED
  BY <1>4, <1>5, <1>6, <1>7, <1>8, <1>9, <1>10, <1>11, <1>12 DEF Next, Run

-----------------------------------------------------------------------------
(* The theorems. *)

LEMMA InductiveInvariant == Spec => []IInv
<1>1. IInv /\ [Next]_vars => IInv'
  <2> SUFFICES ASSUME IInv, [Next]_vars PROVE IInv'
    OBVIOUS
  <2>1. store' \in Seq(EventType) /\ disk' \in Seq(EventType)
    BY StoreStep
  <2>2. /\ prompts' \in 0..MaxPrompts /\ boots' \in Nat
        /\ turns' \in 0..MaxTurns /\ attempt' \in 0..Retries
        /\ continuations' \in 0..MaxContinuations /\ stops' \in 0..MaxStops
    BY CountersStep
  <2>3. /\ {ended', nudged', aborted', asked'} \subseteq BOOLEAN
        /\ phase' \in Phases /\ reason' \in Reasons
    BY FlagsStep
  <2>4. /\ calls' \in Seq(Kinds) /\ lo' \in Nat \ {0} /\ next' \in Nat \ {0}
        /\ running' \subseteq Nat
        /\ BatchInv'
    BY BatchStep
  <2> QED
    BY <2>1, <2>2, <2>3, <2>4 DEF IInv, TypeOK
<1> QED
  BY InitInv, <1>1, PTL DEF Spec

(* The state keeps the shape the code gives it. *)
THEOREM TypeCorrect == Spec => []TypeOK
<1>1. IInv => TypeOK
  BY DEF IInv
<1> QED
  BY InductiveInvariant, <1>1, PTL

(* However many calls a response holds and in whatever order they return,  *)
(* no call starts before every call across a serial one before it has its  *)
(* result in the log (partition, runCalls, mapLimit).                      *)
THEOREM SerialCallsAreBarriers == Spec => []SerialBarrier
<1>1. IInv => SerialBarrier
  <2> SUFFICES ASSUME IInv, NEW c \in running, NEW b \in DOMAIN calls, b < c,
                      NEW k \in b..c, calls[k] = "serial"
               PROVE  CallId(b) \in Recorded
    BY DEF SerialBarrier
  <2>1. calls \in Seq(Kinds) /\ Len(calls) \in Nat /\ DOMAIN calls = 1..Len(calls)
    BY LenProperties DEF IInv, TypeOK
  <2>2. phase = "running"
    BY DEF IInv, BatchInv
  <2>3. lo \in 1..Len(calls) /\ c \in lo..BatchEnd(lo)
    BY <2>2 DEF IInv, BatchInv
  <2>4. /\ BatchEnd(lo) \in lo..Len(calls)
        /\ calls[lo] = "serial" => BatchEnd(lo) = lo
        /\ calls[lo] # "serial" => \A j \in lo..BatchEnd(lo) : calls[j] = "parallel"
    BY <2>1, <2>3, BatchEndBounds
  <2>5. b < lo
    <3>1. SUFFICES ASSUME lo <= b PROVE FALSE
      BY <2>1, <2>3
    <3>2. k \in lo..BatchEnd(lo)
      BY <2>1, <2>3, <2>4, <3>1
    <3>3. calls[lo] # "serial"
      BY <2>1, <2>3, <2>4, <3>1
    <3> QED
      BY <2>4, <3>2, <3>3
  <2>6. b \in 1..(lo - 1)
    BY <2>1, <2>3, <2>5
  <2> QED
    BY <2>2, <2>6 DEF IInv, BatchInv
<1> QED
  BY InductiveInvariant, <1>1, PTL

(* mapLimit never has more than MaxParallel calls in flight, all of them   *)
(* of the batch at hand, and never waits for none.                         *)
THEOREM BatchesAreBounded == Spec => []BoundedBatch
<1>1. IInv => BoundedBatch
  <2> SUFFICES ASSUME IInv PROVE BoundedBatch
    OBVIOUS
  <2>1. CASE phase = "running"
    BY <2>1 DEF IInv, BatchInv, BoundedBatch
  <2>2. CASE phase # "running"
    <3>1. running = {} /\ MaxParallel \in Nat
      BY <2>2, LimitsAssumption DEF IInv, BatchInv
    <3> QED
      BY <2>2, <3>1, FS_EmptySet DEF BoundedBatch
  <2> QED
    BY <2>1, <2>2
<1> QED
  BY InductiveInvariant, <1>1, PTL

(* Once its signal is aborted a run starts no further turn and no further  *)
(* batch (the checks of runLoop and runCalls), until the next prompt gives *)
(* the session a controller of its own.                                    *)
THEOREM AbortStopsTheRun == Spec => AbortStops
<1> DEFINE Stops == aborted /\ aborted'
                      => /\ turns' <= turns
                         /\ phase' = "running" => phase = "running"
<1>1. ASSUME IInv, [Next]_vars PROVE [Stops]_vars
  <2> SUFFICES ASSUME aborted, aborted'
               PROVE  turns' <= turns /\ (phase' = "running" => phase = "running")
    OBVIOUS
  <2>1. turns \in Nat
    BY <1>1, LimitsAssumption DEF IInv, TypeOK
  <2>2. CASE Send \/ Interrupt \/ CompactNow \/ End \/ UNCHANGED vars
    <3>1. UNCHANGED turns /\ (phase' = "running" => phase = "running")
      BY <2>2 DEF Send, Interrupt, CompactNow, End, vars, counters
    <3> QED
      BY <2>1, <3>1
  <2>3. CASE Crash \/ CrashSaving \/ Accept
    <3>1. ~aborted'
      BY <2>3, Zenon DEF Crash, CrashSaving, Resume, Accept
    <3> QED
      BY <3>1
  <2>4. CASE StartTurn \/ StartBatch
    <3>1. ~aborted
      BY <2>4, Zenon DEF StartTurn, StartBatch
    <3> QED
      BY <3>1
  <2>5. CASE \/ Block \/ Enter \/ TopAborted \/ TurnsSpent \/ Close \/ RequestAborted
             \/ RequestRetried \/ RequestFailed \/ PauseEnds \/ StopHookContinues
             \/ Complete \/ BatchAborted \/ Advise
    <3>1. UNCHANGED turns /\ phase' # "running"
      BY <2>5 DEF Block, Enter, TopAborted, TurnsSpent, Close, RequestAborted,
         RequestRetried, RequestFailed, PauseEnds, StopHookContinues, Complete,
         BatchAborted, Advise, Finish, counters
    <3> QED
      BY <2>1, <3>1
  <2>6. CASE \/ AnswerTruncated \/ AnswerEmpty \/ AnswerFinal \/ AnswerCalls
             \/ \E c \in running : CallReturns(c) \/ BatchReturns(c) \/ CallRejects(c)
    <3>1. UNCHANGED turns /\ (phase' = "running" => phase = "running")
      BY <2>6 DEF AnswerTruncated, AnswerEmpty, AnswerFinal, AnswerCalls, CallReturns,
         BatchReturns, Record, CallRejects, counters
    <3> QED
      BY <2>1, <3>1
  <2> QED
    BY <1>1, <2>2, <2>3, <2>4, <2>5, <2>6 DEF Next, Run
<1>2. IInv /\ [Next]_vars => [Stops]_vars
  BY <1>1
<1> QED
  BY InductiveInvariant, <1>2, PTL DEF Spec, AbortStops

-----------------------------------------------------------------------------
(* What the model is sent, and what a resume finds. *)

(* A log whose calls all have their results. *)
Settled(log) == /\ log \in Seq(EventType)
                /\ Transcript(log) \in Seq(MessageType)
                /\ ValidTranscript(Transcript(log))

(* A message that calls no tool may follow any valid transcript. *)
LEMMA ValidAppend ==
  ASSUME NEW msgs \in Seq(MessageType), ValidTranscript(msgs),
         NEW m \in MessageType, m.role # "tool", m.role = "assistant" => m.ids = <<>>
  PROVE  Append(msgs, m) \in Seq(MessageType) /\ ValidTranscript(Append(msgs, m))
<1> DEFINE p == Append(msgs, m)
           l == Len(msgs)
<1>1. /\ p \in Seq(MessageType) /\ Len(p) = l + 1 /\ l \in Nat
      /\ \A i \in 1..l : p[i] = msgs[i]
      /\ p[l + 1] = m
  BY AppendProperties, LenProperties
<1> HIDE DEF p
<1>2. DOMAIN p = 1..(l + 1) /\ DOMAIN msgs = 1..l
  BY <1>1, LenProperties
<1>3. ASSUME NEW i \in 1..(l + 1)
      PROVE  /\ p[i].role = "assistant" /\ p[i].ids # <<>>
                   => i < Len(p) /\ Answers(p[i], p[i + 1])
             /\ p[i].role = "tool"
                   => i > 1 /\ p[i - 1].role = "assistant" /\ p[i - 1].ids # <<>>
  <2>1. CASE i = l + 1
    BY <1>1, <2>1
  <2>2. CASE i # l + 1
    <3>1. i \in 1..l /\ p[i] = msgs[i]
      BY <1>1, <2>2
    <3>2. /\ msgs[i].role = "assistant" /\ msgs[i].ids # <<>>
               => i < l /\ Answers(msgs[i], msgs[i + 1])
          /\ msgs[i].role = "tool"
               => i > 1 /\ msgs[i - 1].role = "assistant" /\ msgs[i - 1].ids # <<>>
      BY <1>2, <3>1 DEF ValidTranscript
    <3>3. i < l => i + 1 \in 1..l /\ p[i + 1] = msgs[i + 1]
      BY <1>1, <3>1
    <3>4. i > 1 => i - 1 \in 1..l /\ p[i - 1] = msgs[i - 1]
      BY <1>1, <3>1
    <3> QED
      BY <1>1, <3>1, <3>2, <3>3, <3>4
  <2> QED
    BY <2>1, <2>2
<1> QED
  BY <1>1, <1>2, <1>3 DEF ValidTranscript, p

LEMMA SettledAppend ==
  ASSUME NEW log, Settled(log), NEW type \in EventTypes \ {"tool_result"}
  PROVE  /\ Settled(Append(log, Plain(type)))
         /\ Settled(log \o <<Plain(type)>>)
         /\ \A e \in Some(type) : Settled(log \o e)
<1> DEFINE e == Plain(type)
           msgs == Transcript(log)
<1>1. /\ log \in Seq(EventType) /\ msgs \in Seq(MessageType) /\ ValidTranscript(msgs)
      /\ e \in EventType /\ e.type = type /\ e.ids = <<>>
  BY PlainType DEF Settled, Plain, Event
<1>2. <<>> \in Seq(Nat \X Nat)
  BY EmptySeq
<1>3. \A role \in Roles : /\ Message(role, <<>>) \in MessageType
                          /\ Message(role, <<>>).role = role
                          /\ Message(role, <<>>).ids = <<>>
  BY <1>2, MessageIsMessage DEF Message
<1>4. Append(log, e) \in Seq(EventType)
  BY <1>1, AppendProperties
<1> HIDE DEF e
<1>5. ASSUME type = "compaction"
      PROVE  Settled(Append(log, e))
  <2> DEFINE m == Message("user", <<>>)
  <2>1. Transcript(Append(log, e)) = <<m>>
    BY <1>1, <1>5, TranscriptAppend
  <2>2. m \in MessageType /\ m.role = "user"
    BY <1>3 DEF Roles
  <2> HIDE DEF m
  <2>3. <<m>> \in Seq(MessageType) /\ DOMAIN <<m>> = 1..1 /\ <<m>>[1] = m
    BY <2>2
  <2>4. ValidTranscript(<<m>>)
    BY <2>2, <2>3 DEF ValidTranscript
  <2> QED
    BY <1>4, <2>1, <2>3, <2>4 DEF Settled
<1>6. ASSUME type # "compaction"
      PROVE  Settled(Append(log, e))
  <2>1. Transcript(Append(log, e)) = Project(msgs, e)
    BY <1>1, <1>6, TranscriptAppend
  <2> HIDE DEF msgs
  <2>2. \/ Project(msgs, e) = msgs
        \/ Project(msgs, e) = Append(msgs, Message("assistant", <<>>))
        \/ Project(msgs, e) = Append(msgs, Message("user", <<>>))
    BY <1>1 DEF Project
  <2>3. \A role \in {"assistant", "user"} :
          /\ Append(msgs, Message(role, <<>>)) \in Seq(MessageType)
          /\ ValidTranscript(Append(msgs, Message(role, <<>>)))
    <3> TAKE role \in {"assistant", "user"}
    <3>1. /\ Message(role, <<>>) \in MessageType
          /\ Message(role, <<>>).role # "tool" /\ Message(role, <<>>).ids = <<>>
      BY <1>3 DEF Roles
    <3> QED
      BY <1>1, <3>1, ValidAppend
  <2>4. /\ Project(msgs, e) \in Seq(MessageType)
        /\ ValidTranscript(Project(msgs, e))
    BY <1>1, <2>2, <2>3
  <2> QED
    BY <1>4, <2>1, <2>4 DEF Settled
<1>7. Settled(Append(log, e))
  BY <1>5, <1>6
<1>8. log \o <<e>> = Append(log, e) /\ log \o <<>> = log
  BY <1>1, AppendIsConcat, ConcatEmptySeq
<1>9. \A x \in Some(type) : x = <<>> \/ x = <<e>>
  BY DEF Some, e
<1> QED
  BY <1>7, <1>8, <1>9 DEF e

(* An answer all of whose calls have their results is settled. *)
LEMMA AskedValid ==
  ASSUME NEW v \in Seq(MessageType), ValidTranscript(v),
         NEW a \in Nat, NEW n \in Nat, n # 0
  PROVE  ValidTranscript(Asked(v, a, n, n))
<1> DEFINE p == Asked(v, a, n, n)
           l == Len(v)
<1>1. p \in Seq(MessageType)
  BY AskedType
<1>2. Len(p) = l + 2 /\ l \in Nat
  BY AskedType, LenProperties
<1>3. \A i \in 1..l : p[i] = v[i]
  BY AskedType
<1>4. p[l + 1] = Message("assistant", CallIds(a, n))
  BY AskedType
<1>5. p[l + 2] = Message("tool", CallIds(a, n))
  BY AskedType
<1>6. CallIds(a, n) # <<>>
  BY CallIdsType
<1> HIDE DEF p
<1>7. DOMAIN p = 1..(l + 2) /\ DOMAIN v = 1..l
  BY <1>1, <1>2, LenProperties
<1>8. ASSUME NEW i \in 1..(l + 2)
      PROVE  /\ p[i].role = "assistant" /\ p[i].ids # <<>>
                   => i < l + 2 /\ Answers(p[i], p[i + 1])
             /\ p[i].role = "tool"
                   => i > 1 /\ p[i - 1].role = "assistant" /\ p[i - 1].ids # <<>>
  <2>1. CASE i = l + 2
    <3>1. p[i].role = "tool" /\ i - 1 = l + 1 /\ i > 1
      BY <1>2, <1>5, <2>1 DEF Message
    <3>2. p[l + 1].role = "assistant" /\ p[l + 1].ids # <<>>
      BY <1>4, <1>6 DEF Message
    <3> QED
      BY <3>1, <3>2
  <2>2. CASE i = l + 1
    <3>1. p[i].role = "assistant" /\ i + 1 = l + 2 /\ i < l + 2
      BY <1>2, <1>4, <2>2 DEF Message
    <3>2. Answers(p[l + 1], p[l + 2])
      BY <1>4, <1>5 DEF Answers, Message
    <3> QED
      BY <2>2, <3>1, <3>2
  <2>3. CASE i \in 1..l
    <3>1. p[i] = v[i]
      BY <1>3, <2>3
    <3>2. /\ v[i].role = "assistant" /\ v[i].ids # <<>>
               => i < l /\ Answers(v[i], v[i + 1])
          /\ v[i].role = "tool"
               => i > 1 /\ v[i - 1].role = "assistant" /\ v[i - 1].ids # <<>>
      BY <1>7, <2>3 DEF ValidTranscript
    <3>3. i < l => i + 1 \in 1..l /\ p[i + 1] = v[i + 1]
      BY <1>2, <1>3, <2>3
    <3>4. i > 1 => i - 1 \in 1..l /\ p[i - 1] = v[i - 1]
      BY <1>2, <1>3, <2>3
    <3> QED
      BY <1>2, <2>3, <3>1, <3>2, <3>3, <3>4
  <2> QED
    BY <1>2, <2>1, <2>2, <2>3
<1> QED
  BY <1>2, <1>7, <1>8 DEF ValidTranscript, p

(* The answer to a request is one answer more. *)
LEMMA AnswerCounted ==
  ASSUME store \in Seq(EventType), NEW more \in Seq(EventType),
         \A i \in 1..Len(more) : more[i].type # "assistant_message",
         NEW ids \in Seq(Nat \X Nat),
         store' = Append(store \o more, Event("assistant_message", ids))
  PROVE  Asks' = Asks + 1
<1> DEFINE e == Event("assistant_message", ids)
           n == Len(store) + Len(more) + 1
           S == {i \in DOMAIN store : store[i].type = "assistant_message"}
           T == {i \in DOMAIN store' : store'[i].type = "assistant_message"}
<1>1. e \in EventType /\ e.type = "assistant_message"
  BY DEF Event, EventType, EventTypes
<1> HIDE DEF e
<1>2. /\ Len(store) \in Nat /\ Len(more) \in Nat
      /\ DOMAIN store = 1..Len(store)
  BY LenProperties
<1>3. /\ store \o more \in Seq(EventType) /\ Len(store \o more) = n - 1
      /\ \A i \in 1..(n - 1) : (store \o more)[i] =
           IF i <= Len(store) THEN store[i] ELSE more[i - Len(store)]
  BY <1>2, ConcatProperties
<1>4. store' = Append(store \o more, e)
  BY DEF e
<1>5. /\ DOMAIN store' = 1..n
      /\ \A i \in 1..(n - 1) : store'[i] = (store \o more)[i]
      /\ store'[n] = e
  BY <1>1, <1>2, <1>3, <1>4, AppendProperties, LenProperties
<1>6. T = S \cup {n}
  <2>1. ASSUME NEW i \in 1..n
        PROVE  i \in T <=> i \in S \/ i = n
    <3>1. CASE i = n
      BY <1>1, <1>5, <3>1
    <3>2. CASE i <= Len(store)
      <4>1. i \in 1..(n - 1) /\ i \in 1..Len(store) /\ i # n
        BY <1>2, <3>2
      <4>2. store'[i] = store[i]
        BY <1>3, <1>5, <3>2, <4>1
      <4> QED
        BY <1>2, <1>5, <4>1, <4>2
    <3>3. CASE i # n /\ ~ (i <= Len(store))
      <4>1. i - Len(store) \in 1..Len(more) /\ i \in 1..(n - 1)
        <5> DEFINE a == Len(store)
                   b == Len(more)
        <5>1. a \in Nat /\ b \in Nat /\ i \in 1..(a + b + 1) /\ i # a + b + 1 /\ ~ (i <= a)
          BY <1>2, <3>3
        <5> HIDE DEF a, b
        <5>2. i - a \in 1..b /\ i \in 1..(a + b)
          BY <5>1
        <5> QED
          BY <1>2, <5>2 DEF a, b
      <4>2. store'[i] = more[i - Len(store)]
        BY <1>3, <1>5, <3>3, <4>1
      <4> QED
        BY <1>2, <3>3, <4>1, <4>2
    <3> QED
      BY <3>1, <3>2, <3>3
  <2>2. T \subseteq 1..n /\ S \cup {n} \subseteq 1..n
    BY <1>2, <1>5
  <2> HIDE DEF S, T
  <2> QED
    BY <2>1, <2>2
<1>7. IsFiniteSet(S) /\ n \notin S
  <2>1. IsFiniteSet(1..Len(store))
    BY <1>2, FS_Interval
  <2> QED
    BY <1>2, <2>1, FS_Subset
<1>8. Asks = Cardinality(S) /\ Asks' = Cardinality(T)
  BY DEF Asks
<1> HIDE DEF S, T, n
<1> QED
  BY <1>6, <1>7, <1>8, FS_AddElement

(* A log whose last answer, the answer of that number, called n tools, the *)
(* first k of which have their results.                                    *)
Waiting(log, answer, n, k) ==
  \E v \in Seq(MessageType) :
    ValidTranscript(v) /\ Transcript(log) = Asked(v, answer, n, k)

(* The events of a batch, whole or interrupted, answer its calls in order. *)
LEMMA BatchAnswers ==
  ASSUME store \in Seq(EventType), calls \in Seq(Kinds),
         lo \in 1..Len(calls), NEW hi \in lo..Len(calls),
         Waiting(store, Asks, Len(calls), lo - 1)
  PROVE  /\ Waiting(store \o CallEvents(lo, hi), Asks, Len(calls), lo - 1)
         /\ Waiting(store \o ResultEvents(lo, hi), Asks, Len(calls), hi)
         /\ Waiting(store \o InterruptedEvents(lo), Asks, Len(calls), Len(calls))
<1> DEFINE n == Len(calls)
<1>0. /\ n \in Nat /\ lo \in Nat /\ lo - 1 \in Nat /\ hi \in Nat /\ lo <= hi
      /\ Asks \in Nat
  BY LenProperties, CallIdType
<1>1. PICK v \in Seq(MessageType) :
             ValidTranscript(v) /\ Transcript(store) = Asked(v, Asks, n, lo - 1)
  BY DEF Waiting
<1> HIDE DEF n
<1>2. Transcript(store \o CallEvents(lo, hi)) = Asked(v, Asks, n, lo - 1)
  <2> DEFINE t == CallEvents(lo, hi)
             f == [i \in 0..Len(t) |-> lo - 1]
  <2>1. /\ t \in Seq(EventType) /\ Len(t) \in Nat
        /\ \A i \in 1..Len(t) : t[i].type = "tool_call"
    <3>1. t \in Seq(EventType)
      BY <1>0, CallEventsType
    <3>2. Len(t) = hi - lo + 1
      BY <1>0, CallEventsType
    <3>3. \A i \in 1..(hi - lo + 1) : t[i].type = "tool_call"
      BY <1>0, CallEventsType
    <3> HIDE DEF t
    <3> QED
      BY <1>0, <3>1, <3>2, <3>3
  <2>2. /\ f \in [0..Len(t) -> Nat] /\ f[0] = lo - 1 /\ f[Len(t)] = lo - 1
        /\ \A i \in 1..Len(t) : f[i] = f[i - 1]
    BY <1>0, <2>1
  <2> HIDE DEF t, f
  <2>3. Transcript(store) = Asked(v, Asks, n, f[0])
    BY <1>1, <2>2
  <2>4. \A i \in 1..Len(t) :
          \/ t[i].type = "tool_call" /\ f[i] = f[i - 1]
          \/ /\ t[i].type = "tool_result" /\ t[i].ids = <<<<Asks, f[i - 1] + 1>>>>
             /\ f[i] = f[i - 1] + 1
    BY <2>1, <2>2
  <2>5. f \in [0..Len(t) -> Nat] /\ Asks \in Nat /\ n \in Nat /\ t \in Seq(EventType)
    BY <1>0, <2>1, <2>2
  <2>6. Transcript(store \o t) = Asked(v, Asks, n, f[Len(t)])
    BY <2>3, <2>4, <2>5, AnswerMany
  <2> QED
    BY <2>2, <2>6 DEF t
<1>3. Transcript(store \o ResultEvents(lo, hi)) = Asked(v, Asks, n, hi)
  <2> DEFINE t == ResultEvents(lo, hi)
             f == [i \in 0..Len(t) |-> lo - 1 + i]
  <2>1. /\ t \in Seq(EventType) /\ Len(t) = hi - lo + 1
        /\ \A i \in 1..Len(t) : t[i].type = "tool_result" /\ t[i].ids = <<CallId(lo + i - 1)>>
    <3>1. t \in Seq(EventType)
      BY <1>0, CallEventsType
    <3>2. Len(t) = hi - lo + 1
      BY <1>0, CallEventsType
    <3>3. \A i \in 1..(hi - lo + 1) : t[i].type = "tool_result"
      BY <1>0, CallEventsType
    <3>4. \A i \in 1..(hi - lo + 1) : t[i].ids = <<CallId(lo + i - 1)>>
      BY <1>0 DEF ResultEvents, Event
    <3> HIDE DEF t
    <3> QED
      BY <1>0, <3>1, <3>2, <3>3, <3>4
  <2>2. /\ f \in [0..Len(t) -> Nat] /\ f[0] = lo - 1 /\ f[Len(t)] = hi
        /\ \A i \in 1..Len(t) : f[i] = f[i - 1] + 1 /\ f[i - 1] + 1 = lo + i - 1
    BY <1>0, <2>1
  <2> HIDE DEF t, f
  <2>3. \A i \in 1..Len(t) :
          \/ t[i].type = "tool_call" /\ f[i] = f[i - 1]
          \/ /\ t[i].type = "tool_result" /\ t[i].ids = <<<<Asks, f[i - 1] + 1>>>>
             /\ f[i] = f[i - 1] + 1
    BY <2>1, <2>2 DEF CallId
  <2>5. Transcript(store) = Asked(v, Asks, n, f[0])
    BY <1>1, <2>2
  <2>6. f \in [0..Len(t) -> Nat] /\ Asks \in Nat /\ n \in Nat /\ t \in Seq(EventType)
    BY <1>0, <2>1, <2>2
  <2>4. Transcript(store \o t) = Asked(v, Asks, n, f[Len(t)])
    BY <2>3, <2>5, <2>6, AnswerMany
  <2> QED
    BY <2>2, <2>4 DEF t
<1>4. Transcript(store \o InterruptedEvents(lo)) = Asked(v, Asks, n, n)
  <2> DEFINE t == InterruptedEvents(lo)
             f == [i \in 0..Len(t) |-> lo - 1 + (i \div 2)]
             c == lo - 1
  <2>1. t \in Seq(EventType) /\ Len(t) = 2 * (n - lo + 1) /\ DOMAIN t = 1..Len(t)
    <3>1. t \in Seq(EventType)
      BY InterruptedType
    <3>2. DOMAIN t = 1..(2 * (n - lo + 1)) /\ 2 * (n - lo + 1) \in Nat
      BY <1>0 DEF InterruptedEvents, Interruption, n
    <3> HIDE DEF t
    <3> QED
      BY <3>1, <3>2, LenProperties
  <2>2. \A i \in 1..Len(t) :
          /\ t[i].type = IF i % 2 = 1 THEN "tool_call" ELSE "tool_result"
          /\ t[i].ids = <<<<Asks, lo + ((i - 1) \div 2)>>>>
    <3> TAKE i \in 1..Len(t)
    <3>1. t[i] = Event(IF i % 2 = 1 THEN "tool_call" ELSE "tool_result",
                       <<CallId(lo + ((i - 1) \div 2))>>)
      BY <2>1 DEF InterruptedEvents, Interruption
    <3> HIDE DEF t
    <3> QED
      BY <3>1 DEF Event, CallId
  <2>3. \A i \in Nat \ {0} : /\ i % 2 = 1 => i \div 2 = (i - 1) \div 2
                             /\ i % 2 # 1 => i \div 2 = (i - 1) \div 2 + 1
                             /\ i \div 2 \in Nat /\ (i - 1) \div 2 \in Nat
    OBVIOUS
  <2>4. 0 \div 2 = 0 /\ (2 * (n - lo + 1)) \div 2 = n - lo + 1
    BY <1>0
  <2>5. f \in [0..Len(t) -> Nat]
    BY <1>0, <2>1, <2>3, <2>4
  <2>6. f[0] = lo - 1 /\ f[Len(t)] = n
    BY <1>0, <2>1, <2>4
  <2>7. \A i \in 1..Len(t) : /\ f[i] = c + (i \div 2)
                             /\ f[i - 1] = c + ((i - 1) \div 2)
    <3>1. \A i \in 0..Len(t) : f[i] = c + (i \div 2)
      OBVIOUS
    <3>2. \A i \in 1..Len(t) : i \in 0..Len(t) /\ i - 1 \in 0..Len(t)
      BY <2>1
    <3> HIDE DEF f
    <3> QED
      BY <3>1, <3>2
  <2> HIDE DEF t, f
  <2>8. ASSUME NEW i \in 1..Len(t)
        PROVE  \/ t[i].type = "tool_call" /\ f[i] = f[i - 1]
               \/ /\ t[i].type = "tool_result" /\ t[i].ids = <<<<Asks, f[i - 1] + 1>>>>
                  /\ f[i] = f[i - 1] + 1
    <3>1. CASE i % 2 = 1
      BY <2>1, <2>2, <2>3, <2>7, <3>1
    <3>2. CASE i % 2 # 1
      <4>1. i \div 2 = (i - 1) \div 2 + 1 /\ (i - 1) \div 2 \in Nat
        BY <2>1, <2>3, <3>2
      <4>2. f[i] = f[i - 1] + 1 /\ f[i - 1] + 1 = lo + ((i - 1) \div 2)
        <5> DEFINE h == (i - 1) \div 2
        <5>1. h \in Nat /\ f[i] = (lo - 1) + (h + 1) /\ f[i - 1] = (lo - 1) + h
          BY <2>7, <4>1
        <5> HIDE DEF h
        <5>2. f[i] = f[i - 1] + 1 /\ f[i - 1] + 1 = lo + h
          BY <1>0, <5>1
        <5> QED
          BY <5>2 DEF h
      <4> QED
        BY <2>2, <3>2, <4>2
    <3> QED
      BY <3>1, <3>2
  <2>9. Transcript(store) = Asked(v, Asks, n, f[0])
    BY <1>1, <2>6
  <2>11. f \in [0..Len(t) -> Nat] /\ Asks \in Nat /\ n \in Nat /\ t \in Seq(EventType)
    BY <1>0, <2>1, <2>5
  <2>10. Transcript(store \o t) = Asked(v, Asks, n, f[Len(t)])
    BY <2>8, <2>9, <2>11, AnswerMany
  <2> QED
    BY <2>6, <2>10 DEF t
<1> QED
  BY <1>1, <1>2, <1>3, <1>4 DEF Waiting, n

LEMMA WaitingSettled ==
  ASSUME NEW log \in Seq(EventType), store \in Seq(EventType), NEW n \in Nat, n # 0,
         Waiting(log, Asks, n, n)
  PROVE  Settled(log)
<1>1. Asks \in Nat
  BY CallIdType
<1>2. PICK v \in Seq(MessageType) : ValidTranscript(v) /\ Transcript(log) = Asked(v, Asks, n, n)
  BY DEF Waiting
<1>3. Asked(v, Asks, n, n) \in Seq(MessageType)
  BY <1>1, AskedType
<1>4. ValidTranscript(Asked(v, Asks, n, n))
  BY <1>1, <1>2, AskedValid
<1> QED
  BY <1>2, <1>3, <1>4 DEF Settled

(* The invariant, with the types of the messages. *)
TInv == /\ Settled(disk)
        /\ phase \notin {"batch", "running"} => Settled(store)
        /\ phase \in {"batch", "running"} => Waiting(store, Asks, Len(calls), lo - 1)

LEMMA InitTranscript == Init => TInv
<1> SUFFICES ASSUME Init PROVE TInv
  OBVIOUS
<1>1. ASSUME NEW log, log = <<>> PROVE Settled(log)
  <2>1. log \in Seq(EventType) /\ Transcript(log) = <<>>
    BY <1>1, TranscriptEmpty, EmptySeq
  <2>2. <<>> \in Seq(MessageType) /\ DOMAIN <<>> = {}
    BY EmptySeq
  <2>3. ValidTranscript(<<>>)
    BY <2>2 DEF ValidTranscript
  <2> QED
    BY <2>1, <2>2, <2>3 DEF Settled
<1>2. Settled(<<>> \o <<Plain("session_start")>>)
  BY <1>1, SettledAppend DEF EventTypes
<1>3. <<>> \o <<Plain("session_start")>> = <<Plain("session_start")>>
  BY PlainType, ConcatEmptySeq DEF EventTypes
<1> QED
  BY <1>1, <1>2, <1>3 DEF Init, TInv

(* A file is resumed as it stands, an empty one as a new session. *)
LEMMA SettledFile ==
  ASSUME NEW file, Settled(file)
  PROVE  Settled(IF file = <<>> THEN <<Plain("session_start")>> ELSE file)
<1>1. CASE file = <<>>
  <2>1. Settled(<<>> \o <<Plain("session_start")>>)
    BY <1>1, SettledAppend DEF EventTypes
  <2>2. <<>> \o <<Plain("session_start")>> = <<Plain("session_start")>>
    BY PlainType, ConcatEmptySeq DEF EventTypes
  <2> QED
    BY <1>1, <2>1, <2>2
<1> QED
  BY <1>1

(* Each step leaves no call without its result, but those of the batch. *)
LEMMA TranscriptStep ==
  ASSUME GateMayThrow = FALSE, EndMidRun = FALSE, CommandsMidRun = FALSE,
         TornWrites = FALSE,
         IInv, TInv, [Next]_vars
  PROVE  TInv'
<1> USE DEF TInv
<1>0. /\ store \in Seq(EventType) /\ disk \in Seq(EventType) /\ calls \in Seq(Kinds)
      /\ phase \in {"batch", "running"} => lo \in 1..Len(calls)
  BY DEF IInv, TypeOK, BatchInv
<1>1. \A log, type : Settled(log) /\ type \in EventTypes \ {"tool_result"}
        => /\ Settled(Append(log, Plain(type)))
           /\ Settled(log \o <<Plain(type)>>)
           /\ \A e \in Some(type) : Settled(log \o e)
  BY SettledAppend
<1> DEFINE Quiet == phase \notin {"batch", "running"}
<1>2. ASSUME Quiet, ~ (phase' \in {"batch", "running"}), Settled(store'),
             disk' = disk \/ disk' = store'
      PROVE  TInv'
  BY <1>2 DEF Settled
<1>3. ASSUME Quiet, ~ (phase' \in {"batch", "running"}), UNCHANGED <<store, disk>>
      PROVE  TInv'
  BY <1>2, <1>3
<1>4. CASE Send
  <2>1. PICK e \in Some("mode_change") : store' = store \o e
    BY <1>4 DEF Send
  <2>2. Quiet /\ ~ (phase' \in {"batch", "running"}) /\ disk' = disk
    BY <1>4 DEF Send
  <2>3. Settled(store \o e)
    BY <1>1, <2>2 DEF EventTypes
  <2> QED
    BY <1>2, <2>1, <2>2, <2>3
<1>5. CASE Block \/ Enter \/ TopAborted \/ RequestAborted \/ RequestRetried
           \/ PauseEnds \/ Complete
  BY <1>3, <1>5 DEF Block, Enter, TopAborted, RequestAborted, RequestRetried, PauseEnds,
                    Complete, Finish, sessionVars
<1>6. CASE Accept
  <2>1. PICK e \in Some("reminder") : store' = store \o <<Plain("user_message")>> \o e
    BY <1>6 DEF Accept
  <2>2. Quiet /\ ~ (phase' \in {"batch", "running"}) /\ disk' = disk
    BY <1>6 DEF Accept
  <2>3. Settled(store \o <<Plain("user_message")>>)
    BY <1>1, <2>2 DEF EventTypes
  <2>4. Settled(store \o <<Plain("user_message")>> \o e)
    BY <1>1, <2>3 DEF EventTypes
  <2> QED
    BY <1>2, <2>1, <2>2, <2>4
<1>7. CASE StartTurn
  <2>1. PICK r \in Some("reminder"), c \in Some("compaction") : store' = store \o r \o c
    BY <1>7 DEF StartTurn
  <2>2. Quiet /\ ~ (phase' \in {"batch", "running"}) /\ disk' = disk
    BY <1>7 DEF StartTurn
  <2>3. Settled(store \o r)
    BY <1>1, <2>2 DEF EventTypes
  <2>4. Settled(store \o r \o c)
    BY <1>1, <2>3 DEF EventTypes
  <2> QED
    BY <1>2, <2>1, <2>2, <2>4
<1>8. CASE TurnsSpent \/ RequestFailed \/ StopHookContinues
  <2>1. PICK type \in {"reminder", "error"} :
               store' = Append(store, Plain(type)) \/ store' = store
    BY <1>8 DEF TurnsSpent, RequestFailed, StopHookContinues
  <2>2. Quiet /\ ~ (phase' \in {"batch", "running"}) /\ disk' = disk
    BY <1>8 DEF TurnsSpent, RequestFailed, StopHookContinues, Finish
  <2>3. Settled(store) /\ Settled(Append(store, Plain(type)))
    BY <1>1, <2>2 DEF EventTypes
  <2> QED
    BY <1>2, <2>1, <2>2, <2>3
<1>9. CASE Close
  <2>1. PICK e \in {<<>>, <<Plain("assistant_message")>>} : store' = store \o e
    BY <1>9 DEF Close
  <2>2. Quiet /\ ~ (phase' \in {"batch", "running"}) /\ disk' = disk
    BY <1>9 DEF Close, Finish
  <2>3. Settled(store \o <<Plain("assistant_message")>>) /\ Settled(store \o <<>>)
    <3>1. store \o <<>> = store
      BY <1>0, ConcatEmptySeq
    <3> QED
      BY <1>1, <2>2, <3>1 DEF EventTypes
  <2> QED
    BY <1>2, <2>1, <2>2, <2>3
<1>10. CASE AnswerTruncated \/ AnswerEmpty \/ AnswerFinal
  <2>1. PICK more \in {<<>>, <<Plain("reminder")>>} : Respond(<<>>, more)
    BY <1>10 DEF AnswerTruncated, AnswerEmpty, AnswerFinal
  <2>2. PICK note \in Some("advisor_note") :
               store' = store \o note \o <<Plain("assistant_message")>> \o more
    BY <2>1 DEF Respond, Plain
  <2>3. Quiet /\ ~ (phase' \in {"batch", "running"}) /\ disk' = disk
    BY <1>10 DEF AnswerTruncated, AnswerEmpty, AnswerFinal
  <2>4. Settled(store \o note)
    BY <1>1, <2>3 DEF EventTypes
  <2>5. Settled(store \o note \o <<Plain("assistant_message")>>)
    BY <1>1, <2>4 DEF EventTypes
  <2>6. Settled(store \o note \o <<Plain("assistant_message")>> \o <<>>)
    <3> DEFINE log == store \o note \o <<Plain("assistant_message")>>
    <3>1. log \in Seq(EventType)
      BY <2>5 DEF Settled
    <3> HIDE DEF log
    <3>2. log \o <<>> = log
      BY <3>1, ConcatEmptySeq
    <3> QED
      BY <2>5, <3>2 DEF log
  <2>7. Settled(store \o note \o <<Plain("assistant_message")>> \o <<Plain("reminder")>>)
    BY <1>1, <2>5 DEF EventTypes
  <2> QED
    BY <1>2, <2>1, <2>2, <2>3, <2>6, <2>7
<1>11. CASE AnswerCalls
  <2>1. PICK n \in 1..MaxCalls : /\ calls' \in [1..n -> Kinds]
                                 /\ Respond(CallIds(Asks + 1, n), <<>>)
    BY <1>11 DEF AnswerCalls
  <2> DEFINE e == Event("assistant_message", CallIds(Asks + 1, n))
  <2>2. PICK note \in Some("advisor_note") : store' = store \o note \o <<e>> \o <<>>
    BY <2>1 DEF Respond
  <2>3. phase = "requesting" /\ phase' = "batch" /\ disk' = disk /\ lo' = 1
    BY <1>11 DEF AnswerCalls
  <2>4. /\ n \in Nat /\ n # 0 /\ Asks \in Nat /\ Asks + 1 \in Nat
    <3>1. Asks \in Nat
      BY <1>0, CallIdType
    <3> QED
      BY <3>1, LimitsAssumption
  <2>5. Len(calls') = n
    BY <2>1, <2>4
  <2>6. /\ note \in Seq(EventType)
        /\ \A i \in 1..Len(note) : note[i].type # "assistant_message"
        /\ Settled(store \o note)
    <3>1. note = <<>> \/ note = <<Plain("advisor_note")>>
      BY DEF Some
    <3>2. Plain("advisor_note").type # "assistant_message"
      BY DEF Plain, Event
    <3>3. \A i \in 1..Len(note) : note[i].type # "assistant_message"
      BY <3>1, <3>2
    <3>4. note \in Seq(EventType)
      BY PlainType DEF EventTypes
    <3>5. Settled(store \o note)
      BY <1>1, <2>3 DEF EventTypes
    <3> QED
      BY <3>3, <3>4, <3>5
  <2>7. CallIds(Asks + 1, n) \in Seq(Nat \X Nat)
    BY <2>4, CallIdsType
  <2>8. e \in EventType /\ e.type = "assistant_message" /\ e.ids = CallIds(Asks + 1, n)
    BY <2>7 DEF Event, EventType, EventTypes
  <2> DEFINE s == store \o note
  <2>9. store' = Append(s, e)
    <3>1. s \in Seq(EventType)
      BY <2>6 DEF Settled
    <3> HIDE DEF s, e
    <3>2. s \o <<e>> = Append(s, e) /\ Append(s, e) \in Seq(EventType)
      BY <2>8, <3>1, AppendIsConcat, AppendProperties
    <3>3. s \o <<e>> \o <<>> = Append(s, e)
      BY <3>2, ConcatEmptySeq
    <3> QED
      BY <2>2, <3>3 DEF s
  <2>10. Asks' = Asks + 1
    BY <1>0, <2>6, <2>7, <2>9, AnswerCounted
  <2> DEFINE v == Transcript(s)
  <2>11. /\ s \in Seq(EventType) /\ v \in Seq(MessageType) /\ ValidTranscript(v)
    BY <2>6 DEF Settled
  <2> HIDE DEF s
  <2>12. Transcript(store') = Append(v, Message("assistant", CallIds(Asks + 1, n)))
    <3>1. Transcript(Append(s, e)) = Project(Transcript(s), e)
      <4> HIDE DEF e
      <4> QED
        BY <2>8, <2>11, TranscriptAppend
    <3> QED
      BY <2>8, <2>9, <3>1 DEF Project
  <2>13. Transcript(store') = Asked(v, Asks', Len(calls'), lo' - 1)
    BY <2>3, <2>5, <2>10, <2>12 DEF Asked
  <2> HIDE DEF v
  <2>14. Waiting(store', Asks', Len(calls'), lo' - 1)
    BY <2>11, <2>13 DEF Waiting
  <2> QED
    BY <2>3, <2>14 DEF Settled, Waiting
<1>12. CASE BatchAborted
  <2>1. /\ phase = "batch" /\ store' = store \o InterruptedEvents(lo)
        /\ disk' = disk /\ phase' = "advising"
    BY <1>12 DEF BatchAborted, Finish
  <2>2. lo \in 1..Len(calls) /\ Len(calls) \in lo..Len(calls)
    BY <1>0, <2>1, LenProperties
  <2>3. Waiting(store \o InterruptedEvents(lo), Asks, Len(calls), Len(calls))
    BY <1>0, <2>1, <2>2, BatchAnswers
  <2>4. store \o InterruptedEvents(lo) \in Seq(EventType)
    BY <1>0, <2>2, InterruptedType, ConcatProperties
  <2>5. Settled(store')
    <3>1. Len(calls) \in Nat /\ Len(calls) # 0
      BY <2>2
    <3> QED
      BY <1>0, <2>1, <2>3, <2>4, <3>1, WaitingSettled
  <2> QED
    BY <2>1, <2>5 DEF Settled
<1>13. CASE StartBatch
  <2>1. /\ phase = "batch" /\ store' = store \o CallEvents(lo, BatchEnd(lo))
        /\ disk' = disk /\ phase' = "running" /\ UNCHANGED <<calls, lo>>
    BY <1>13 DEF StartBatch, StartAtMost
  <2>2. lo \in 1..Len(calls) /\ BatchEnd(lo) \in lo..Len(calls)
    BY <1>0, <2>1, BatchEndBounds
  <2>3. Waiting(store \o CallEvents(lo, BatchEnd(lo)), Asks, Len(calls), lo - 1)
    BY <1>0, <2>1, <2>2, BatchAnswers
  <2>4. Asks' = Asks
    <3> DEFINE hi == BatchEnd(lo)
    <3>1. lo \in Nat /\ hi \in Nat /\ lo <= hi
      BY <2>2
    <3> HIDE DEF hi
    <3> DEFINE t == CallEvents(lo, hi)
    <3>2. t \in Seq(EventType)
      BY <1>0, <3>1, CallEventsType
    <3>3. Len(t) = hi - lo + 1
      BY <1>0, <3>1, CallEventsType
    <3>4. \A i \in 1..(hi - lo + 1) : t[i].type = "tool_call"
      BY <1>0, <3>1, CallEventsType
    <3>5. store' = store \o t
      BY <2>1 DEF hi
    <3> HIDE DEF t
    <3> QED
      BY <1>0, <3>2, <3>3, <3>4, <3>5, AppendKeepsAnswers
  <2> QED
    BY <2>1, <2>3, <2>4 DEF Settled, Waiting
<1>14. CASE \E c \in running : CallReturns(c)
  <2>1. phase \in {"batch", "running"} /\ UNCHANGED <<store, disk, calls, lo, phase>>
    BY <1>14 DEF CallReturns, sessionVars
  <2>2. Asks' = Asks
    BY <2>1 DEF Asks
  <2> QED
    BY <2>1, <2>2 DEF Settled, Waiting
<1>15. CASE \E c \in running : BatchReturns(c)
  <2> DEFINE hi      == BatchEnd(lo)
             results == ResultEvents(lo, hi)
  <2>1. PICK c \in running, e \in Some("reminder") : Record(c, <<>>, e)
    BY <1>15 DEF BatchReturns
  <2>2. /\ phase = "running" /\ disk' = disk
        /\ store' = store \o <<>> \o results \o e
    BY <2>1 DEF Record
  <2>3. lo \in 1..Len(calls) /\ hi \in lo..Len(calls)
    BY <1>0, <2>2, BatchEndBounds
  <2>4. Waiting(store \o results, Asks, Len(calls), hi)
    BY <1>0, <2>2, <2>3, BatchAnswers
  <2>5. results \in Seq(EventType)
    <3>1. lo \in Nat /\ hi \in Nat /\ lo <= hi
      BY <2>3
    <3> QED
      BY <1>0, <3>1, CallEventsType
  <2>6. /\ store \o <<>> = store /\ store \o results \in Seq(EventType)
        /\ store \o results \o <<>> = store \o results
    BY <1>0, <2>5, ConcatEmptySeq, ConcatProperties
  <2>7. CASE hi = Len(calls)
    <3>1. phase' = "top"
      BY <2>1, <2>7 DEF Record
    <3>2. Settled(store \o results)
      <4>1. hi \in Nat /\ hi # 0
        BY <2>3
      <4>2. Waiting(store \o results, Asks, hi, hi) /\ store \o results \in Seq(EventType)
        BY <2>4, <2>6, <2>7
      <4> HIDE DEF hi, results
      <4> QED
        BY <1>0, <4>1, <4>2, WaitingSettled
    <3>3. Settled(store \o results \o e)
      BY <1>1, <3>2 DEF EventTypes
    <3>4. store' = store \o results \o e
      BY <2>2, <2>6
    <3> QED
      BY <2>2, <3>1, <3>3, <3>4 DEF Settled
  <2>8. CASE hi # Len(calls)
    <3>1. e = <<>> /\ lo' = hi + 1 /\ phase' = "batch" /\ calls' = calls
      BY <2>1, <2>8 DEF Record
    <3>2. store' = store \o results
      BY <2>2, <2>6, <3>1
    <3>3. Asks' = Asks
      <4>1. lo \in Nat /\ hi \in Nat /\ lo <= hi
        BY <2>3
      <4> HIDE DEF hi
      <4>2. Len(results) = hi - lo + 1
        BY <1>0, <4>1, CallEventsType
      <4>3. \A i \in 1..(hi - lo + 1) : results[i].type = "tool_result"
        BY <1>0, <4>1, CallEventsType
      <4> HIDE DEF results
      <4> QED
        BY <1>0, <2>5, <3>2, <4>2, <4>3, AppendKeepsAnswers
    <3>4. lo' - 1 = hi
      BY <2>3, <3>1
    <3> QED
      BY <2>2, <2>4, <3>1, <3>2, <3>3, <3>4 DEF Settled, Waiting
  <2> QED
    BY <2>7, <2>8
<1>16. CASE \E c \in running : CallRejects(c)
  BY <1>16 DEF CallRejects
<1>17. CASE Advise
  <2>1. PICK e \in Some("advisor_note") : store' = store \o e
    BY <1>17 DEF Advise
  <2>2. Quiet /\ ~ (phase' \in {"batch", "running"}) /\ disk' = store'
    BY <1>17 DEF Advise
  <2>3. Settled(store \o e)
    BY <1>1, <2>2 DEF EventTypes
  <2> QED
    BY <1>2, <2>1, <2>2, <2>3
<1>18. CASE Interrupt \/ UNCHANGED vars
  <2>1. UNCHANGED <<store, disk, calls, lo, phase>>
    BY <1>18 DEF Interrupt, vars, sessionVars, batchVars
  <2>2. Asks' = Asks
    BY <2>1 DEF Asks
  <2> QED
    BY <2>1, <2>2 DEF Settled, Waiting
<1>19. CASE CompactNow \/ End
  <2>1. PICK type \in {"compaction", "session_end"} :
               store' = Append(store, Plain(type)) /\ disk' = store'
    BY <1>19 DEF CompactNow, End
  <2>2. Quiet /\ ~ (phase' \in {"batch", "running"})
    BY <1>19 DEF CompactNow, End
  <2>3. Settled(Append(store, Plain(type)))
    BY <1>1, <2>2 DEF EventTypes
  <2> QED
    BY <1>2, <2>1, <2>2, <2>3
<1>20. CASE Crash
  <2>1. /\ disk' = disk /\ phase' = "idle"
        /\ store' = IF disk = <<>> THEN <<Plain("session_start")>> ELSE disk
    BY <1>20 DEF Crash, Resume
  <2>2. Settled(store')
    BY <2>1, SettledFile
  <2> QED
    BY <2>1, <2>2 DEF Settled
<1>21. CASE CrashSaving
  BY <1>21 DEF CrashSaving
<1> QED
  BY <1>4, <1>5, <1>6, <1>7, <1>8, <1>9, <1>10, <1>11, <1>12, <1>13, <1>14, <1>15,
     <1>16, <1>17, <1>18, <1>19, <1>20, <1>21 DEF Next, Run

(* The invariant as TLC evaluates it. *)
LEMMA WaitingBefore ==
  ASSUME NEW log, NEW a \in Nat, NEW n \in Nat, NEW k \in Nat, Waiting(log, a, n, k)
  PROVE  \E i \in 0..Len(Transcript(log)) :
           LET before == SubSeq(Transcript(log), 1, i)
           IN  ValidTranscript(before) /\ Transcript(log) = Asked(before, a, n, k)
<1>1. PICK v \in Seq(MessageType) :
             ValidTranscript(v) /\ Transcript(log) = Asked(v, a, n, k)
  BY DEF Waiting
<1> DEFINE p == Asked(v, a, n, k)
           l == Len(v)
<1>2. p \in Seq(MessageType)
  BY AskedType
<1>3. l \in Nat /\ Len(p) \in Nat /\ l <= Len(p)
  <2>1. (k = 0 => Len(p) = l + 1) /\ (k # 0 => Len(p) = l + 2)
    BY AskedType, ZenonT(30)
  <2>2. l \in Nat
    BY LenProperties
  <2> HIDE DEF p, l
  <2> QED
    BY <2>1, <2>2
<1>4. \A i \in 1..l : p[i] = v[i]
  BY AskedType
<1> HIDE DEF p
<1>5. SubSeq(p, 1, l) = v
  <2>1. \A i \in 1..l : p[i] \in MessageType
    BY <1>4, ElementOfSeq
  <2>2. SubSeq(p, 1, l) \in Seq(MessageType)
    BY <1>3, <2>1, SubSeqProperties
  <2>3. Len(SubSeq(p, 1, l)) = l
    BY <1>3, <2>1, SubSeqProperties
  <2>4. \A i \in 1..l : SubSeq(p, 1, l)[i] = p[i]
    BY <1>3, <2>1, SubSeqProperties
  <2> QED
    BY <1>4, <2>2, <2>3, <2>4, SeqEqual
<1>6. Transcript(log) = p
  BY <1>1 DEF p
<1>7. Transcript(log) = Asked(SubSeq(Transcript(log), 1, l), a, n, k)
  BY <1>1, <1>5, <1>6
<1>8. ValidTranscript(SubSeq(Transcript(log), 1, l))
  BY <1>1, <1>5, <1>6
<1>9. l \in 0..Len(Transcript(log))
  BY <1>3, <1>6
<1> HIDE DEF l
<1> QED
  BY <1>7, <1>8, <1>9

LEMMA TranscriptInvariant ==
  ASSUME GateMayThrow = FALSE, EndMidRun = FALSE, CommandsMidRun = FALSE,
         TornWrites = FALSE
  PROVE  Spec => [](IInv /\ TInv)
<1>1. IInv /\ TInv /\ IInv' /\ [Next]_vars => TInv'
  BY TranscriptStep
<1> QED
  BY InitTranscript, InductiveInvariant, <1>1, PTL DEF Spec

(* Whatever is interrupted, retried, continued, compacted between runs or  *)
(* resumed after a crash, no call stays without its result: the invariant  *)
(* that holds between every two steps of the loop.  The hypotheses exclude *)
(* what breaks it: a permission gate that throws, a session ended or       *)
(* compacted while a run is in flight, and a save cut short.               *)
THEOREM CallsAreAnswered ==
  ASSUME GateMayThrow = FALSE, EndMidRun = FALSE, CommandsMidRun = FALSE,
         TornWrites = FALSE
  PROVE  Spec => []TranscriptInv
<1>1. IInv /\ TInv => TranscriptInv
  <2> SUFFICES ASSUME IInv, TInv PROVE TranscriptInv
    OBVIOUS
  <2>1. ASSUME phase \in {"batch", "running"}
        PROVE  \E k \in 0..Len(Transcript(store)) :
                 LET before == SubSeq(Transcript(store), 1, k)
                 IN  /\ ValidTranscript(before)
                     /\ Transcript(store) = Asked(before, Asks, Len(calls), lo - 1)
    <3>1. Asks \in Nat /\ Len(calls) \in Nat /\ lo - 1 \in Nat
      <4>1. /\ store \in Seq(EventType) /\ calls \in Seq(Kinds)
            /\ lo \in 1..Len(calls)
        BY <2>1 DEF IInv, TypeOK, BatchInv
      <4> QED
        BY <4>1, CallIdType, LenProperties
    <3>2. Waiting(store, Asks, Len(calls), lo - 1)
      BY <2>1 DEF TInv
    <3> QED
      BY <3>1, <3>2, WaitingBefore
  <2> QED
    BY <2>1 DEF TInv, Settled, TranscriptInv
<1> QED
  BY TranscriptInvariant, <1>1, PTL

(* Every request of the loop, and the closing report's, holds each tool    *)
(* call with its results next to it, so that no provider refuses it.       *)
THEOREM RequestsAreValid ==
  ASSUME GateMayThrow = FALSE, EndMidRun = FALSE, CommandsMidRun = FALSE,
         TornWrites = FALSE
  PROVE  Spec => []RequestsValid
<1>1. TInv => RequestsValid
  BY DEF TInv, Settled, RequestsValid
<1> QED
  BY TranscriptInvariant, <1>1, PTL

(* At any moment the session file can be resumed: a process that dies in   *)
(* the middle of a batch leaves the file of before it.                     *)
THEOREM ResumesAreValid ==
  ASSUME GateMayThrow = FALSE, EndMidRun = FALSE, CommandsMidRun = FALSE,
         TornWrites = FALSE
  PROVE  Spec => []ResumeValid
<1>1. TInv => ResumeValid
  BY DEF TInv, Settled, ResumeValid
<1> QED
  BY TranscriptInvariant, <1>1, PTL

-----------------------------------------------------------------------------
(* Compaction: the operators of the split. *)

Said == [role : Roles, ids : Seq(Nat)]

(* r adds up f from position "from" to position n. *)
Adds(r, f, from, n) ==
  r = [i \in (from - 1)..n |-> IF i = from - 1 THEN 0 ELSE r[i - 1] + f[i]]

LEMMA AddsExists ==
  ASSUME NEW f, NEW from \in Nat \ {0}, NEW n \in Nat, n >= from - 1
  PROVE  \E r : Adds(r, f, from, n)
<1> DEFINE c == from - 1
           Bad == {k \in Nat : k >= c /\ ~ \E r : Adds(r, f, from, k)}
<1>1. SUFFICES ASSUME Bad # {} PROVE FALSE
  OBVIOUS
<1>2. PICK m \in Bad : \A k \in Bad : m <= k
  <2>1. Bad \in SUBSET Nat
    OBVIOUS
  <2> HIDE DEF Bad
  <2> QED BY <1>1, <2>1, LeastNatural
<1>3. CASE m = c
  <2> DEFINE r == [i \in c..c |-> 0]
  <2>1. r = [i \in c..m |-> IF i = c THEN 0 ELSE r[i - 1] + f[i]]
    BY <1>3
  <2> HIDE DEF r
  <2>2. Adds(r, f, from, m)
    BY <2>1 DEF Adds
  <2> QED
    BY <1>2, <2>2
<1>4. CASE m # c
  <2>1. m - 1 \in Nat /\ m - 1 >= c /\ m > c
    BY <1>2, <1>4
  <2>2. PICK q : Adds(q, f, from, m - 1)
    BY <1>2, <2>1
  <2> DEFINE r == [i \in c..m |-> IF i = m THEN q[m - 1] + f[m] ELSE q[i]]
  <2>3. q = [i \in c..(m - 1) |-> IF i = c THEN 0 ELSE q[i - 1] + f[i]]
    BY <2>2 DEF Adds
  <2>4. \A i \in c..m : r[i] = IF i = c THEN 0 ELSE r[i - 1] + f[i]
    <3> TAKE i \in c..m
    <3>1. CASE i = m
      BY <1>4, <2>1, <3>1
    <3>2. CASE i # m
      <4>1. i \in c..(m - 1) /\ (i # c => i - 1 \in c..(m - 1) /\ i - 1 # m /\ i - 1 \in c..m)
        BY <2>1, <3>2
      <4>2. r[i] = q[i] /\ (i # c => r[i - 1] = q[i - 1])
        BY <3>2, <4>1
      <4>3. q[i] = IF i = c THEN 0 ELSE q[i - 1] + f[i]
        BY <2>3, <4>1
      <4> HIDE DEF r
      <4> QED
        BY <4>2, <4>3
    <3> QED
      BY <3>1, <3>2
  <2>5. r = [i \in c..m |-> IF i = c THEN 0 ELSE r[i - 1] + f[i]]
    <3>1. r = [i \in c..m |-> r[i]]
      OBVIOUS
    <3> HIDE DEF r
    <3> QED
      BY <2>4, <3>1, Zenon
  <2> HIDE DEF r
  <2>6. Adds(r, f, from, m)
    BY <2>5 DEF Adds
  <2> QED
    BY <1>2, <2>6
<1> QED
  BY <1>3, <1>4

(* A sum of numbers is a number. *)
LEMMA TotalType ==
  ASSUME NEW f, NEW from \in Nat \ {0}, NEW to \in Nat, to >= from - 1,
         \A i \in from..to : f[i] \in Nat
  PROVE  Total(f, from, to) \in Nat
<1> DEFINE c == from - 1
<1>1. PICK r : Adds(r, f, from, to) /\ Total(f, from, to) = r[to]
  <2> DEFINE r == CHOOSE r : Adds(r, f, from, to)
  <2>1. Total(f, from, to) = r[to]
    BY DEF Total, Adds
  <2>2. Adds(r, f, from, to)
    BY AddsExists
  <2> HIDE DEF r
  <2> QED
    BY <2>1, <2>2
<1>2. r = [i \in c..to |-> IF i = c THEN 0 ELSE r[i - 1] + f[i]]
  BY <1>1 DEF Adds
<1> DEFINE Bad == {i \in c..to : r[i] \notin Nat}
<1>3. SUFFICES ASSUME Bad # {} PROVE FALSE
  BY <1>1
<1>4. PICK m \in Bad : \A k \in Bad : m <= k
  <2>1. Bad \in SUBSET Nat
    OBVIOUS
  <2> HIDE DEF Bad
  <2> QED BY <1>3, <2>1, LeastNatural
<1>5. m \in c..to /\ r[m] \notin Nat
  BY <1>4
<1>6. r[m] = IF m = c THEN 0 ELSE r[m - 1] + f[m]
  BY <1>2, <1>5
<1>7. m # c /\ r[m] = r[m - 1] + f[m]
  BY <1>5, <1>6
<1>8. m - 1 \in c..to /\ m \in from..to
  BY <1>5, <1>7
<1>9. r[m - 1] \in Nat
  <2>1. m - 1 \notin Bad
    BY <1>4, <1>5
  <2> QED
    BY <1>8, <2>1
<1>10. f[m] \in Nat
  BY <1>8
<1> QED
  BY <1>5, <1>7, <1>9, <1>10

-----------------------------------------------------------------------------
(* The greatest and the least of some numbers. *)
LEMMA MaxOfSome ==
  ASSUME NEW n \in Nat, NEW S \in SUBSET (1..n), S # {}
  PROVE  Max(S) \in S /\ \A x \in S : x <= Max(S)
<1> DEFINE Gaps == {k \in 0..n : \A x \in S : x <= k}
<1>1. n \in Gaps /\ Gaps \in SUBSET Nat
  OBVIOUS
<1>2. PICK m \in Gaps : \A k \in Gaps : m <= k
  <2> HIDE DEF Gaps
  <2> QED BY <1>1, LeastNatural
<1>3. m \in S
  <2>1. SUFFICES ASSUME m \notin S PROVE FALSE
    OBVIOUS
  <2>2. PICK y : y \in S
    OBVIOUS
  <2>3. y \in 1..n /\ y <= m /\ m \in 0..n
    BY <1>2, <2>2
  <2>4. m - 1 \in Gaps
    BY <1>2, <2>1, <2>3
  <2> QED
    BY <1>2, <2>3, <2>4
<1>4. \A x \in S : m >= x
  BY <1>2
<1>5. Max(S) = CHOOSE x \in S : \A y \in S : x >= y
  BY DEF Max
<1>6. Max(S) \in S /\ \A y \in S : Max(S) >= y
  <2> HIDE DEF Gaps
  <2> QED BY <1>3, <1>4, <1>5
<1> QED
  BY <1>6

LEMMA MinOfSome ==
  ASSUME NEW S \in SUBSET Nat, S # {}
  PROVE  Min(S) \in S /\ \A x \in S : Min(S) <= x
<1>1. PICK m \in S : \A x \in S : m <= x
  BY LeastNatural
<1>2. Min(S) = CHOOSE x \in S : \A y \in S : x <= y
  BY DEF Min
<1> QED
  BY <1>1, <1>2

-----------------------------------------------------------------------------
(* What holds of the log and of what it sends. *)

LogEvent == [type : EventTypes, ids : Seq(Nat)]

(* Every message is about items that have a weight. *)
Weighed(msgs, n) ==
  \A i \in DOMAIN msgs : \A k \in DOMAIN msgs[i].ids : msgs[i].ids[k] \in 1..n

(* The item of the last summary. *)
Newest(events) ==
  IF LastCompaction(events) = 0 THEN {} ELSE ToSet(events[LastCompaction(events)].ids)

(* A log of n items, whose transcript begins with the last summary, which  *)
(* is no call's arguments.                                                 *)
LogInv(events, n) ==
  LET msgs == Transcript(events)
      c    == LastCompaction(events)
  IN  /\ events \in Seq(LogEvent)
      /\ msgs \in Seq(Said)
      /\ Weighed(msgs, n)
      /\ c > 0 => msgs # <<>> /\ msgs[1] = Message("user", events[c].ids)
      /\ Arguments(events) \subseteq 1..n
      /\ Arguments(events) \cap Newest(events) = {}

(* Named, of any archive. *)
Naming(arch, texts) == {f \in DOMAIN arch : arch[f].summary \in texts}

(* A set of frames with which the frames their texts name are in it. *)
Closed(arch, frames) == UNION {Naming(arch, arch[f].holds) : f \in frames} \subseteq frames

(* Reached, from a set of texts. *)
Leads(arch, texts, frame) ==
  \A frames \in SUBSET DOMAIN arch :
    Naming(arch, texts) \subseteq frames /\ Closed(arch, frames) => frame \in frames

(* What was replaced is in a frame that the texts lead to. *)
Kept(arch, texts, items) ==
  \A n \in items : \E f \in DOMAIN arch : n \in arch[f].holds /\ Leads(arch, texts, f)

(* What is being summarized holds the last summary, which has the name of  *)
(* the last frame.                                                         *)
CompactionInv ==
  /\ weight \in Seq(Nat)
  /\ LogInv(history, Len(weight))
  /\ archive \in Seq([holds : SUBSET Nat, summary : Nat])
  /\ older \subseteq Nat /\ back \in {"idle", "requesting"}
  /\ stage = "summarizing" => Newest(history) \subseteq older
  /\ Kept(archive, Newest(history), replaced)

(* More items leave the log as it is. *)
LEMMA LogInvMore ==
  ASSUME NEW s, NEW n \in Nat, NEW m \in Nat, n <= m, LogInv(s, n)
  PROVE  LogInv(s, m)
<1>1. 1..n \subseteq 1..m
  OBVIOUS
<1> QED
  BY <1>1 DEF LogInv, Weighed

(* An event that is no compaction adds to the messages and leaves the      *)
(* first one alone when it is a summary.                                   *)
LEMMA ProjectSaid ==
  ASSUME NEW msgs \in Seq(Said), NEW e \in LogEvent, NEW n \in Nat, NEW c \in Nat,
         Weighed(msgs, n), \A k \in DOMAIN e.ids : e.ids[k] \in 1..n,
         c > 0 => msgs # <<>> /\ msgs[1].role = "user"
  PROVE  /\ Project(msgs, e) \in Seq(Said)
         /\ Weighed(Project(msgs, e), n)
         /\ c > 0 => Project(msgs, e) # <<>> /\ Project(msgs, e)[1] = msgs[1]
<1>0. Len(msgs) \in Nat /\ DOMAIN msgs = 1..Len(msgs) /\ e.ids \in Seq(Nat)
  BY LenProperties DEF LogEvent
<1>1. ASSUME NEW role \in Roles
      PROVE  LET p == Append(msgs, Message(role, e.ids))
             IN  /\ p \in Seq(Said)
                 /\ Weighed(p, n)
                 /\ c > 0 => p # <<>> /\ p[1] = msgs[1]
  <2> DEFINE m == Message(role, e.ids)
             p == Append(msgs, m)
  <2>1. m \in Said /\ m.ids = e.ids
    BY <1>0 DEF Message, Said
  <2> HIDE DEF m
  <2>2. /\ p \in Seq(Said) /\ Len(p) = Len(msgs) + 1 /\ DOMAIN p = 1..(Len(msgs) + 1)
        /\ \A i \in 1..Len(msgs) : p[i] = msgs[i]
        /\ p[Len(msgs) + 1] = m
    BY <2>1, AppendProperties, LenProperties
  <2>3. c > 0 => 1 \in 1..Len(msgs)
    BY <1>0, EmptySeq
  <2> HIDE DEF p
  <2>4. Weighed(p, n)
    BY <1>0, <2>1, <2>2 DEF Weighed
  <2>5. c > 0 => p # <<>> /\ p[1] = msgs[1]
    BY <2>2, <2>3
  <2> QED
    BY <2>2, <2>4, <2>5 DEF p, m
<1>2. CASE e.type = "tool_result" /\ msgs # <<>> /\ Last(msgs).role = "tool"
  <2> DEFINE l == Len(msgs)
             m == Message("tool", msgs[l].ids \o e.ids)
             p == [msgs EXCEPT ![l] = m]
  <2>1. l \in 1..l /\ msgs[l].role = "tool" /\ msgs[l] \in Said
    BY <1>0, <1>2, EmptySeq, ElementOfSeq DEF Last
  <2>2. Project(msgs, e) = p
    BY <1>2 DEF Project
  <2>3. msgs[l].ids \in Seq(Nat) /\ msgs[l].ids \o e.ids \in Seq(Nat)
    BY <1>0, <2>1, ConcatProperties DEF Said
  <2>4. m \in Said /\ m.ids = msgs[l].ids \o e.ids
    BY <2>3 DEF Message, Said, Roles
  <2>5. ~ (l = 1 /\ c > 0)
    BY <2>1
  <2>6. \A k \in DOMAIN msgs[l].ids : msgs[l].ids[k] \in 1..n
    BY <1>0, <2>1 DEF Weighed
  <2>7. \A k \in DOMAIN m.ids : m.ids[k] \in 1..n
    <3> DEFINE a == msgs[l].ids
               b == e.ids
    <3>1. a \in Seq(Nat) /\ b \in Seq(Nat)
      BY <1>0, <2>3
    <3>2. (\A k \in DOMAIN a : a[k] \in 1..n) /\ (\A k \in DOMAIN b : b[k] \in 1..n)
      BY <2>6
    <3> HIDE DEF a, b
    <3>3. \A k \in DOMAIN (a \o b) : (a \o b)[k] \in 1..n
      BY <3>1, <3>2, ConcatProperties, LenProperties
    <3> QED
      BY <2>4, <3>3 DEF a, b
  <2> HIDE DEF m
  <2>8. p \in Seq(Said) /\ DOMAIN p = DOMAIN msgs /\ p[l] = m
        /\ \A i \in DOMAIN msgs : i # l => p[i] = msgs[i]
    BY <1>0, <2>1, <2>4, ExceptSeq
  <2> HIDE DEF p
  <2>9. Weighed(p, n)
    BY <2>7, <2>8 DEF Weighed
  <2>10. c > 0 => p # <<>> /\ p[1] = msgs[1]
    BY <1>0, <2>1, <2>5, <2>8, EmptySeq
  <2> QED
    BY <2>2, <2>8, <2>9, <2>10
<1>3. CASE ~ (e.type = "tool_result" /\ msgs # <<>> /\ Last(msgs).role = "tool")
  <2>1. \/ Project(msgs, e) = msgs
        \/ \E role \in Roles : Project(msgs, e) = Append(msgs, Message(role, e.ids))
    BY <1>3 DEF Project, Roles
  <2>2. CASE Project(msgs, e) = msgs
    BY <2>2
  <2>3. ASSUME NEW role \in Roles, Project(msgs, e) = Append(msgs, Message(role, e.ids))
        PROVE  /\ Project(msgs, e) \in Seq(Said)
               /\ Weighed(Project(msgs, e), n)
               /\ c > 0 => Project(msgs, e) # <<>> /\ Project(msgs, e)[1] = msgs[1]
    <3> DEFINE p == Append(msgs, Message(role, e.ids))
    <3>1. p \in Seq(Said) /\ Weighed(p, n) /\ (c > 0 => p # <<>> /\ p[1] = msgs[1])
      BY <1>1
    <3>2. Project(msgs, e) = p
      BY <2>3
    <3> HIDE DEF p
    <3> QED
      BY <3>1, <3>2
  <2> QED
    BY <2>1, <2>2, <2>3
<1> QED
  BY <1>2, <1>3

LEMMA ArgumentsAppend ==
  ASSUME NEW s \in Seq(LogEvent), NEW e \in LogEvent
  PROVE  Arguments(Append(s, e))
           = Arguments(s) \cup (IF e.type = "tool_call" THEN ToSet(e.ids) ELSE {})
<1>1. ToSet(Append(s, e)) = ToSet(s) \cup {e}
  <2> DEFINE t == Append(s, e)
  <2>1. /\ t \in Seq(LogEvent) /\ Len(t) = Len(s) + 1 /\ Len(s) \in Nat
        /\ \A i \in 1..Len(s) : t[i] = s[i]
        /\ t[Len(s) + 1] = e /\ DOMAIN s = 1..Len(s) /\ DOMAIN t = 1..(Len(s) + 1)
    BY AppendProperties, LenProperties
  <2> HIDE DEF t
  <2> QED
    BY <2>1 DEF ToSet, t
<1> HIDE DEF LogEvent
<1> QED
  BY <1>1 DEF Arguments

(* An event about items that have a weight keeps the log in order. *)
LEMMA LogInvAppend ==
  ASSUME NEW s, NEW n \in Nat, LogInv(s, n), NEW e \in LogEvent,
         e.type # "compaction", \A k \in DOMAIN e.ids : e.ids[k] \in 1..n,
         e.type = "tool_call" => ToSet(e.ids) \cap Newest(s) = {}
  PROVE  LogInv(Append(s, e), n) /\ Newest(Append(s, e)) = Newest(s)
<1> DEFINE t == Append(s, e)
           c == LastCompaction(s)
<1>1. s \in Seq(LogEvent)
  BY DEF LogInv
<1>2. /\ t \in Seq(LogEvent) /\ Len(t) = Len(s) + 1 /\ Len(s) \in Nat
      /\ \A i \in 1..Len(s) : t[i] = s[i]
      /\ t[Len(s) + 1] = e
  BY <1>1, AppendProperties, LenProperties
<1>3. Transcript(t) = Project(Transcript(s), e)
  BY <1>1, TranscriptAppend
<1>12. Arguments(t) = Arguments(s) \cup (IF e.type = "tool_call" THEN ToSet(e.ids) ELSE {})
  BY <1>1, ArgumentsAppend
<1> HIDE DEF t
<1>4. /\ c \in 0..Len(s)
      /\ c # 0 => s[c].type = "compaction"
      /\ \A i \in 1..Len(s) : s[i].type = "compaction" => i <= c
  BY <1>1, LastCompactionBounds
<1>5. /\ LastCompaction(t) \in 0..Len(t)
      /\ LastCompaction(t) # 0 => t[LastCompaction(t)].type = "compaction"
      /\ \A i \in 1..Len(t) : t[i].type = "compaction" => i <= LastCompaction(t)
  BY <1>2, LastCompactionBounds
<1>6. LastCompaction(t) = c
  BY <1>2, <1>4, <1>5
<1>7. c > 0 => t[c] = s[c]
  BY <1>2, <1>4
<1>8. c \in Nat /\ Transcript(s) \in Seq(Said) /\ Weighed(Transcript(s), n)
      /\ (c > 0 => /\ Transcript(s) # <<>> /\ Transcript(s)[1].role = "user"
                   /\ Transcript(s)[1] = Message("user", s[c].ids))
  BY <1>2, <1>4 DEF LogInv, Message
<1>9. /\ Transcript(t) \in Seq(Said) /\ Weighed(Transcript(t), n)
      /\ c > 0 => Transcript(t) # <<>> /\ Transcript(t)[1] = Transcript(s)[1]
  <2> DEFINE m == Transcript(s)
  <2>1. /\ m \in Seq(Said) /\ Weighed(m, n) /\ c \in Nat
        /\ c > 0 => m # <<>> /\ m[1].role = "user"
    BY <1>8
  <2> HIDE DEF m, c
  <2>2. /\ Project(m, e) \in Seq(Said) /\ Weighed(Project(m, e), n)
        /\ c > 0 => Project(m, e) # <<>> /\ Project(m, e)[1] = m[1]
    BY <2>1, ProjectSaid
  <2> QED
    BY <1>3, <2>2 DEF m
<1>10. Newest(t) = Newest(s)
  BY <1>4, <1>6, <1>7 DEF Newest
<1>11. Arguments(t) \subseteq 1..n /\ Arguments(t) \cap Newest(t) = {}
  <2>1. ToSet(e.ids) \subseteq 1..n
    BY DEF ToSet
  <2>2. Arguments(s) \subseteq 1..n /\ Arguments(s) \cap Newest(s) = {}
    BY DEF LogInv
  <2> QED
    BY <1>10, <1>12, <2>1, <2>2
<1>13. LogInv(t, n)
  BY <1>2, <1>6, <1>7, <1>8, <1>9, <1>11 DEF LogInv
<1> QED
  BY <1>10, <1>13 DEF t

(* A compaction leaves its summary only, a new item. *)
LEMMA LogInvCompact ==
  ASSUME NEW s, NEW n \in Nat, LogInv(s, n)
  PROVE  LET t == Append(s, Event("compaction", <<n + 1>>))
         IN  LogInv(t, n + 1) /\ Newest(t) = {n + 1}
<1> DEFINE e == Event("compaction", <<n + 1>>)
           t == Append(s, e)
           m == Message("user", e.ids)
<1>0. e \in LogEvent /\ e.type = "compaction" /\ e.ids = <<n + 1>>
  BY DEF Event, LogEvent, EventTypes
<1>1. s \in Seq(LogEvent)
  BY DEF LogInv
<1> HIDE DEF e
<1>2. /\ t \in Seq(LogEvent) /\ Len(t) = Len(s) + 1 /\ Len(s) \in Nat
      /\ t[Len(s) + 1] = e
  BY <1>0, <1>1, AppendProperties, LenProperties
<1>3. Transcript(t) = <<m>>
  BY <1>0, <1>1, TranscriptAppend
<1>11. Arguments(t) = Arguments(s)
  BY <1>0, <1>1, ArgumentsAppend
<1> HIDE DEF t
<1>4. /\ LastCompaction(t) \in 0..Len(t)
      /\ \A i \in 1..Len(t) : t[i].type = "compaction" => i <= LastCompaction(t)
  BY <1>2, LastCompactionBounds
<1>5. LastCompaction(t) = Len(s) + 1 /\ t[LastCompaction(t)] = e /\ LastCompaction(t) > 0
  BY <1>0, <1>2, <1>4
<1>6. m \in Said /\ m.ids = <<n + 1>>
  BY <1>0 DEF Message, Said, Roles, LogEvent
<1>10. Newest(t) = {n + 1}
  BY <1>0, <1>5 DEF Newest, ToSet
<1>12. Arguments(t) \subseteq 1..(n + 1) /\ Arguments(t) \cap Newest(t) = {}
  <2>1. Arguments(s) \subseteq 1..n
    BY DEF LogInv
  <2> QED
    BY <1>10, <1>11, <2>1
<1> HIDE DEF m
<1>7. <<m>> \in Seq(Said) /\ <<m>> # <<>> /\ <<m>>[1] = m /\ DOMAIN <<m>> = 1..1
  BY <1>6
<1>8. Weighed(<<m>>, n + 1)
  BY <1>6, <1>7 DEF Weighed
<1>9. LogInv(t, n + 1)
  BY <1>2, <1>3, <1>5, <1>7, <1>8, <1>12 DEF LogInv, m
<1> QED
  BY <1>9, <1>10 DEF t, e

(* The messages of the session have token counts. *)
LEMMA TokensType ==
  ASSUME CompactionInv, NEW from \in 1..(Len(Transcript(history)) + 1)
  PROVE  Tokens(Transcript(history), from) \in Nat
<1> DEFINE msgs == Transcript(history)
<1>1. /\ msgs \in Seq(Said) /\ Weighed(msgs, Len(weight))
      /\ Len(msgs) \in Nat /\ DOMAIN msgs = 1..Len(msgs)
      /\ weight \in Seq(Nat) /\ Len(weight) \in Nat
  BY LenProperties DEF CompactionInv, LogInv
<1> HIDE DEF msgs
<1>2. ASSUME NEW i \in 1..Len(msgs)
      PROVE  MessageTokens(msgs[i]) \in Nat
  <2>0. msgs[i] \in Said
    BY <1>1, ElementOfSeq
  <2>1. msgs[i].ids \in Seq(Nat)
    BY <2>0 DEF Said
  <2> DEFINE ids == msgs[i].ids
             f   == [k \in DOMAIN ids |-> weight[ids[k]]]
  <2>2. \A k \in DOMAIN ids : ids[k] \in 1..Len(weight)
    BY <1>1 DEF Weighed
  <2>3. Len(ids) \in Nat /\ DOMAIN ids = 1..Len(ids)
    BY <2>1, LenProperties
  <2>4. MessageTokens(msgs[i]) = 1 + Total(f, 1, Len(ids))
    BY DEF MessageTokens
  <2> HIDE DEF ids
  <2>5. \A k \in 1..Len(ids) : f[k] \in Nat
    BY <1>1, <2>2, <2>3, ElementOfSeq
  <2>6. 1 \in Nat \ {0} /\ Len(ids) >= 1 - 1
    BY <2>3
  <2> HIDE DEF f
  <2>7. Total(f, 1, Len(ids)) \in Nat
    BY <2>3, <2>5, <2>6, TotalType
  <2> QED
    BY <2>4, <2>7
<1> DEFINE f == [i \in DOMAIN msgs |-> MessageTokens(msgs[i])]
<1>3. \A i \in 1..Len(msgs) : f[i] \in Nat
  BY <1>1, <1>2
<1>4. Tokens(msgs, from) = Total(f, from, Len(msgs))
  BY DEF Tokens
<1>5. from \in 1..(Len(msgs) + 1)
  BY DEF msgs
<1> HIDE DEF f
<1>6. from \in Nat \ {0} /\ Len(msgs) >= from - 1 /\ \A i \in from..Len(msgs) : f[i] \in Nat
  BY <1>1, <1>3, <1>5
<1>7. Total(f, from, Len(msgs)) \in Nat
  BY <1>1, <1>6, TotalType
<1> QED
  BY <1>4, <1>7 DEF msgs

(* splitForCompaction: the last exchange is kept. *)
LEMMA SplitBounds ==
  ASSUME CompactionInv, Len(Transcript(history)) > 4
  PROVE  SplitAt(Transcript(history)) \in 1..(Len(Transcript(history)) - 1)
<1> DEFINE msgs == Transcript(history)
           n    == Len(msgs)
           K    == {i \in DOMAIN msgs : 10 * Tokens(msgs, i) >= 3 * Tokens(msgs, 1)}
           k    == KeepFrom(msgs)
           P    == {i \in k..(n + 1) : i = n + 1 \/ msgs[i].role # "tool"}
           p    == PastTools(msgs, k)
           at   == SplitAt(msgs)
<1>1. n \in Nat /\ DOMAIN msgs = 1..n /\ n > 4
  BY LenProperties DEF CompactionInv, LogInv
<1>2. \A i \in 1..(n + 1) : Tokens(msgs, i) \in Nat
  BY TokensType
<1> HIDE DEF msgs
<1>3. K \in SUBSET (1..n) /\ K # {}
  <2>1. 1 \in 1..n /\ 1 \in 1..(n + 1)
    BY <1>1
  <2>2. 10 * Tokens(msgs, 1) >= 3 * Tokens(msgs, 1)
    BY <1>2, <2>1
  <2>3. 1 \in K
    BY <1>1, <2>1, <2>2
  <2> QED
    BY <1>1, <2>3
<1>4. k \in K
  <2>1. k = Max(K)
    BY DEF KeepFrom
  <2> HIDE DEF K, k
  <2> QED
    BY <1>1, <1>3, <2>1, MaxOfSome
<1>5. k \in 1..n
  BY <1>3, <1>4
<1> HIDE DEF k, n
<1>6. P \in SUBSET Nat /\ P # {}
  <2>1. n + 1 \in P
    BY <1>1, <1>5
  <2> QED
    BY <1>1, <1>5, <2>1
<1>7. p \in P
  <2>1. p = Min(P)
    BY DEF PastTools, n
  <2> HIDE DEF P, p
  <2> QED
    BY <1>6, <2>1, MinOfSome
<1>8. p \in k..(n + 1)
  BY <1>7
<1> HIDE DEF p, P
<1>9. at \in {p, n - 1} /\ at <= p /\ at <= n - 1
  <2>1. at = Min({p, n - 1})
    BY <1>1 DEF SplitAt, p, n, k
  <2>2. {p, n - 1} \in SUBSET Nat /\ {p, n - 1} # {}
    BY <1>1, <1>5, <1>8
  <2> QED
    BY <2>1, <2>2, MinOfSome
<1> HIDE DEF at
<1>10. at \in 1..(n - 1)
  BY <1>1, <1>5, <1>8, <1>9
<1> QED
  BY <1>10 DEF at, n, msgs

(* The last summary is an item. *)
LEMMA NewestWeighed ==
  ASSUME NEW s, NEW n \in Nat, LogInv(s, n)
  PROVE  Newest(s) \subseteq 1..n
<1> DEFINE msgs == Transcript(s)
           c    == LastCompaction(s)
<1>1. /\ msgs \in Seq(Said) /\ Weighed(msgs, n) /\ s \in Seq(LogEvent)
      /\ c > 0 => msgs # <<>> /\ msgs[1] = Message("user", s[c].ids)
  BY DEF LogInv
<1>2. c \in Nat
  BY <1>1, LastCompactionBounds, LenProperties
<1> HIDE DEF msgs
<1>3. CASE c = 0
  BY <1>3 DEF Newest
<1>4. CASE c # 0
  <2>1. 1 \in DOMAIN msgs
    BY <1>1, <1>2, <1>4, EmptySeq, LenProperties
  <2>2. msgs[1].ids = s[c].ids /\ Newest(s) = ToSet(s[c].ids)
    BY <1>1, <1>2, <1>4 DEF Message, Newest
  <2>3. \A k \in DOMAIN msgs[1].ids : msgs[1].ids[k] \in 1..n
    BY <1>1, <2>1 DEF Weighed
  <2> HIDE DEF c
  <2> QED
    BY <2>2, <2>3 DEF ToSet
<1> QED
  BY <1>3, <1>4

-----------------------------------------------------------------------------
(* The invariant. *)

LEMMA EventIsLogged ==
  ASSUME NEW type \in EventTypes, NEW n \in Nat \ {0}
  PROVE  LET e == Event(type, <<n>>)
         IN  /\ e \in LogEvent /\ e.type = type
             /\ \A k \in DOMAIN e.ids : e.ids[k] \in n..n
             /\ ToSet(e.ids) = {n}
  BY DEF Event, LogEvent, ToSet

LEMMA CompactionInitInv == CompactionInit => CompactionInv
<1> SUFFICES ASSUME CompactionInit PROVE CompactionInv
  OBVIOUS
<1> DEFINE e == Plain("session_start")
<1>1. e \in LogEvent /\ e.type = "session_start" /\ DOMAIN e.ids = {}
  BY DEF Plain, Event, LogEvent, EventTypes
<1> HIDE DEF e
<1>2. LogInv(<<>>, 0)
  <2>1. <<>> \in Seq(LogEvent) /\ <<>> \in Seq(Said) /\ DOMAIN <<>> = {} /\ Len(<<>>) = 0
    OBVIOUS
  <2>2. LastCompaction(<<>>) = 0
    <3>1. LastCompaction(<<>>) \in 0..Len(<<>>)
      BY <2>1, LastCompactionBounds
    <3> QED
      BY <2>1, <3>1
  <2>3. Weighed(<<>>, 0)
    BY <2>1 DEF Weighed
  <2>4. Transcript(<<>>) = <<>> /\ ~ (0 > 0)
    BY TranscriptEmpty
  <2>5. Arguments(<<>>) = {}
    BY <2>1 DEF Arguments, ToSet
  <2> QED
    BY <2>1, <2>2, <2>3, <2>4, <2>5 DEF LogInv
<1>3. LogInv(Append(<<>>, e), 0)
  BY <1>1, <1>2, LogInvAppend
<1>4. history = Append(<<>>, e)
  BY DEF CompactionInit, e
<1>5. /\ weight = <<>> /\ older = {} /\ stage = "idle" /\ back = "idle"
      /\ archive = <<>> /\ replaced = {}
  BY DEF CompactionInit
<1> QED
  BY <1>3, <1>4, <1>5 DEF CompactionInv, Kept

(* compact(): the last summary is among what is to be summarized. *)
LEMMA BeginStep ==
  ASSUME CompactionInv, NEW target \in {"idle", "requesting"}, Begin(target)
  PROVE  /\ older' \subseteq Nat /\ back' \in {"idle", "requesting"}
         /\ stage' = "summarizing" => Newest(history) \subseteq older'
<1> DEFINE msgs == Transcript(history)
           at   == SplitAt(msgs)
           half == SubSeq(msgs, 1, at - 1)
<1>1. CASE at = 1
  BY <1>1 DEF Begin, CompactionInv
<1>2. CASE at # 1
  <2>1. older' = ItemsOf(half) /\ back' = target
    BY <1>2 DEF Begin
  <2>2. /\ msgs \in Seq(Said) /\ Len(msgs) \in Nat
        /\ LastCompaction(history) > 0 => msgs[1] = Message("user", history[LastCompaction(history)].ids)
    BY LenProperties DEF CompactionInv, LogInv
  <2>3. Len(msgs) > 4
    BY <1>2, <2>2 DEF SplitAt
  <2>4. at \in 2..(Len(msgs) - 1)
    <3>1. at \in 1..(Len(msgs) - 1)
      BY <2>3, SplitBounds
    <3> HIDE DEF at
    <3> QED
      BY <1>2, <2>2, <3>1
  <2>5. LastCompaction(history) \in Nat
    BY LastCompactionBounds, LenProperties DEF CompactionInv, LogInv
  <2> HIDE DEF at, msgs
  <2>6. half \in Seq(Said) /\ 1 \in DOMAIN half /\ half[1] = msgs[1]
    <3>1. \A i \in 1..(at - 1) : msgs[i] \in Said
      BY <2>2, <2>4, ElementOfSeq
    <3>2. half \in Seq(Said) /\ Len(half) = at - 1
      BY <2>4, <3>1, SubSeqProperties
    <3>3. half[1] = msgs[1]
      BY <2>4, SubSeqProperties
    <3> HIDE DEF half
    <3> QED
      BY <2>4, <3>2, <3>3, LenProperties
  <2> HIDE DEF half
  <2>7. ItemsOf(half) \subseteq Nat
    <3>1. ASSUME NEW i \in DOMAIN half PROVE ToSet(half[i].ids) \subseteq Nat
      <4>1. half[i] \in Said
        BY <2>6, ElementOfSeq, LenProperties
      <4>2. half[i].ids \in Seq(Nat)
        BY <4>1 DEF Said
      <4> QED
        BY <4>2 DEF ToSet
    <3> QED
      BY <3>1 DEF ItemsOf
  <2>8. Newest(history) \subseteq ItemsOf(half)
    <3>1. CASE LastCompaction(history) = 0
      BY <3>1 DEF Newest
    <3>2. CASE LastCompaction(history) # 0
      <4>1. half[1].ids = history[LastCompaction(history)].ids
        BY <2>2, <2>5, <2>6, <3>2 DEF Message
      <4>2. Newest(history) = ToSet(half[1].ids)
        BY <3>2, <4>1 DEF Newest
      <4> QED
        BY <2>6, <4>2 DEF ItemsOf
    <3> QED
      BY <3>1, <3>2
  <2> QED
    BY <2>1, <2>7, <2>8
<1> QED
  BY <1>1, <1>2

(* More items, and a log with the same last summary. *)
LEMMA SayStep ==
  ASSUME CompactionInv, NEW k \in {1, 2}, Say(k),
         LogInv(history', Len(weight) + k), Newest(history') = Newest(history),
         stage' # "summarizing"
  PROVE  CompactionInv'
<1>1. PICK w \in [1..k -> Weights] : weight' = weight \o w
  BY DEF Say
<1>2. UNCHANGED <<archive, older, back, replaced>>
  BY DEF Say
<1>3. w \in Seq(Nat) /\ Len(w) = k
  <2>1. Weights \subseteq Nat
    BY CompactionAssumption
  <2>2. k \in Nat
    OBVIOUS
  <2>3. w \in [1..k -> Weights]
    BY <1>1
  <2>4. w \in [1..k -> Nat]
    BY ONLY <2>1, <2>3
  <2> QED
    BY <2>2, <2>4
<1>4. weight' \in Seq(Nat) /\ Len(weight') = Len(weight) + k
  BY <1>1, <1>3, ConcatProperties DEF CompactionInv
<1>5. Kept(archive, Newest(history), replaced)'
  BY <1>2 DEF CompactionInv
<1> QED
  BY <1>2, <1>4, <1>5 DEF CompactionInv

(* A frame added to an archive, which holds the texts that led to what was *)
(* kept: the text that names it leads to all of it, and to what it holds.  *)
LEMMA KeptAppend ==
  ASSUME NEW F, NEW arch \in Seq(F), NEW frame \in F, NEW from, NEW items,
         Kept(arch, from, items), from \subseteq frame.holds
  PROVE  Kept(Append(arch, frame), {frame.summary}, items \cup frame.holds)
<1> DEFINE more == Append(arch, frame)
           new  == Len(arch) + 1
<1>1. /\ DOMAIN arch = 1..Len(arch) /\ Len(arch) \in Nat
      /\ more \in Seq(F) /\ Len(more) = new
      /\ \A f \in 1..Len(arch) : more[f] = arch[f]
      /\ more[new] = frame
  BY AppendProperties, LenProperties
<1>2. DOMAIN more = 1..new
  BY <1>1, LenProperties
<1>3. /\ DOMAIN arch \subseteq DOMAIN more /\ new \in DOMAIN more
      /\ \A f \in DOMAIN arch : more[f] = arch[f]
      /\ more[new] = frame
  BY <1>1, <1>2
<1> HIDE DEF more, new
<1>4. \A texts : Naming(arch, texts) \subseteq Naming(more, texts)
  BY <1>3 DEF Naming
<1>5. ASSUME NEW frames \in SUBSET DOMAIN more,
             Naming(more, {frame.summary}) \subseteq frames, Closed(more, frames)
      PROVE  /\ new \in frames
             /\ Naming(arch, from) \subseteq frames \cap DOMAIN arch
             /\ Closed(arch, frames \cap DOMAIN arch)
  <2>1. new \in frames
    BY <1>3, <1>5 DEF Naming
  <2>2. \A f \in frames : Naming(more, more[f].holds) \subseteq frames
    BY <1>5 DEF Closed
  <2>3. Naming(more, frame.holds) \subseteq frames
    BY <1>3, <2>1, <2>2
  <2>4. Naming(arch, from) \subseteq Naming(more, frame.holds)
    BY <1>3 DEF Naming
  <2>5. Naming(arch, from) \subseteq DOMAIN arch
    BY DEF Naming
  <2>6. ASSUME NEW f \in frames \cap DOMAIN arch
        PROVE  Naming(arch, arch[f].holds) \subseteq frames \cap DOMAIN arch
    <3>1. Naming(arch, arch[f].holds) \subseteq Naming(more, more[f].holds)
      BY <1>3, <1>4
    <3>2. Naming(arch, arch[f].holds) \subseteq DOMAIN arch
      BY DEF Naming
    <3> QED
      BY <2>2, <3>1, <3>2
  <2>7. Closed(arch, frames \cap DOMAIN arch)
    BY <2>6 DEF Closed
  <2> QED
    BY <2>1, <2>3, <2>4, <2>5, <2>7
<1>6. ASSUME NEW x \in items \cup frame.holds
      PROVE  \E f \in DOMAIN more : x \in more[f].holds /\ Leads(more, {frame.summary}, f)
  <2>1. CASE x \in frame.holds
    <3>1. Leads(more, {frame.summary}, new)
      BY <1>5 DEF Leads
    <3> QED
      BY <1>3, <2>1, <3>1
  <2>2. CASE x \in items
    <3>1. PICK f \in DOMAIN arch : x \in arch[f].holds /\ Leads(arch, from, f)
      BY <2>2 DEF Kept
    <3>2. ASSUME NEW frames \in SUBSET DOMAIN more,
                 Naming(more, {frame.summary}) \subseteq frames, Closed(more, frames)
          PROVE  f \in frames
      <4>1. /\ Naming(arch, from) \subseteq frames \cap DOMAIN arch
            /\ Closed(arch, frames \cap DOMAIN arch)
        BY <1>5, <3>2
      <4>2. frames \cap DOMAIN arch \in SUBSET DOMAIN arch
        OBVIOUS
      <4>3. f \in frames \cap DOMAIN arch
        BY <3>1, <4>1, <4>2 DEF Leads
      <4> QED
        BY <4>3
    <3>3. Leads(more, {frame.summary}, f)
      BY <3>2 DEF Leads
    <3> QED
      BY <1>3, <3>1, <3>3
  <2> QED
    BY <2>1, <2>2
<1> QED
  BY <1>6 DEF Kept, more

(* archiveTurns: the new summary leads to the new frame, whose texts name  *)
(* the frame of the summary before.                                        *)
LEMMA SummarizeStep == CompactionInv /\ Summarize => CompactionInv'
<1> SUFFICES ASSUME CompactionInv, Summarize PROVE CompactionInv'
  OBVIOUS
<1> DEFINE n == Len(weight)
           texts == older \ Arguments(history)
<1>1. /\ weight \in Seq(Nat) /\ n \in Nat /\ LogInv(history, n)
      /\ older \subseteq Nat /\ back \in {"idle", "requesting"}
      /\ archive \in Seq([holds : SUBSET Nat, summary : Nat])
      /\ Newest(history) \subseteq older /\ Kept(archive, Newest(history), replaced)
  BY LenProperties DEF CompactionInv, Summarize
<1>2. PICK w \in Weights : weight' = Append(weight, w)
  BY DEF Summarize
<1>3. weight' \in Seq(Nat) /\ Len(weight') = n + 1
  BY <1>1, <1>2, AppendProperties, CompactionAssumption
<1>4. history' = Append(history, Event("compaction", <<n + 1>>))
  BY DEF Summarize
<1>5. /\ older' = {} /\ back' = back /\ stage' = back
      /\ Archive(texts, n + 1)
  BY DEF Summarize
<1>6. Newest(history) \subseteq texts
  BY <1>1 DEF LogInv
<1> HIDE DEF n, texts
<1>7. LogInv(history', n + 1) /\ Newest(history') = {n + 1}
  BY <1>1, <1>4, LogInvCompact
<1>8. texts \subseteq Nat
  BY <1>1 DEF texts
<1>9. archive' \in Seq([holds : SUBSET Nat, summary : Nat])
  <2>1. \A h \in SUBSET Nat : [holds |-> h, summary |-> n + 1] \in [holds : SUBSET Nat, summary : Nat]
    BY <1>1
  <2>2. {} \in SUBSET Nat
    OBVIOUS
  <2> DEFINE F == [holds : SUBSET Nat, summary : Nat]
             one == [holds |-> texts, summary |-> n + 1]
             two == [holds |-> {}, summary |-> n + 1]
  <2>3. one \in F /\ two \in F /\ archive \in Seq(F)
    BY <1>1, <1>8, <2>1, <2>2
  <2>4. archive' \in {Append(archive, one), Append(archive, two), archive}
    BY <1>5 DEF Archive
  <2> HIDE DEF F, one, two
  <2>5. archive' \in Seq(F)
    BY <2>3, <2>4, AppendProperties
  <2> QED
    BY <2>5 DEF F
<1>10. Kept(archive, Newest(history), replaced)'
  <2>1. CASE replaced' = {}
    BY <2>1 DEF Kept
  <2>2. CASE /\ archive' = Append(archive, [holds |-> texts, summary |-> n + 1])
             /\ replaced' = replaced \cup texts
    <3>1. [holds |-> texts, summary |-> n + 1] \in [holds : SUBSET Nat, summary : Nat]
      BY <1>1, <1>8
    <3> DEFINE frame == [holds |-> texts, summary |-> n + 1]
    <3>2. Kept(archive', {n + 1}, replaced \cup texts)
      <4>1. frame.holds = texts /\ frame.summary = n + 1
        OBVIOUS
      <4>2. frame \in [holds : SUBSET Nat, summary : Nat] /\ archive' = Append(archive, frame)
        BY <2>2, <3>1
      <4> HIDE DEF frame
      <4>3. Newest(history) \subseteq frame.holds
        BY <1>6, <4>1
      <4>4. Kept(Append(archive, frame), {frame.summary}, replaced \cup frame.holds)
        BY <1>1, <4>2, <4>3, KeptAppend
      <4> QED
        BY <4>1, <4>2, <4>4
    <3> QED
      BY <1>7, <2>2, <3>2
  <2> QED
    BY <1>5, <2>1, <2>2 DEF Archive
<1> QED
  BY <1>1, <1>3, <1>5, <1>7, <1>9, <1>10 DEF CompactionInv

LEMMA CompactionStep == CompactionInv /\ [CompactionNext]_compactionVars => CompactionInv'
<1> SUFFICES ASSUME CompactionInv, [CompactionNext]_compactionVars
             PROVE  CompactionInv'
  OBVIOUS
<1> DEFINE n == Len(weight)
<1>0. n \in Nat /\ LogInv(history, n) /\ back \in {"idle", "requesting"}
      /\ LogInv(history, n + 1) /\ LogInv(history, n + 2)
  <2>1. n \in Nat /\ LogInv(history, n) /\ back \in {"idle", "requesting"}
    BY LenProperties DEF CompactionInv
  <2> HIDE DEF n
  <2> QED
    BY <2>1, LogInvMore
<1>1. ASSUME NEW type \in {"user_message", "assistant_message"}, stage' # "summarizing",
             Say(1), history' = Append(history, Event(type, <<n + 1>>))
      PROVE  CompactionInv'
  <2> HIDE DEF n
  <2> DEFINE e == Event(type, <<n + 1>>)
             m == n + 1
  <2>1. /\ e \in LogEvent /\ e.type # "compaction" /\ e.type # "tool_call"
        /\ \A k \in DOMAIN e.ids : e.ids[k] \in 1..m
    BY <1>0, EventIsLogged DEF EventTypes
  <2>2. m \in Nat /\ LogInv(history, m) /\ history' = Append(history, e)
    BY <1>0, <1>1
  <2> HIDE DEF e, m
  <2>3. LogInv(history', m) /\ Newest(history') = Newest(history)
    BY <2>1, <2>2, LogInvAppend
  <2> QED
    BY <1>1, <2>3, SayStep DEF m, n
<1>2. CASE Prompt
  BY <1>1, <1>2 DEF Prompt
<1>3. CASE Answer
  BY <1>1, <1>3 DEF Answer
<1>4. CASE Work
  <2>1. history' = history \o <<Event("assistant_message", <<n + 1>>),
                                Event("tool_call", <<n + 1>>),
                                Event("tool_result", <<n + 2>>)>>
    BY <1>4 DEF Work
  <2>2. Say(2) /\ stage' # "summarizing"
    BY <1>4 DEF Work
  <2> HIDE DEF n
  <2> DEFINE a == Event("assistant_message", <<n + 1>>)
             b == Event("tool_call", <<n + 1>>)
             c == Event("tool_result", <<n + 2>>)
             m == n + 2
             h == Append(history, a)
             i == Append(h, b)
  <2>3. /\ a \in LogEvent /\ a.type # "compaction" /\ a.type # "tool_call"
        /\ \A k \in DOMAIN a.ids : a.ids[k] \in 1..m
        /\ b \in LogEvent /\ b.type # "compaction" /\ ToSet(b.ids) = {n + 1}
        /\ \A k \in DOMAIN b.ids : b.ids[k] \in 1..m
        /\ c \in LogEvent /\ c.type # "compaction" /\ c.type # "tool_call"
        /\ \A k \in DOMAIN c.ids : c.ids[k] \in 1..m
    <3>1. /\ n + 1 \in Nat \ {0} /\ n + 2 \in Nat \ {0}
          /\ n + 1 \in 1..m /\ n + 2 \in 1..m
      BY <1>0
    <3>2. {"assistant_message", "tool_call", "tool_result"} \subseteq EventTypes
      BY DEF EventTypes
    <3> HIDE DEF m
    <3>3. /\ a \in LogEvent /\ a.type = "assistant_message"
          /\ \A k \in DOMAIN a.ids : a.ids[k] \in (n + 1)..(n + 1)
      BY <3>1, <3>2, EventIsLogged
    <3>4. /\ b \in LogEvent /\ b.type = "tool_call" /\ ToSet(b.ids) = {n + 1}
          /\ \A k \in DOMAIN b.ids : b.ids[k] \in (n + 1)..(n + 1)
      BY <3>1, <3>2, EventIsLogged
    <3>5. /\ c \in LogEvent /\ c.type = "tool_result"
          /\ \A k \in DOMAIN c.ids : c.ids[k] \in (n + 2)..(n + 2)
      BY <3>1, <3>2, EventIsLogged
    <3>6. (n + 1)..(n + 1) = {n + 1} /\ (n + 2)..(n + 2) = {n + 2}
      BY <1>0
    <3> HIDE DEF a, b, c
    <3> QED
      BY <3>1, <3>3, <3>4, <3>5, <3>6
  <2>4. Newest(history) \subseteq 1..n
    BY <1>0, NewestWeighed
  <2>5. ToSet(b.ids) \cap Newest(history) = {}
    BY <1>0, <2>3, <2>4
  <2>6. m \in Nat /\ LogInv(history, m) /\ history \in Seq(LogEvent)
    BY <1>0 DEF LogInv
  <2>7. history' = Append(Append(Append(history, a), b), c)
    BY <2>1, <2>3, <2>6
  <2> HIDE DEF a, b, c, m
  <2>8. LogInv(h, m) /\ Newest(h) = Newest(history)
    BY <2>3, <2>6, LogInvAppend
  <2> HIDE DEF h
  <2>9. LogInv(i, m) /\ Newest(i) = Newest(h)
    BY <2>3, <2>5, <2>6, <2>8, LogInvAppend
  <2> HIDE DEF i
  <2>10. LogInv(Append(i, c), m) /\ Newest(Append(i, c)) = Newest(i)
    BY <2>3, <2>6, <2>9, LogInvAppend
  <2>11. history' = Append(i, c)
    BY <2>7 DEF h, i
  <2> QED
    BY <2>2, <2>8, <2>9, <2>10, <2>11, SayStep DEF m, n
<1>5. ASSUME NEW target \in {"idle", "requesting"},
             Begin(target) \/ (stage' = target /\ UNCHANGED <<older, recent, back>>),
             UNCHANGED <<history, weight, archive, replaced>>
      PROVE  CompactionInv'
  <2>1. /\ older' \subseteq Nat /\ back' \in {"idle", "requesting"}
        /\ stage' = "summarizing" => Newest(history) \subseteq older'
    <3>1. CASE Begin(target)
      BY <3>1, BeginStep
    <3>2. CASE stage' = target /\ UNCHANGED <<older, recent, back>>
      BY <3>2 DEF CompactionInv
    <3> QED
      BY <1>5, <3>1, <3>2
  <2>2. Kept(archive, Newest(history), replaced)'
    BY <1>5 DEF CompactionInv
  <2> QED
    BY <1>5, <2>1, <2>2 DEF CompactionInv
<1>6. CASE MaybeCompact
  BY <1>5, <1>6 DEF MaybeCompact
<1>7. CASE CompactCommand
  BY <1>5, <1>7 DEF CompactCommand
<1>8. CASE Summarize
  BY <1>8, SummarizeStep
<1>9. CASE UNCHANGED compactionVars
  BY <1>9 DEF CompactionInv, compactionVars
<1> QED
  BY <1>2, <1>3, <1>4, <1>6, <1>7, <1>8, <1>9 DEF CompactionNext

(* However often a session is compacted, what its summaries have replaced  *)
(* since archiving last failed can be read from the newest one on          *)
(* (archiveTurns, recall_archive): for any weights, threshold and number   *)
(* of texts.                                                               *)
THEOREM ReplacedIsRecallable == CompactionSpec => []Recallable
<1>1. CompactionInv => Recallable
  <2> SUFFICES ASSUME CompactionInv, NEW n \in replaced
               PROVE  \E f \in DOMAIN archive : n \in archive[f].holds /\ Reached(f)
    BY DEF Recallable
  <2>1. Newest(history) \subseteq Visible
    <3>1. /\ Transcript(history) \in Seq(Said) /\ history \in Seq(LogEvent)
          /\ LastCompaction(history) > 0
               => /\ Transcript(history) # <<>>
                  /\ Transcript(history)[1] = Message("user", history[LastCompaction(history)].ids)
      BY DEF CompactionInv, LogInv
    <3>2. LastCompaction(history) \in Nat
      BY <3>1, LastCompactionBounds, LenProperties
    <3>3. CASE LastCompaction(history) = 0
      BY <3>3 DEF Newest
    <3>4. CASE LastCompaction(history) # 0
      <4>1. 1 \in DOMAIN Transcript(history)
        BY <3>1, <3>2, <3>4, EmptySeq, LenProperties
      <4>2. Newest(history) = ToSet(Transcript(history)[1].ids)
        BY <3>1, <3>2, <3>4 DEF Newest, Message
      <4> QED
        BY <4>1, <4>2 DEF Visible, ItemsOf
    <3> QED
      BY <3>3, <3>4
  <2>2. PICK f \in DOMAIN archive : n \in archive[f].holds /\ Leads(archive, Newest(history), f)
    BY DEF CompactionInv, Kept
  <2>3. ASSUME NEW frames \in SUBSET DOMAIN archive,
               Named(Visible) \cup UNION {Named(archive[g].holds) : g \in frames} \subseteq frames
        PROVE  f \in frames
    <3>1. \A texts : Naming(archive, texts) = Named(texts)
      BY DEF Naming, Named
    <3>2. Naming(archive, Newest(history)) \subseteq frames
      BY <2>1, <2>3 DEF Naming, Named
    <3>3. Closed(archive, frames)
      BY <2>3, <3>1 DEF Closed
    <3> QED
      BY <2>2, <3>2, <3>3 DEF Leads
  <2>4. Reached(f)
    BY <2>3 DEF Reached
  <2> QED
    BY <2>2, <2>4
<1> QED
  BY <1>1, CompactionInitInv, CompactionStep, PTL DEF CompactionSpec
=============================================================================
