-------------------------- MODULE FileHistory_proofs --------------------------
(***************************************************************************)
(* Theorems about FileHistory, for every value of its constants: what a    *)
(* rewind restores and cuts off, that a redo takes it back, that the log   *)
(* of a turn begins with its prompt, and that captures of first changes    *)
(* implement the snapshots of Timeline.                                    *)
(***************************************************************************)
EXTENDS FileHistory, WellFoundedInduction, SequenceTheorems, TLAPS

-----------------------------------------------------------------------------
(* Numbers. *)

(* A nonempty set of naturals has a least element. *)
LEMMA LeastNatural ==
  ASSUME NEW T \in SUBSET Nat, T # {}
  PROVE  \E m \in T : \A k \in T : m <= k
<1> DEFINE R == OpToRel(<, Nat)
<1>1. IsWellFoundedOn(R, Nat)
  BY NatLessThanWellFounded
<1>2. \A x, y \in Nat : x < y => <<x, y>> \in R
  BY DEF OpToRel
<1> HIDE DEF R
<1>3. PICK m \in T : \A y \in T : ~ (<<y, m>> \in R)
  BY <1>1, WFMin
<1>4. \A k \in T : ~ (k < m)
  BY <1>2, <1>3
<1> QED
  BY <1>4

(* A nonempty set of naturals up to n has a greatest element. *)
LEMMA GreatestNatural ==
  ASSUME NEW n \in Nat, NEW T \in SUBSET (0..n), T # {}
  PROVE  \E m \in T : \A k \in T : k <= m
<1> DEFINE Up == {k \in 0..n : \A x \in T : x <= k}
<1>1. n \in Up /\ Up \in SUBSET Nat
  OBVIOUS
<1>2. PICK m \in Up : \A k \in Up : m <= k
  <2> HIDE DEF Up
  <2> QED BY <1>1, LeastNatural
<1>3. m \in T
  <2>1. SUFFICES ASSUME m \notin T PROVE FALSE
    OBVIOUS
  <2>2. PICK y : y \in T
    OBVIOUS
  <2>3. y \in 0..n /\ y <= m /\ y # m /\ m \in 0..n
    BY <1>2, <2>1, <2>2
  <2>4. m - 1 \in Up
    BY <1>2, <2>1, <2>3
  <2> QED
    BY <1>2, <2>3, <2>4
<1> QED
  BY <1>2, <1>3

-----------------------------------------------------------------------------
(* Undoing turns. *)

Projects == [Paths -> Contents]

(* What is written over a project gives a project. *)
LEMMA OverType ==
  ASSUME NEW kept \in Captures, NEW project \in Projects
  PROVE  Over(kept, project) \in Projects
<1>1. PICK touched \in SUBSET Paths : kept \in [touched -> Contents]
  BY DEF Captures
<1> QED
  BY <1>1 DEF Over, Projects

(* r says what is left of the project from the n-th turn on. *)
Lefts(r, turns, project, n) ==
  r = [i \in n..(Len(turns) + 1) |->
         IF i = Len(turns) + 1 THEN project ELSE Over(turns[i].files, r[i + 1])]

LEMMA LeftsExist ==
  ASSUME NEW turns \in Seq(TurnType), NEW project, NEW n \in 1..(Len(turns) + 1)
  PROVE  \E r : Lefts(r, turns, project, n)
<1> DEFINE l == Len(turns)
           Bad == {k \in 1..(l + 1) : ~ \E r : Lefts(r, turns, project, k)}
<1>0. l \in Nat
  BY LenProperties
<1>1. SUFFICES ASSUME Bad # {} PROVE FALSE
  OBVIOUS
<1>2. PICK m \in Bad : \A k \in Bad : k <= m
  <2>1. Bad \in SUBSET (0..(l + 1)) /\ l + 1 \in Nat
    BY <1>0
  <2> HIDE DEF Bad
  <2> QED BY <1>1, <2>1, GreatestNatural
<1>3. CASE m = l + 1
  <2> DEFINE r == [i \in (l + 1)..(l + 1) |-> project]
  <2>1. r = [i \in m..(l + 1) |-> IF i = l + 1 THEN project ELSE Over(turns[i].files, r[i + 1])]
    BY <1>0, <1>3
  <2> HIDE DEF r
  <2>2. Lefts(r, turns, project, m)
    BY <2>1 DEF Lefts
  <2> QED
    BY <1>2, <2>2
<1>4. CASE m # l + 1
  <2>1. m \in 1..l /\ m + 1 \in 1..(l + 1)
    BY <1>0, <1>2, <1>4
  <2>2. PICK q : Lefts(q, turns, project, m + 1)
    BY <1>2, <2>1
  <2> DEFINE top == Over(turns[m].files, q[m + 1])
             r == [i \in m..(l + 1) |-> IF i = m THEN top ELSE q[i]]
  <2> HIDE DEF top
  <2>3. q = [i \in (m + 1)..(l + 1) |->
               IF i = l + 1 THEN project ELSE Over(turns[i].files, q[i + 1])]
    BY <2>2 DEF Lefts
  <2>4. \A i \in m..(l + 1) :
          r[i] = IF i = l + 1 THEN project ELSE Over(turns[i].files, r[i + 1])
    <3> TAKE i \in m..(l + 1)
    <3>1. CASE i = m
      <4>1. r[m] = top /\ r[m + 1] = q[m + 1]
        BY <1>0, <2>1
      <4> HIDE DEF r
      <4> QED
        BY <1>4, <3>1, <4>1 DEF top
    <3>2. CASE i # m
      <4>1. /\ i \in (m + 1)..(l + 1)
            /\ i # l + 1 => i + 1 \in (m + 1)..(l + 1) /\ i + 1 # m /\ i + 1 \in m..(l + 1)
        BY <1>0, <2>1, <3>2
      <4>2. r[i] = q[i] /\ (i # l + 1 => r[i + 1] = q[i + 1])
        BY <3>2, <4>1
      <4>3. q[i] = IF i = l + 1 THEN project ELSE Over(turns[i].files, q[i + 1])
        BY <2>3, <4>1
      <4> HIDE DEF r
      <4> QED
        BY <4>2, <4>3
    <3> QED
      BY <3>1, <3>2
  <2>5. r = [i \in m..(l + 1) |-> IF i = l + 1 THEN project ELSE Over(turns[i].files, r[i + 1])]
    <3>1. r = [i \in m..(l + 1) |-> r[i]]
      OBVIOUS
    <3> HIDE DEF r
    <3> QED
      BY <2>4, <3>1, Zenon
  <2> HIDE DEF r
  <2>6. Lefts(r, turns, project, m)
    BY <2>5 DEF Lefts
  <2> QED
    BY <1>2, <2>6
<1> QED
  BY <1>3, <1>4

LEMMA UndoEquation ==
  ASSUME NEW turns \in Seq(TurnType), NEW project
  PROVE  \E r : Lefts(r, turns, project, 1) /\ Undo(turns, project) = r[1]
<1> DEFINE r == CHOOSE r : Lefts(r, turns, project, 1)
<1>1. Undo(turns, project) = r[1]
  BY DEF Undo, Lefts
<1>2. 1 \in 1..(Len(turns) + 1)
  BY LenProperties
<1>3. Lefts(r, turns, project, 1)
  BY <1>2, LeftsExist
<1> HIDE DEF r
<1> QED
  BY <1>1, <1>3

(* Undoing turns gives a project, and leaves the files alone that none of  *)
(* them touched.                                                           *)
LEMMA UndoType ==
  ASSUME NEW turns \in Seq(TurnType), NEW project \in Projects
  PROVE  /\ Undo(turns, project) \in Projects
         /\ \A p \in Paths \ Touched(turns) : Undo(turns, project)[p] = project[p]
<1> DEFINE l == Len(turns)
<1>0. l \in Nat /\ DOMAIN turns = 1..l
  BY LenProperties
<1>1. PICK r : Lefts(r, turns, project, 1) /\ Undo(turns, project) = r[1]
  BY UndoEquation
<1>2. r = [i \in 1..(l + 1) |-> IF i = l + 1 THEN project ELSE Over(turns[i].files, r[i + 1])]
  BY <1>1 DEF Lefts
<1> DEFINE Good(i) == /\ r[i] \in Projects
                      /\ \A p \in Paths \ Touched(turns) : r[i][p] = project[p]
           Bad == {i \in 1..(l + 1) : ~ Good(i)}
<1> HIDE DEF l
<1>3. SUFFICES ASSUME Bad # {} PROVE FALSE
  <2>1. 1 \in 1..(l + 1)
    BY <1>0
  <2> QED
    BY <1>1, <2>1
<1>4. PICK m \in Bad : \A k \in Bad : k <= m
  <2>1. Bad \in SUBSET (0..(l + 1)) /\ l + 1 \in Nat
    BY <1>0
  <2> HIDE DEF Bad
  <2> QED BY <1>3, <2>1, GreatestNatural
<1>5. m \in 1..(l + 1) /\ ~ Good(m)
  BY <1>4
<1>6. r[m] = IF m = l + 1 THEN project ELSE Over(turns[m].files, r[m + 1])
  BY <1>2, <1>5
<1>7. m # l + 1
  BY <1>5, <1>6
<1>8. m \in 1..l /\ m + 1 \in 1..(l + 1) /\ m + 1 > m
  BY <1>0, <1>5, <1>7
<1>9. Good(m + 1)
  <2>1. m + 1 \notin Bad
    BY <1>4, <1>8
  <2> QED
    BY <1>8, <2>1
<1> DEFINE kept == turns[m].files
<1>10. kept \in Captures
  <2>1. turns[m] \in TurnType
    BY <1>0, <1>8, ElementOfSeq DEF l
  <2> QED
    BY <2>1 DEF TurnType
<1>11. DOMAIN kept \subseteq Touched(turns)
  BY <1>0, <1>8 DEF Touched
<1> HIDE DEF kept
<1>12. r[m] = Over(kept, r[m + 1])
  BY <1>6, <1>7 DEF kept
<1>13. r[m] \in Projects
  BY <1>9, <1>10, <1>12, OverType
<1>14. ASSUME NEW p \in Paths \ Touched(turns) PROVE r[m][p] = project[p]
  <2>1. p \notin DOMAIN kept
    BY <1>11
  <2>2. r[m][p] = r[m + 1][p]
    BY <1>12, <2>1 DEF Over
  <2> QED
    BY <1>9, <2>2
<1> QED
  BY <1>5, <1>13, <1>14

-----------------------------------------------------------------------------
(* The type invariant. *)

LEMMA EventIsEvent ==
  ASSUME NEW type \in EventTypes, NEW n \in Nat
  PROVE  Event(type, <<n>>) \in EventType /\ Plain(type) \in EventType
  BY DEF Event, Plain, EventType

(* FileHistory.capture: the newest turn, and only it, holds the path; what *)
(* it adds is what the file holds now.                                     *)
LEMMA CaptureStack ==
  ASSUME stack \in Seq(TurnType), files \in Projects, NEW path \in Paths
  PROVE  /\ Capture(path) \in Seq(TurnType)
         /\ Len(Capture(path)) = Len(stack)
         /\ \A j \in 1..Len(stack) : /\ Capture(path)[j].prompt = stack[j].prompt
                                     /\ Capture(path)[j].eventIndex = stack[j].eventIndex
         /\ \A j \in 1..Len(stack) : j # Len(stack) => Capture(path)[j] = stack[j]
         /\ stack # <<>> =>
              /\ path \in DOMAIN Capture(path)[Len(stack)].files
              /\ Over(Capture(path)[Len(stack)].files, files) = Over(stack[Len(stack)].files, files)
<1> DEFINE l == Len(stack)
           s == Capture(path)
<1>0. l \in Nat /\ DOMAIN stack = 1..l
  BY LenProperties
<1>1. CASE stack = <<>>
  <2>1. s = stack
    BY <1>1 DEF Capture
  <2>2. l = 0
    BY <1>1
  <2> QED
    BY <1>1, <2>1, <2>2
<1>2. CASE stack # <<>> /\ path \in DOMAIN Last(stack).files
  <2>1. s = stack
    BY <1>2 DEF Capture
  <2>2. path \in DOMAIN stack[l].files
    BY <1>2 DEF Last
  <2> QED
    BY <1>2, <2>1, <2>2
<1>3. CASE stack # <<>> /\ path \notin DOMAIN Last(stack).files
  <2> DEFINE old  == stack[l].files
             more == [p \in DOMAIN old \cup {path} |-> IF p = path THEN files[p] ELSE old[p]]
             turn == [stack[l] EXCEPT !.files = more]
  <2>1. l \in 1..l
    BY <1>0, <1>3, EmptySeq
  <2>2. stack[l] \in TurnType
    BY <1>0, <2>1, ElementOfSeq
  <2>3. PICK touched \in SUBSET Paths : old \in [touched -> Contents]
    BY <2>2 DEF TurnType, Captures
  <2>4. more \in [touched \cup {path} -> Contents]
    BY <2>3 DEF Projects
  <2>5. more \in Captures
    BY <2>4 DEF Captures
  <2>6. Over(more, files) = Over(old, files)
    <3>1. path \notin DOMAIN old
      BY <1>3 DEF Last
    <3> QED
      BY <2>3, <3>1 DEF Over
  <2>7. path \in DOMAIN more
    OBVIOUS
  <2> HIDE DEF more
  <2>8. /\ turn \in TurnType /\ turn.files = more
        /\ turn.prompt = stack[l].prompt /\ turn.eventIndex = stack[l].eventIndex
    BY <2>2, <2>5 DEF TurnType
  <2>9. s = [stack EXCEPT ![l] = turn]
    BY <1>3, <2>2 DEF Capture, Last, more, TurnType
  <2> HIDE DEF turn
  <2>10. /\ s \in Seq(TurnType) /\ Len(s) = l
         /\ \A j \in 1..l : s[j] = IF j = l THEN turn ELSE stack[j]
    <3> HIDE DEF s, l
    <3>1. l = Len(stack)
      BY DEF l
    <3> QED
      BY <2>1, <2>8, <2>9, <3>1, ExceptSeq
  <2> HIDE DEF s
  <2>11. s[l].files = more
    BY <2>1, <2>8, <2>10
  <2> QED
    BY <2>1, <2>6, <2>7, <2>8, <2>10, <2>11 DEF s
<1> QED
  BY <1>1, <1>2, <1>3

(* beginTurn: the newest turn is the prompt's; the others stay, but for    *)
(* the oldest when there are too many.                                     *)
LEMMA KeptSeq ==
  ASSUME NEW S, NEW s \in Seq(S), NEW x \in S
  PROVE  LET r == KeptTurns(Append(s, x))
             d == IF Len(s) + 1 > MaxTurns THEN 1 ELSE 0
         IN  /\ r \in Seq(S) /\ Len(r) = Len(s) + 1 - d
             /\ \A j \in 1..Len(r) : r[j] = IF j = Len(r) THEN x ELSE s[j + d]
<1> DEFINE a == Append(s, x)
<1>1. /\ a \in Seq(S) /\ Len(a) = Len(s) + 1 /\ Len(s) \in Nat
      /\ \A j \in 1..Len(s) : a[j] = s[j]
      /\ a[Len(s) + 1] = x /\ a # <<>>
  BY AppendProperties, LenProperties
<1>2. /\ Tail(a) \in Seq(S) /\ Len(Tail(a)) = Len(a) - 1
      /\ \A j \in 1..Len(Tail(a)) : Tail(a)[j] = a[j + 1]
  <2> HIDE DEF a
  <2> QED
    BY <1>1, HeadTailProperties
<1> HIDE DEF a
<1>3. MaxTurns \in Nat \ {0}
  BY HistoryAssumption
<1>4. CASE Len(a) > MaxTurns
  <2> DEFINE b == Tail(a)
  <2>1. KeptTurns(a) = b
    BY <1>4 DEF KeptTurns
  <2> HIDE DEF b
  <2>2. /\ b \in Seq(S) /\ Len(b) = Len(s)
        /\ \A j \in 1..Len(b) : b[j] = a[j + 1]
    BY <1>1, <1>2 DEF b
  <2>3. \A j \in 1..Len(b) : b[j] = IF j = Len(b) THEN x ELSE s[j + 1]
    BY <1>1, <2>2
  <2> QED
    BY <1>1, <1>3, <1>4, <2>1, <2>2, <2>3 DEF a
<1>5. CASE ~ (Len(a) > MaxTurns)
  <2>1. KeptTurns(a) = a
    BY <1>5 DEF KeptTurns
  <2>2. \A j \in 1..Len(a) : a[j] = IF j = Len(a) THEN x ELSE s[j + 0]
    BY <1>1
  <2> QED
    BY <1>1, <1>3, <1>5, <2>1, <2>2 DEF a
<1> QED
  BY <1>4, <1>5

LEMMA BeginTurn ==
  ASSUME stack \in Seq(TurnType), NEW turn \in TurnType
  PROVE  LET s == KeptTurns(Append(stack, turn))
             d == IF Len(stack) + 1 > MaxTurns THEN 1 ELSE 0
         IN  /\ s \in Seq(TurnType)
             /\ Len(s) = Len(stack) + 1 - d
             /\ \A j \in 1..Len(s) : s[j] = IF j = Len(s) THEN turn ELSE stack[j + d]
  BY KeptSeq

(* The n-th turn and those after it, and those before. *)
LEMMA StackSplit ==
  ASSUME NEW S, NEW s \in Seq(S), NEW n \in 1..Len(s)
  PROVE  /\ SubSeq(s, 1, n - 1) \in Seq(S) /\ Len(SubSeq(s, 1, n - 1)) = n - 1
         /\ \A j \in 1..(n - 1) : SubSeq(s, 1, n - 1)[j] = s[j]
         /\ SubSeq(s, n, Len(s)) \in Seq(S) /\ Len(SubSeq(s, n, Len(s))) = Len(s) - n + 1
         /\ \A j \in 1..(Len(s) - n + 1) : SubSeq(s, n, Len(s))[j] = s[n + j - 1]
         /\ SubSeq(s, 1, n - 1) \o SubSeq(s, n, Len(s)) = s
<1> DEFINE l == Len(s)
<1>0. l \in Nat /\ n \in Nat /\ n <= l /\ n >= 1
  BY LenProperties
<1>1. \A i \in 1..l : s[i] \in S
  BY ElementOfSeq
<1>2. /\ SubSeq(s, 1, n - 1) \in Seq(S) /\ Len(SubSeq(s, 1, n - 1)) = n - 1
      /\ \A j \in 1..(n - 1) : SubSeq(s, 1, n - 1)[j] = s[j]
  BY <1>0, <1>1, SubSeqProperties
<1>3. /\ SubSeq(s, n, l) \in Seq(S) /\ Len(SubSeq(s, n, l)) = l - n + 1
      /\ \A j \in 1..(l - n + 1) : SubSeq(s, n, l)[j] = s[n + j - 1]
  BY <1>0, <1>1, SubSeqProperties
<1>4. SubSeq(s, 1, n - 1) \o SubSeq(s, n, l) = s
  <2> DEFINE k == n - 1
  <2>1. 1 \in 1..(Len(s) + 1) /\ k \in (1 - 1)..Len(s) /\ l \in k..Len(s) /\ n = k + 1
    BY <1>0
  <2> HIDE DEF k
  <2>2. SubSeq(s, 1, k) \o SubSeq(s, k + 1, l) = SubSeq(s, 1, l)
    <3> HIDE DEF l
    <3> QED BY <2>1, ConcatAdjacentSubSeq
  <2>3. SubSeq(s, 1, l) = s
    BY SubSeqFull
  <2>4. SubSeq(s, 1, k) \o SubSeq(s, n, l) = s
    BY <2>1, <2>2, <2>3
  <2> QED
    BY <2>4 DEF k
<1> QED
  BY <1>2, <1>3, <1>4

(* EventStore.rewind: what is cut off the log is what comes after it. *)
LEMMA RewindLog ==
  ASSUME NEW E, NEW s \in Seq(E), NEW index \in Nat
  PROVE  /\ Rewind(s, index) \in Seq(E)
         /\ SubSeq(s, index + 1, Len(s)) \in Seq(E)
         /\ Rewind(s, index) \o SubSeq(s, index + 1, Len(s)) = s
         /\ index <= Len(s) => Len(Rewind(s, index)) = index
<1> DEFINE l == Len(s)
<1>0. l \in Nat
  BY LenProperties
<1>1. \A i \in 1..l : s[i] \in E
  BY ElementOfSeq
<1>2. CASE index >= l
  <2>1. Rewind(s, index) = s
    BY <1>2 DEF Rewind
  <2>2. SubSeq(s, index + 1, l) = <<>>
    BY <1>0, <1>2, SubSeqEmpty
  <2>3. <<>> \in Seq(E)
    OBVIOUS
  <2>4. s \o <<>> = s
    BY ConcatEmptySeq
  <2> QED
    BY <1>0, <1>2, <2>1, <2>2, <2>3, <2>4
<1>3. CASE ~ (index >= l)
  <2>1. index \in 0..(l - 1) /\ index \in Int /\ l \in Int
    BY <1>0, <1>3
  <2>2. Rewind(s, index) = SubSeq(s, 1, index)
    BY <1>3, <2>1 DEF Rewind
  <2>3. SubSeq(s, 1, index) \in Seq(E) /\ Len(SubSeq(s, 1, index)) = index
    <3>1. \A i \in 1..index : s[i] \in E
      BY <1>0, <1>1, <2>1
    <3> QED
      BY <2>1, <3>1, SubSeqProperties
  <2>4. SubSeq(s, index + 1, l) \in Seq(E)
    <3>1. \A i \in (index + 1)..l : s[i] \in E
      BY <1>0, <1>1, <2>1
    <3> QED
      BY <2>1, <3>1, SubSeqProperties
  <2>5. SubSeq(s, 1, index) \o SubSeq(s, index + 1, l) = s
    <3>1. 1 \in 1..(Len(s) + 1) /\ index \in (1 - 1)..Len(s) /\ l \in index..Len(s)
      BY <1>0, <2>1
    <3>2. SubSeq(s, 1, index) \o SubSeq(s, index + 1, l) = SubSeq(s, 1, l)
      <4> HIDE DEF l
      <4> QED BY <3>1, ConcatAdjacentSubSeq
    <3>3. SubSeq(s, 1, l) = s
      BY SubSeqFull
    <3> QED
      BY <3>2, <3>3
  <2> QED
    BY <2>2, <2>3, <2>4, <2>5
<1> QED
  BY <1>2, <1>3

(* What the turns left in the files they touched. *)
LEMMA LeftBehindType ==
  ASSUME files \in Projects, NEW turns \in Seq(TurnType)
  PROVE  /\ LeftBehind(turns) \in Captures
         /\ Touched(turns) \subseteq Paths
         /\ Over(LeftBehind(turns), Undo(turns, files)) = files
<1>1. Touched(turns) \subseteq Paths
  <2>1. \A i \in DOMAIN turns : turns[i] \in TurnType
    BY LenProperties, ElementOfSeq
  <2>2. \A i \in DOMAIN turns : DOMAIN turns[i].files \subseteq Paths
    BY <2>1 DEF TurnType, Captures
  <2> QED
    BY <2>2 DEF Touched
<1>2. LeftBehind(turns) \in [Touched(turns) -> Contents]
  BY <1>1 DEF LeftBehind, Projects
<1>3. LeftBehind(turns) \in Captures
  BY <1>1, <1>2 DEF Captures
<1>4. /\ Undo(turns, files) \in Projects
      /\ \A p \in Paths \ Touched(turns) : Undo(turns, files)[p] = files[p]
  BY UndoType
<1>5. Over(LeftBehind(turns), Undo(turns, files)) = [p \in Paths |-> files[p]]
  <2>1. \A p \in Paths : (IF p \in DOMAIN LeftBehind(turns) THEN LeftBehind(turns)[p]
                         ELSE Undo(turns, files)[p]) = files[p]
    BY <1>4 DEF LeftBehind
  <2> QED
    BY <2>1 DEF Over
<1>6. files = [p \in Paths |-> files[p]]
  BY DEF Projects
<1> QED
  BY <1>1, <1>3, <1>5, <1>6

(* FileHistory.rewind and Orchestrator.rewind: what a redo would give      *)
(* back is what there was.                                                 *)
LEMMA RewindParts ==
  ASSUME TypeOK, NEW n \in 1..Len(stack), RewindTo(n)
  PROVE  \E u \in RewindType :
           /\ undone' = Append(undone, u)
           /\ u.turns = SubSeq(stack, n, Len(stack))
           /\ u.events = SubSeq(store, stack[n].eventIndex + 1, Len(store))
           /\ stack' = SubSeq(stack, 1, n - 1)
           /\ store' = Rewind(store, stack[n].eventIndex)
           /\ stack[n].eventIndex \in Nat
           /\ files' = Undo(u.turns, files) /\ files' \in Projects
           /\ stack' \in Seq(TurnType) /\ store' \in Seq(EventType)
           /\ Over(u.after, files') = files
           /\ store' \o u.events = store
           /\ stack' \o u.turns = stack
<1> DEFINE turns == SubSeq(stack, n, Len(stack))
           index == stack[n].eventIndex
           u == [turns |-> turns, after |-> LeftBehind(turns),
                 events |-> SubSeq(store, index + 1, Len(store))]
<1>1. /\ stack \in Seq(TurnType) /\ store \in Seq(EventType) /\ files \in Projects
  BY DEF TypeOK, Projects
<1>2. index \in Nat
  <2>1. stack[n] \in TurnType
    BY <1>1, ElementOfSeq
  <2> QED
    BY <2>1 DEF TurnType
<1>3. /\ undone' = Append(undone, u) /\ files' = Undo(turns, files)
      /\ stack' = SubSeq(stack, 1, n - 1) /\ store' = Rewind(store, index)
  BY DEF RewindTo
<1>4. /\ turns \in Seq(TurnType) /\ SubSeq(stack, 1, n - 1) \in Seq(TurnType)
      /\ SubSeq(stack, 1, n - 1) \o turns = stack
  BY <1>1, StackSplit
<1> HIDE DEF turns, index
<1>5. /\ Rewind(store, index) \in Seq(EventType)
      /\ SubSeq(store, index + 1, Len(store)) \in Seq(EventType)
      /\ Rewind(store, index) \o SubSeq(store, index + 1, Len(store)) = store
  BY <1>1, <1>2, RewindLog
<1>6. /\ LeftBehind(turns) \in Captures
      /\ Over(LeftBehind(turns), Undo(turns, files)) = files
      /\ Undo(turns, files) \in Projects
  BY <1>1, <1>4, LeftBehindType, UndoType
<1>7. /\ u \in RewindType /\ u.turns = turns /\ u.after = LeftBehind(turns)
      /\ u.events = SubSeq(store, index + 1, Len(store))
  BY <1>4, <1>5, <1>6 DEF RewindType
<1> HIDE DEF u
<1> QED
  BY <1>2, <1>3, <1>4, <1>5, <1>6, <1>7 DEF turns, index

(* FileHistory.redo: the last rewind, and those before it. *)
LEMMA LastRewind ==
  ASSUME undone \in Seq(RewindType), undone # <<>>
  PROVE  LET l == Len(undone)
         IN  /\ l \in Nat \ {0} /\ Last(undone) = undone[l]
             /\ undone[l] \in RewindType
             /\ Front(undone) \in Seq(RewindType) /\ Len(Front(undone)) = l - 1
             /\ \A k \in 1..(l - 1) : Front(undone)[k] = undone[k]
<1> DEFINE l == Len(undone)
<1>1. l \in Nat \ {0}
  BY EmptySeq
<1>2. \A k \in 1..l : undone[k] \in RewindType
  BY ElementOfSeq
<1> HIDE DEF l
<1>3. l \in 1..l /\ \A k \in 1..(l - 1) : k \in 1..l
  BY <1>1
<1>4. /\ SubSeq(undone, 1, l - 1) \in Seq(RewindType) /\ Len(SubSeq(undone, 1, l - 1)) = l - 1
      /\ \A k \in 1..(l - 1) : SubSeq(undone, 1, l - 1)[k] = undone[k]
  <2> DEFINE m == l - 1
  <2>1. m \in Int /\ \A k \in 1..m : undone[k] \in RewindType
    BY <1>1, <1>2, <1>3
  <2>2. m = IF 1 <= m THEN m - 1 + 1 ELSE 0
    BY <1>1
  <2>3. \A k \in 1..m : 1 + k - 1 = k
    BY <1>1
  <2> HIDE DEF m
  <2>4. /\ SubSeq(undone, 1, m) \in Seq(RewindType)
        /\ Len(SubSeq(undone, 1, m)) = IF 1 <= m THEN m - 1 + 1 ELSE 0
        /\ \A k \in 1..(m - 1 + 1) : SubSeq(undone, 1, m)[k] = undone[1 + k - 1]
    BY <2>1, SubSeqProperties
  <2>5. m - 1 + 1 = m
    BY <2>1
  <2>6. /\ SubSeq(undone, 1, m) \in Seq(RewindType) /\ Len(SubSeq(undone, 1, m)) = m
        /\ \A k \in 1..m : SubSeq(undone, 1, m)[k] = undone[k]
    BY <2>2, <2>3, <2>4, <2>5
  <2> QED
    BY <2>6 DEF m
<1>5. Front(undone) = SubSeq(undone, 1, l - 1) /\ Last(undone) = undone[l]
  BY DEF Front, Last, l
<1> QED
  BY <1>1, <1>2, <1>3, <1>4, <1>5 DEF l

LEMMA InitType == Init => TypeOK
<1> SUFFICES ASSUME Init PROVE TypeOK
  OBVIOUS
<1>1. Plain("session_start") \in EventType
  BY EventIsEvent DEF EventTypes
<1>2. <<Plain("session_start")>> \in Seq(EventType)
  <2> DEFINE e == Plain("session_start")
  <2>1. e \in EventType
    BY <1>1
  <2> HIDE DEF e
  <2>2. <<e>> \in Seq(EventType)
    BY <2>1
  <2> QED
    BY <2>2 DEF e
<1>3. MaxPrompts \in Nat
  BY HistoryAssumption
<1>4. /\ files \in [Paths -> Contents] /\ store = <<Plain("session_start")>>
      /\ stack = <<>> /\ undone = <<>> /\ before = <<>>
      /\ prompts = 0 /\ running = FALSE /\ call = "none"
  BY DEF Init
<1>5. prompts \in 0..MaxPrompts
  BY <1>3, <1>4
<1>6. stack \in Seq(TurnType) /\ undone \in Seq(RewindType)
  BY <1>4, EmptySeq
<1>7. before \in Seq([Paths -> Contents]) /\ Len(before) = prompts
  BY <1>4, EmptySeq
<1> QED
  BY <1>2, <1>4, <1>5, <1>6, <1>7 DEF TypeOK

LEMMA TypeStep == TypeOK /\ [Next]_vars => TypeOK'
<1> SUFFICES ASSUME TypeOK, [Next]_vars PROVE TypeOK'
  OBVIOUS
<1>0. /\ files \in [Paths -> Contents] /\ files \in Projects
      /\ store \in Seq(EventType) /\ stack \in Seq(TurnType) /\ undone \in Seq(RewindType)
      /\ prompts \in 0..MaxPrompts /\ running \in BOOLEAN /\ call \in Paths \cup {"none"}
      /\ before \in Seq([Paths -> Contents]) /\ Len(before) = prompts
      /\ prompts \in Nat
  BY HistoryAssumption DEF TypeOK, Projects
<1>1. ASSUME NEW type \in EventTypes, store' = Append(store, Event(type, <<prompts>>))
      PROVE  store' \in Seq(EventType)
  BY <1>0, <1>1, EventIsEvent, AppendProperties
<1>2. CASE Prompt
  <2> DEFINE turn == Turn(Len(store), prompts', NoFiles)
             e    == Event("user_message", <<prompts'>>)
  <2>1. /\ prompts' = prompts + 1 /\ prompts < MaxPrompts
        /\ stack' = KeptTurns(Append(stack, turn)) /\ undone' = <<>>
        /\ store' = Append(store, e) /\ running' = TRUE
        /\ before' = Append(before, files) /\ UNCHANGED <<files, call>>
    BY <1>2 DEF Prompt
  <2>2. prompts' \in Nat /\ prompts' \in 0..MaxPrompts
    BY <1>0, <2>1, HistoryAssumption
  <2>3. NoFiles \in Captures
    <3>1. NoFiles \in [{} -> Contents]
      BY DEF NoFiles
    <3> QED
      BY <3>1 DEF Captures
  <2>4. turn \in TurnType
    BY <1>0, <2>2, <2>3, LenProperties DEF Turn, TurnType
  <2>5. e \in EventType
    BY <2>2, EventIsEvent DEF EventTypes
  <2> HIDE DEF turn, e
  <2>6. stack' \in Seq(TurnType)
    BY <1>0, <2>1, <2>4, BeginTurn
  <2>7. store' \in Seq(EventType)
    BY <1>0, <2>1, <2>5, AppendProperties
  <2>8. before' \in Seq([Paths -> Contents]) /\ Len(before') = prompts'
    BY <1>0, <2>1, AppendProperties
  <2>9. undone' \in Seq(RewindType)
    BY <2>1
  <2> QED
    BY <1>0, <2>1, <2>2, <2>6, <2>7, <2>8, <2>9 DEF TypeOK
<1>3. ASSUME NEW p \in Paths, BeforeTool(p) PROVE TypeOK'
  <2>1. stack' \in Seq(TurnType)
    BY <1>0, <1>3, CaptureStack DEF BeforeTool
  <2> QED
    BY <1>0, <1>3, <2>1 DEF BeforeTool, TypeOK
<1>4. ASSUME NEW p \in Paths, NEW c \in Contents, Write(p, c) PROVE TypeOK'
  <2>1. files' \in [Paths -> Contents]
    BY <1>0, <1>4 DEF Write
  <2>2. store' \in Seq(EventType)
    BY <1>1, <1>4 DEF Write, EventTypes
  <2> QED
    BY <1>0, <1>4, <2>1, <2>2 DEF Write, TypeOK
<1>5. CASE Refuse
  <2>1. store' \in Seq(EventType)
    BY <1>1, <1>5 DEF Refuse, EventTypes
  <2> QED
    BY <1>0, <1>5, <2>1 DEF Refuse, TypeOK
<1>6. ASSUME NEW p \in Paths, NEW c \in Contents, WriteElse(p, c) PROVE TypeOK'
  <2>1. files' \in [Paths -> Contents]
    BY <1>0, <1>6 DEF WriteElse
  <2>2. store' \in Seq(EventType)
    BY <1>1, <1>6 DEF WriteElse, EventTypes
  <2> QED
    BY <1>0, <1>6, <2>1, <2>2 DEF WriteElse, TypeOK
<1>7. CASE Answer
  <2>1. store' \in Seq(EventType)
    BY <1>1, <1>7 DEF Answer, EventTypes
  <2> QED
    BY <1>0, <1>7, <2>1 DEF Answer, TypeOK
<1>8. CASE RewindTurns
  <2>1. PICK n \in 1..Len(stack) : RewindTo(n)
    BY <1>0, <1>8, LenProperties DEF RewindTurns
  <2>2. /\ files' \in Projects /\ stack' \in Seq(TurnType) /\ store' \in Seq(EventType)
        /\ \E u \in RewindType : undone' = Append(undone, u)
    BY <2>1, RewindParts
  <2>3. undone' \in Seq(RewindType)
    BY <1>0, <2>2, AppendProperties
  <2>4. UNCHANGED <<prompts, running, call, before>>
    BY <2>1 DEF RewindTo
  <2> QED
    BY <1>0, <2>2, <2>3, <2>4 DEF TypeOK, Projects
<1>9. CASE Redo
  <2> DEFINE u == undone[Len(undone)]
  <2>1. /\ undone # <<>> /\ UNCHANGED <<prompts, running, call, before>>
        /\ files' = Over(Last(undone).after, files)
        /\ stack' = stack \o Last(undone).turns
        /\ store' = store \o Last(undone).events
        /\ undone' = Front(undone)
    BY <1>9 DEF Redo
  <2>2. u \in RewindType /\ Last(undone) = u /\ Front(undone) \in Seq(RewindType)
    BY <1>0, <2>1, LastRewind
  <2>3. u.after \in Captures /\ u.turns \in Seq(TurnType) /\ u.events \in Seq(EventType)
    BY <2>2 DEF RewindType
  <2> HIDE DEF u
  <2>4. files' \in Projects
    BY <1>0, <2>1, <2>2, <2>3, OverType
  <2>5. stack' \in Seq(TurnType) /\ store' \in Seq(EventType)
    BY <1>0, <2>1, <2>2, <2>3, ConcatProperties
  <2> QED
    BY <1>0, <2>1, <2>2, <2>4, <2>5 DEF TypeOK, Projects
<1>10. CASE Note
  <2>1. store' \in Seq(EventType)
    <3>1. Plain("mode_change") \in EventType
      BY EventIsEvent DEF EventTypes
    <3> QED
      BY <1>0, <1>10, <3>1, AppendProperties DEF Note
  <2> QED
    BY <1>0, <1>10, <2>1 DEF Note, TypeOK
<1>11. CASE Clear
  <2>1. store' \in Seq(EventType)
    BY <1>0, <1>11, RewindLog DEF Clear
  <2> QED
    BY <1>0, <1>11, <2>1 DEF Clear, TypeOK
<1>12. CASE UNCHANGED vars
  BY <1>0, <1>12 DEF vars, TypeOK
<1>13. Texts \subseteq Contents
  BY DEF Contents
<1> QED
  BY <1>2, <1>3, <1>4, <1>5, <1>6, <1>7, <1>8, <1>9, <1>10, <1>11, <1>12, <1>13 DEF Next

(* The state has the shape the code gives it, whatever hooks, tools and    *)
(* commands do.                                                            *)
THEOREM TypeCorrect == Spec => []TypeOK
  BY InitType, TypeStep, PTL DEF Spec

(* Only a rewind makes the rewinds that can be redone more. *)
LEMMA RewindsAre ==
  ASSUME TypeOK, [Next]_vars, Rewinds
  PROVE  /\ AtPrompt
         /\ \E n \in 1..Len(stack) :
              /\ RewindTo(n) /\ Len(stack') = n - 1
              /\ DOMAIN stack' = 1..(n - 1) /\ \A j \in 1..(n - 1) : stack'[j] = stack[j]
<1>0. stack \in Seq(TurnType) /\ undone \in Seq(RewindType) /\ Len(undone) \in Nat
  BY LenProperties DEF TypeOK
<1>1. CASE RewindTurns
  <2>1. PICK n \in 1..Len(stack) : RewindTo(n)
    BY <1>0, <1>1, LenProperties DEF RewindTurns
  <2>2. stack' = SubSeq(stack, 1, n - 1)
    BY <2>1 DEF RewindTo
  <2>3. /\ stack' \in Seq(TurnType) /\ Len(stack') = n - 1
        /\ \A j \in 1..(n - 1) : stack'[j] = stack[j]
    BY <1>0, <2>2, StackSplit
  <2>4. DOMAIN stack' = 1..(n - 1)
    BY <2>3, LenProperties
  <2> QED
    BY <1>1, <2>1, <2>3, <2>4 DEF RewindTurns
<1>2. CASE Redo
  <2>1. undone' = Front(undone) /\ undone # <<>>
    BY <1>2 DEF Redo
  <2>2. Len(undone') = Len(undone) - 1
    BY <1>0, <2>1, LastRewind
  <2> QED
    BY <1>0, <2>2 DEF Rewinds
<1>3. CASE Prompt
  <2>1. Len(undone') = 0
    BY <1>3 DEF Prompt
  <2> QED
    BY <1>0, <2>1 DEF Rewinds
<1>4. CASE ~ RewindTurns /\ ~ Redo /\ ~ Prompt
  <2>1. undone' = undone
    BY <1>4 DEF Next, vars, BeforeTool, Write, Refuse, WriteElse, Answer, Note, Clear
  <2> QED
    BY <1>0, <2>1 DEF Rewinds
<1> QED
  BY <1>1, <1>2, <1>3, <1>4

(* A redo right after a rewind gives the files, the conversation and the   *)
(* turns back as they were: whatever was written behind the captures,      *)
(* whichever commands ran in between, and also in the middle of a run.     *)
THEOREM RedoTakesRewindBack == Spec => RedoInvertsRewind
<1>1. ASSUME TypeOK, [Next]_vars, Rewinds
      PROVE  /\ Over(Last(undone').after, files') = files
             /\ store' \o Last(undone').events = store
             /\ stack' \o Last(undone').turns = stack
  <2>1. PICK n \in 1..Len(stack) : RewindTo(n)
    BY <1>1, RewindsAre
  <2>2. PICK u \in RewindType :
          /\ undone' = Append(undone, u)
          /\ Over(u.after, files') = files
          /\ store' \o u.events = store
          /\ stack' \o u.turns = stack
    BY <1>1, <2>1, RewindParts
  <2>3. Last(undone') = u
    BY <1>1, <2>2, AppendProperties DEF TypeOK, Last
  <2> QED
    BY <2>2, <2>3
<1>2. TypeOK /\ [Next]_vars
        => [Rewinds => /\ Over(Last(undone').after, files') = files
                       /\ store' \o Last(undone').events = store
                       /\ stack' \o Last(undone').turns = stack]_vars
  BY <1>1
<1> QED
  BY <1>2, TypeCorrect, PTL DEF Spec, RedoInvertsRewind

-----------------------------------------------------------------------------
(* What the captures of first changes stand for. *)

(* The projects the prompts were sent in are b.  Each of the turns t, the  *)
(* last of which left project fs, takes the project its successor began    *)
(* with back to the one it began with itself.                              *)
Chain(t, fs, b) ==
  \A j \in 1..Len(t) :
    Over(t[j].files, IF j = Len(t) THEN fs ELSE b[t[j + 1].prompt]) = b[t[j].prompt]

LEMMA ChainUndo ==
  ASSUME NEW t \in Seq(TurnType), NEW fs, NEW b, Chain(t, fs, b)
  PROVE  Undo(t, fs) = IF t = <<>> THEN fs ELSE b[t[1].prompt]
<1> DEFINE l == Len(t)
<1>0. l \in Nat /\ (t = <<>> <=> l = 0)
  BY LenProperties, EmptySeq
<1>1. PICK r : Lefts(r, t, fs, 1) /\ Undo(t, fs) = r[1]
  BY UndoEquation
<1>2. r = [i \in 1..(l + 1) |-> IF i = l + 1 THEN fs ELSE Over(t[i].files, r[i + 1])]
  BY <1>1 DEF Lefts
<1> DEFINE Good(i) == r[i] = IF i = l + 1 THEN fs ELSE b[t[i].prompt]
           Bad == {i \in 1..(l + 1) : ~ Good(i)}
<1>3. \A j \in 1..l : Over(t[j].files, IF j = l THEN fs ELSE b[t[j + 1].prompt]) = b[t[j].prompt]
  BY DEF Chain
<1> HIDE DEF l
<1>4. SUFFICES ASSUME Bad # {} PROVE FALSE
  <2>1. 1 \in 1..(l + 1) /\ (1 = l + 1 <=> l = 0)
    BY <1>0
  <2> QED
    BY <1>0, <1>1, <2>1
<1>5. PICK m \in Bad : \A k \in Bad : k <= m
  <2>1. Bad \in SUBSET (0..(l + 1)) /\ l + 1 \in Nat
    BY <1>0
  <2> HIDE DEF Bad
  <2> QED BY <1>4, <2>1, GreatestNatural
<1>6. m \in 1..(l + 1) /\ ~ Good(m)
  BY <1>5
<1>7. r[m] = IF m = l + 1 THEN fs ELSE Over(t[m].files, r[m + 1])
  BY <1>2, <1>6
<1>8. m # l + 1
  BY <1>6, <1>7
<1>9. m \in 1..l /\ m + 1 \in 1..(l + 1) /\ m + 1 > m /\ (m + 1 = l + 1 <=> m = l)
  BY <1>0, <1>6, <1>8
<1>10. Good(m + 1)
  <2>1. m + 1 \notin Bad
    BY <1>5, <1>9
  <2> QED
    BY <1>9, <2>1
<1>11. r[m + 1] = IF m = l THEN fs ELSE b[t[m + 1].prompt]
  BY <1>9, <1>10
<1>12. r[m] = b[t[m].prompt]
  BY <1>3, <1>7, <1>8, <1>9, <1>11
<1> QED
  BY <1>6, <1>8, <1>12

(* Cut in two: the first part ends where the second begins. *)
LEMMA ChainSplit ==
  ASSUME NEW t \in Seq(TurnType), NEW n \in 1..Len(t), NEW fs, NEW b, Chain(t, fs, b)
  PROVE  /\ Chain(SubSeq(t, 1, n - 1), b[t[n].prompt], b)
         /\ Chain(SubSeq(t, n, Len(t)), fs, b)
<1> DEFINE l == Len(t)
           x == SubSeq(t, 1, n - 1)
           y == SubSeq(t, n, l)
<1>0. l \in Nat /\ n \in 1..l
  BY LenProperties
<1>1. /\ Len(x) = n - 1 /\ \A j \in 1..(n - 1) : x[j] = t[j]
      /\ Len(y) = l - n + 1 /\ \A j \in 1..(l - n + 1) : y[j] = t[n + j - 1]
  BY StackSplit
<1>2. \A j \in 1..l : Over(t[j].files, IF j = l THEN fs ELSE b[t[j + 1].prompt]) = b[t[j].prompt]
  BY DEF Chain
<1> HIDE DEF l, x, y
<1>3. ASSUME NEW j \in 1..(n - 1)
      PROVE  Over(x[j].files, IF j = n - 1 THEN b[t[n].prompt] ELSE b[x[j + 1].prompt]) = b[x[j].prompt]
  <2>1. j \in 1..l /\ j # l
    BY <1>0
  <2>2. x[j] = t[j]
    BY <1>1
  <2>3. CASE j = n - 1
    <3>1. j + 1 = n
      BY <1>0, <2>3
    <3> QED
      BY <1>2, <2>1, <2>2, <2>3, <3>1
  <2>4. CASE j # n - 1
    <3>1. j + 1 \in 1..(n - 1)
      BY <1>0, <2>4
    <3>2. x[j + 1] = t[j + 1]
      BY <1>1, <3>1
    <3> QED
      BY <1>2, <2>1, <2>2, <2>4, <3>2
  <2> QED
    BY <2>3, <2>4
<1>4. ASSUME NEW j \in 1..(l - n + 1)
      PROVE  Over(y[j].files, IF j = l - n + 1 THEN fs ELSE b[y[j + 1].prompt]) = b[y[j].prompt]
  <2> DEFINE i == n + j - 1
  <2>1. i \in 1..l /\ (i = l <=> j = l - n + 1)
    BY <1>0
  <2>2. y[j] = t[i]
    BY <1>1
  <2>3. ASSUME j # l - n + 1 PROVE y[j + 1] = t[i + 1]
    <3>1. j + 1 \in 1..(l - n + 1) /\ n + (j + 1) - 1 = i + 1
      BY <1>0, <2>3
    <3> QED
      BY <1>1, <3>1
  <2> HIDE DEF i
  <2>4. Over(t[i].files, IF i = l THEN fs ELSE b[t[i + 1].prompt]) = b[t[i].prompt]
    BY <1>2, <2>1
  <2> QED
    BY <2>1, <2>2, <2>3, <2>4
<1>5. Chain(x, b[t[n].prompt], b)
  BY <1>1, <1>3 DEF Chain
<1>6. Chain(y, fs, b)
  BY <1>1, <1>4 DEF Chain
<1> QED
  BY <1>5, <1>6 DEF x, y, l

(* Put together again. *)
LEMMA ChainJoin ==
  ASSUME NEW t \in Seq(TurnType), NEW v \in Seq(TurnType), v # <<>>, NEW fs, NEW b,
         Chain(t, b[v[1].prompt], b), Chain(v, fs, b)
  PROVE  Chain(t \o v, fs, b)
<1> DEFINE l == Len(t)
           m == Len(v)
           s == t \o v
<1>0. l \in Nat /\ m \in Nat \ {0}
  BY LenProperties, EmptySeq
<1>1. /\ Len(s) = l + m
      /\ \A i \in 1..(l + m) : s[i] = IF i <= l THEN t[i] ELSE v[i - l]
  BY ConcatProperties
<1>2. \A j \in 1..l : Over(t[j].files, IF j = l THEN b[v[1].prompt] ELSE b[t[j + 1].prompt]) = b[t[j].prompt]
  BY DEF Chain
<1>3. \A j \in 1..m : Over(v[j].files, IF j = m THEN fs ELSE b[v[j + 1].prompt]) = b[v[j].prompt]
  BY DEF Chain
<1> HIDE DEF l, m, s
<1>4. ASSUME NEW j \in 1..(l + m)
      PROVE  Over(s[j].files, IF j = l + m THEN fs ELSE b[s[j + 1].prompt]) = b[s[j].prompt]
  <2>1. CASE j < l
    <3>1. j \in 1..l /\ j # l /\ j + 1 <= l /\ j + 1 \in 1..(l + m) /\ j # l + m
      BY <1>0, <2>1
    <3>2. s[j] = t[j] /\ s[j + 1] = t[j + 1]
      BY <1>1, <3>1
    <3> QED
      BY <1>2, <3>1, <3>2
  <2>2. CASE j = l
    <3>1. j \in 1..l /\ j + 1 \in 1..(l + m) /\ ~ (j + 1 <= l) /\ j + 1 - l = 1 /\ j # l + m
      BY <1>0, <2>2
    <3>2. s[j] = t[j] /\ s[j + 1] = v[1]
      BY <1>1, <2>2, <3>1
    <3> QED
      BY <1>2, <2>2, <3>1, <3>2
  <2>3. CASE j > l
    <3> DEFINE i == j - l
    <3>1. i \in 1..m /\ (i = m <=> j = l + m) /\ ~ (j <= l)
      BY <1>0, <2>3
    <3>2. s[j] = v[i]
      BY <1>1, <3>1
    <3>3. ASSUME j # l + m PROVE s[j + 1] = v[i + 1]
      <4>1. j + 1 \in 1..(l + m) /\ ~ (j + 1 <= l) /\ j + 1 - l = i + 1
        BY <1>0, <2>3, <3>3
      <4>2. ASSUME NEW k \in 1..(l + m), ~ (k <= l) PROVE s[k] = v[k - l]
        BY <1>1, <4>2
      <4> DEFINE k == j + 1
      <4>3. k \in 1..(l + m) /\ ~ (k <= l)
        BY <4>1
      <4>4. k - l = i + 1
        BY <1>0
      <4> HIDE DEF i, k
      <4>5. s[k] = v[k - l]
        BY <4>2, <4>3
      <4>6. s[k] = v[i + 1]
        BY <4>4, <4>5
      <4> QED
        BY <4>6 DEF k
    <3> HIDE DEF i
    <3>4. Over(v[i].files, IF i = m THEN fs ELSE b[v[i + 1].prompt]) = b[v[i].prompt]
      BY <1>3, <3>1
    <3> QED
      BY <3>1, <3>2, <3>3, <3>4
  <2> QED
    BY <1>0, <2>1, <2>2, <2>3
<1> QED
  BY <1>1, <1>4 DEF Chain, s

(* The last turn captures one more file, or a file it captured changes. *)
LEMMA ChainLast ==
  ASSUME NEW t, NEW v, Len(t) \in Nat, Len(v) = Len(t),
         \A j \in 1..Len(t) : v[j].prompt = t[j].prompt,
         \A j \in 1..Len(t) : j # Len(t) => v[j].files = t[j].files,
         NEW fs, NEW gs, NEW b, Chain(t, fs, b),
         Len(t) # 0 => Over(v[Len(t)].files, gs) = Over(t[Len(t)].files, fs)
  PROVE  Chain(v, gs, b)
<1> DEFINE l == Len(t)
<1>1. \A j \in 1..l : Over(t[j].files, IF j = l THEN fs ELSE b[t[j + 1].prompt]) = b[t[j].prompt]
  BY DEF Chain
<1>2. \A j \in 1..l : v[j].prompt = t[j].prompt /\ (j # l => v[j].files = t[j].files)
  OBVIOUS
<1>3. l # 0 => Over(v[l].files, gs) = Over(t[l].files, fs)
  OBVIOUS
<1>4. l \in Nat /\ Len(v) = l
  OBVIOUS
<1> HIDE DEF l
<1>5. ASSUME NEW j \in 1..l
      PROVE  Over(v[j].files, IF j = l THEN gs ELSE b[v[j + 1].prompt]) = b[v[j].prompt]
  <2>1. CASE j = l
    <3>1. l # 0
      BY <1>4, <2>1
    <3> QED
      BY <1>1, <1>2, <1>3, <2>1, <3>1
  <2>2. CASE j # l
    <3>1. j + 1 \in 1..l
      BY <1>4, <2>2
    <3>2. v[j + 1].prompt = t[j + 1].prompt
      BY <1>2, <3>1
    <3> QED
      BY <1>1, <1>2, <2>2, <3>2
  <2> QED
    BY <2>1, <2>2
<1> QED
  BY <1>4, <1>5 DEF Chain

(* A new turn captures nothing yet; the oldest may go. *)
LEMMA ChainBegin ==
  ASSUME NEW t \in Seq(TurnType), NEW s \in Seq(TurnType), NEW turn, NEW d \in {0, 1},
         Len(s) = Len(t) + 1 - d,
         \A j \in 1..Len(s) : s[j] = IF j = Len(s) THEN turn ELSE t[j + d],
         NEW fs \in Projects, NEW b \in Seq(Projects), Chain(t, fs, b),
         \A j \in 1..Len(t) : t[j].prompt \in 1..Len(b),
         turn.prompt = Len(b) + 1, turn.files = NoFiles
  PROVE  Chain(s, fs, Append(b, fs))
<1> DEFINE l == Len(t)
           m == Len(s)
           c == Append(b, fs)
<1>0. l \in Nat /\ m \in Nat /\ m = l + 1 - d
  BY LenProperties
<1>1. \A j \in 1..l : Over(t[j].files, IF j = l THEN fs ELSE b[t[j + 1].prompt]) = b[t[j].prompt]
  BY DEF Chain
<1>2. \A j \in 1..m : s[j] = IF j = m THEN turn ELSE t[j + d]
  OBVIOUS
<1>3. \A n \in 1..Len(b) : c[n] = b[n]
  BY AppendProperties, LenProperties
<1>4. c[turn.prompt] = fs
  BY AppendProperties, LenProperties
<1>5. \A j \in 1..l : c[t[j].prompt] = b[t[j].prompt]
  BY <1>3
<1>6. Over(NoFiles, fs) = fs
  <2>1. DOMAIN NoFiles = {}
    BY DEF NoFiles
  <2>2. Over(NoFiles, fs) = [p \in Paths |-> fs[p]]
    BY <2>1 DEF Over
  <2> QED
    BY <2>2 DEF Projects
<1> HIDE DEF l, m, c
<1>7. ASSUME NEW j \in 1..m
      PROVE  Over(s[j].files, IF j = m THEN fs ELSE c[s[j + 1].prompt]) = c[s[j].prompt]
  <2>1. CASE j = m
    BY <1>2, <1>4, <1>6, <2>1
  <2>2. CASE j # m
    <3> DEFINE i == j + d
    <3>1. i \in 1..l /\ (i = l <=> j + 1 = m) /\ j + 1 \in 1..m
      BY <1>0, <2>2
    <3>2. s[j] = t[i]
      BY <1>2, <2>2
    <3>3. Over(t[i].files, IF i = l THEN fs ELSE b[t[i + 1].prompt]) = c[t[i].prompt]
      BY <1>1, <1>5, <3>1
    <3>4. CASE j + 1 = m
      <4>1. s[j + 1] = turn
        BY <1>2, <3>1, <3>4
      <4> HIDE DEF i
      <4> QED
        BY <1>4, <2>2, <3>1, <3>2, <3>3, <3>4, <4>1
    <3>5. CASE j + 1 # m
      <4>1. s[j + 1] = t[(j + 1) + d]
        BY <1>2, <3>1, <3>5
      <4>2. (j + 1) + d = i + 1
        BY <1>0
      <4>3. i + 1 \in 1..l
        BY <1>0, <3>1, <3>5
      <4> HIDE DEF i
      <4>4. s[j + 1] = t[i + 1] /\ c[t[i + 1].prompt] = b[t[i + 1].prompt]
        BY <1>5, <4>1, <4>2, <4>3
      <4> QED
        BY <2>2, <3>1, <3>2, <3>3, <3>5, <4>4
    <3> QED
      BY <3>4, <3>5
  <2> QED
    BY <2>1, <2>2
<1> QED
  BY <1>7 DEF Chain, m, c

-----------------------------------------------------------------------------
(* Files. *)

(* The prompts of turns are among the first n. *)
Sent(t, n) == \A j \in 1..Len(t) : t[j].prompt \in 1..n

(* The project a rewind went back to, and the one it came from. *)
Start(u, b)   == b[u.turns[1].prompt]
Landing(u, b) == Over(u.after, Start(u, b))

(* While a run is in flight there is a turn, and nothing to redo. *)
IdleInv ==
  /\ call # "none" => running
  /\ running => undone = <<>> /\ stack # <<>>

(* The turns that can be rewound make a chain that ends in the project as  *)
(* it is, those of a rewind one that ends where the rewind came from; and  *)
(* each rewind came from where the one before it went.                     *)
FilesInv ==
  /\ call # "none" => call \in DOMAIN stack[Len(stack)].files
  /\ Sent(stack, prompts) /\ Chain(stack, files, before)
  /\ \A k \in 1..Len(undone) :
       /\ undone[k].turns # <<>> /\ Sent(undone[k].turns, prompts)
       /\ Chain(undone[k].turns, Landing(undone[k], before), before)
       /\ k = Len(undone) => files = Start(undone[k], before)
       /\ k < Len(undone) => Landing(undone[k + 1], before) = Start(undone[k], before)

LEMMA IdleStep ==
  ASSUME CommandsMidRun = FALSE
  PROVE  TypeOK /\ IdleInv /\ [Next]_vars => IdleInv'
<1> SUFFICES ASSUME TypeOK, IdleInv, [Next]_vars PROVE IdleInv'
  OBVIOUS
<1>0. /\ stack \in Seq(TurnType) /\ undone \in Seq(RewindType)
      /\ prompts \in 0..MaxPrompts /\ Len(store) \in Nat
  BY LenProperties DEF TypeOK
<1>1. CASE Prompt
  <2> DEFINE turn == Turn(Len(store), prompts', NoFiles)
  <2>1. /\ stack' = KeptTurns(Append(stack, turn)) /\ undone' = <<>>
        /\ running' = TRUE /\ prompts' = prompts + 1
    BY <1>1 DEF Prompt
  <2>2. turn \in TurnType
    <3>1. prompts' \in Nat
      BY <1>0, <2>1
    <3>2. NoFiles \in [{} -> Contents]
      BY DEF NoFiles
    <3>3. NoFiles \in Captures
      BY <3>2 DEF Captures
    <3> QED
      BY <1>0, <3>1, <3>3 DEF Turn, TurnType
  <2> HIDE DEF turn
  <2>3. stack' # <<>>
    <3>1. /\ stack' \in Seq(TurnType)
          /\ Len(stack') = Len(stack) + 1 - (IF Len(stack) + 1 > MaxTurns THEN 1 ELSE 0)
      BY <1>0, <2>1, <2>2, BeginTurn
    <3>2. Len(stack) \in Nat /\ MaxTurns \in Nat \ {0}
      BY <1>0, LenProperties, HistoryAssumption
    <3>3. Len(stack') # 0
      BY <3>1, <3>2
    <3> QED
      BY <3>3, EmptySeq
  <2> QED
    BY <2>1, <2>3 DEF IdleInv
<1>2. ASSUME NEW p \in Paths, BeforeTool(p) PROVE IdleInv'
  <2>1. Len(stack') = Len(stack) /\ stack' \in Seq(TurnType)
    <3>1. files \in Projects
      BY DEF TypeOK, Projects
    <3> QED
      BY <1>0, <1>2, <3>1, CaptureStack DEF BeforeTool
  <2>2. stack # <<>> => stack' # <<>>
    BY <1>0, <2>1, EmptySeq
  <2> QED
    BY <1>2, <2>2 DEF BeforeTool, IdleInv
<1>3. CASE RewindTurns
  BY <1>3 DEF RewindTurns, RewindTo, AtPrompt, IdleInv
<1>4. CASE Redo
  BY <1>4 DEF Redo, AtPrompt, IdleInv
<1>5. ASSUME NEW p \in Paths, NEW c \in Contents, Write(p, c) PROVE IdleInv'
  BY <1>5 DEF Write, IdleInv
<1>6. ASSUME NEW p \in Paths, NEW c \in Contents, WriteElse(p, c) PROVE IdleInv'
  BY <1>6 DEF WriteElse, IdleInv
<1>7. CASE Refuse \/ Answer \/ Note \/ Clear \/ UNCHANGED vars
  BY <1>7 DEF Refuse, Answer, Note, Clear, vars, IdleInv
<1>8. Texts \subseteq Contents
  BY DEF Contents
<1> QED
  BY <1>1, <1>2, <1>3, <1>4, <1>5, <1>6, <1>7, <1>8 DEF Next

(* What the last of the turns captured, a write leaves in place. *)
LEMMA OverWrite ==
  ASSUME NEW kept, NEW p \in DOMAIN kept, NEW fs \in Projects, NEW c
  PROVE  Over(kept, [fs EXCEPT ![p] = c]) = Over(kept, fs)
<1>1. ASSUME NEW q \in Paths, q \notin DOMAIN kept PROVE [fs EXCEPT ![p] = c][q] = fs[q]
  BY <1>1 DEF Projects
<1> QED
  BY <1>1 DEF Over

(* Rewinds stay good as prompts and projects are unchanged. *)
LEMMA FilesStay ==
  ASSUME FilesInv, UNCHANGED <<undone, files, stack, prompts, before>>,
         call' \in {call, "none"}
  PROVE  FilesInv'
BY DEF FilesInv, Sent, Chain, Start, Landing, Over

(* The same chain, with nothing to redo. *)
LEMMA FilesMade ==
  ASSUME undone' = <<>>, Sent(stack', prompts'), Chain(stack', files', before'),
         call' # "none" => call' \in DOMAIN stack'[Len(stack')].files
  PROVE  FilesInv'
<1>1. 1..Len(undone') = {}
  BY EmptySeq
<1> QED
  BY <1>1 DEF FilesInv

LEMMA FilesPrompt ==
  ASSUME TypeOK, IdleInv, FilesInv, Prompt
  PROVE  FilesInv'
<1> DEFINE turn == Turn(Len(store), prompts', NoFiles)
           d == IF Len(stack) + 1 > MaxTurns THEN 1 ELSE 0
<1>1. /\ stack' = KeptTurns(Append(stack, turn)) /\ undone' = <<>>
      /\ before' = Append(before, files) /\ prompts' = prompts + 1
      /\ files' = files /\ call' = "none"
  BY DEF Prompt, IdleInv
<1>2. /\ stack \in Seq(TurnType) /\ files \in Projects /\ before \in Seq(Projects)
      /\ Len(before) = prompts /\ prompts \in Nat /\ Len(store) \in Nat
      /\ Len(stack) \in Nat
  BY LenProperties, HistoryAssumption DEF TypeOK, Projects
<1>3. /\ turn.prompt = Len(before) + 1 /\ turn.files = NoFiles
      /\ turn.prompt = prompts' /\ turn \in TurnType
  <2>1. NoFiles \in [{} -> Contents]
    BY DEF NoFiles
  <2>2. NoFiles \in Captures
    BY <2>1 DEF Captures
  <2> QED
    BY <1>1, <1>2, <2>2 DEF Turn, TurnType
<1> HIDE DEF turn
<1>4. /\ stack' \in Seq(TurnType) /\ Len(stack') = Len(stack) + 1 - d /\ d \in {0, 1}
      /\ \A j \in 1..Len(stack') : stack'[j] = IF j = Len(stack') THEN turn ELSE stack[j + d]
  BY <1>1, <1>2, <1>3, BeginTurn
<1> HIDE DEF d
<1>5. Sent(stack, prompts) /\ Chain(stack, files, before)
  BY DEF FilesInv
<1>6. Chain(stack', files', before')
  BY <1>1, <1>2, <1>3, <1>4, <1>5, ChainBegin DEF Sent
<1>7. Sent(stack', prompts')
  <2> SUFFICES ASSUME NEW j \in 1..Len(stack') PROVE stack'[j].prompt \in 1..prompts'
    BY DEF Sent
  <2>1. CASE j = Len(stack')
    BY <1>1, <1>2, <1>3, <1>4, <2>1
  <2>2. CASE j # Len(stack')
    <3>1. j + d \in 1..Len(stack)
      BY <1>2, <1>4, <2>2
    <3>2. stack[j + d].prompt \in 1..prompts
      BY <1>5, <3>1 DEF Sent
    <3> QED
      BY <1>1, <1>2, <1>4, <2>2, <3>2, SMTT(30)
  <2> QED
    BY <2>1, <2>2
<1> QED
  BY <1>1, <1>6, <1>7, FilesMade

LEMMA FilesCapture ==
  ASSUME TypeOK, IdleInv, FilesInv, NEW p \in Paths, BeforeTool(p)
  PROVE  FilesInv'
<1>1. /\ stack' = Capture(p) /\ call' = p /\ undone' = <<>> /\ stack # <<>>
      /\ UNCHANGED <<files, prompts, before>>
  BY DEF BeforeTool, IdleInv
<1>2. stack \in Seq(TurnType) /\ files \in Projects /\ Len(stack) \in Nat
  BY LenProperties DEF TypeOK, Projects
<1>3. /\ Len(stack') = Len(stack)
      /\ \A j \in 1..Len(stack) : stack'[j].prompt = stack[j].prompt
      /\ \A j \in 1..Len(stack) : j # Len(stack) => stack'[j] = stack[j]
      /\ p \in DOMAIN stack'[Len(stack)].files
      /\ Over(stack'[Len(stack)].files, files) = Over(stack[Len(stack)].files, files)
  BY <1>1, <1>2, CaptureStack
<1>4. Sent(stack, prompts) /\ Chain(stack, files, before)
  BY DEF FilesInv
<1>5. Sent(stack', prompts')
  BY <1>1, <1>3, <1>4 DEF Sent
<1>6. Chain(stack', files, before)
  BY <1>2, <1>3, <1>4, ChainLast
<1> QED
  BY <1>1, <1>3, <1>5, <1>6, FilesMade

LEMMA FilesWrite ==
  ASSUME HooksRewrite = FALSE, TypeOK, IdleInv, FilesInv,
         NEW p \in Paths, NEW c, Write(p, c)
  PROVE  FilesInv'
<1>1. /\ p = call /\ call # "none" /\ files' = [files EXCEPT ![p] = c]
      /\ call' = "none" /\ undone' = <<>>
      /\ UNCHANGED <<stack, prompts, before>>
  BY DEF Write, IdleInv
<1>2. stack \in Seq(TurnType) /\ files \in Projects /\ Len(stack) \in Nat
  BY LenProperties DEF TypeOK, Projects
<1>3. Sent(stack, prompts) /\ Chain(stack, files, before)
  BY DEF FilesInv
<1>4. p \in DOMAIN stack[Len(stack)].files
  BY <1>1 DEF FilesInv
<1>5. Over(stack[Len(stack)].files, files') = Over(stack[Len(stack)].files, files)
  BY <1>1, <1>2, <1>4, OverWrite
<1>6. Chain(stack, files', before)
  BY <1>2, <1>3, <1>5, ChainLast
<1> QED
  BY <1>1, <1>3, <1>6, FilesMade

LEMMA FilesRewind ==
  ASSUME TypeOK, FilesInv, call = "none", NEW n \in 1..Len(stack), RewindTo(n)
  PROVE  /\ FilesInv' /\ files' = before[stack[n].prompt]
         /\ \E u \in RewindType : undone' = Append(undone, u) /\ Landing(u, before) = files
<1> DEFINE l == Len(undone)
<1>1. PICK u \in RewindType :
        /\ undone' = Append(undone, u)
        /\ u.turns = SubSeq(stack, n, Len(stack))
        /\ stack' = SubSeq(stack, 1, n - 1)
        /\ files' = Undo(u.turns, files)
        /\ Over(u.after, files') = files
  BY RewindParts
<1>2. /\ stack \in Seq(TurnType) /\ undone \in Seq(RewindType) /\ l \in Nat
      /\ Len(stack) \in Nat
  BY LenProperties DEF TypeOK
<1>3. UNCHANGED <<prompts, before, call>>
  BY DEF RewindTo
<1>4. Sent(stack, prompts) /\ Chain(stack, files, before)
  BY DEF FilesInv
<1>5. /\ Chain(stack', before[stack[n].prompt], before)
      /\ Chain(u.turns, files, before)
  BY <1>1, <1>2, <1>4, ChainSplit
<1>6. /\ Len(stack') = n - 1 /\ \A j \in 1..(n - 1) : stack'[j] = stack[j]
      /\ u.turns \in Seq(TurnType) /\ Len(u.turns) = Len(stack) - n + 1
      /\ \A j \in 1..(Len(stack) - n + 1) : u.turns[j] = stack[n + j - 1]
  BY <1>1, <1>2, StackSplit
<1>7. u.turns # <<>> /\ u.turns[1] = stack[n]
  <2>1. 1 \in 1..(Len(stack) - n + 1) /\ n + 1 - 1 = n /\ Len(u.turns) # 0
    BY <1>2, <1>6
  <2>2. u.turns[1] = stack[n + 1 - 1]
    BY <1>6, <2>1
  <2> QED
    BY <2>1, <2>2, EmptySeq
<1>8. files' = before[stack[n].prompt]
  <2>1. Undo(u.turns, files) = IF u.turns = <<>> THEN files ELSE before[u.turns[1].prompt]
    BY <1>5, <1>6, ChainUndo
  <2> QED
    BY <1>1, <1>7, <2>1
<1>9. Start(u, before) = files' /\ Landing(u, before) = files
  BY <1>1, <1>7, <1>8 DEF Start, Landing
<1>10. Sent(stack', prompts) /\ Sent(u.turns, prompts)
  <2>1. \A j \in 1..(n - 1) : j \in 1..Len(stack)
    BY <1>2
  <2>2. \A j \in 1..(Len(stack) - n + 1) : n + j - 1 \in 1..Len(stack)
    BY <1>2
  <2> QED
    BY <1>4, <1>6, <2>1, <2>2 DEF Sent
<1>11. /\ Len(undone') = l + 1 /\ undone'[l + 1] = u
       /\ \A k \in 1..l : undone'[k] = undone[k]
  BY <1>1, <1>2, AppendProperties
<1>12. \A k \in 1..l :
         /\ undone[k].turns # <<>> /\ Sent(undone[k].turns, prompts)
         /\ Chain(undone[k].turns, Landing(undone[k], before), before)
         /\ k = l => files = Start(undone[k], before)
         /\ k < l => Landing(undone[k + 1], before) = Start(undone[k], before)
  BY DEF FilesInv
<1> HIDE DEF l
<1>13. ASSUME NEW k \in 1..(l + 1)
       PROVE  /\ undone'[k].turns # <<>> /\ Sent(undone'[k].turns, prompts)
              /\ Chain(undone'[k].turns, Landing(undone'[k], before), before)
              /\ k = l + 1 => files' = Start(undone'[k], before)
              /\ k < l + 1 => Landing(undone'[k + 1], before) = Start(undone'[k], before)
  <2>1. CASE k = l + 1
    <3>1. ~ (k < l + 1)
      BY <1>2, <2>1
    <3> QED
      BY <1>5, <1>7, <1>9, <1>10, <1>11, <2>1, <3>1
  <2>2. CASE k # l + 1
    <3>1. k \in 1..l
      BY <1>2, <2>2
    <3>2. CASE k = l
      BY <1>9, <1>11, <1>12, <2>2, <3>1, <3>2
    <3>3. CASE k # l
      <4>1. k + 1 \in 1..l /\ k < l
        BY <1>2, <3>1, <3>3
      <4> QED
        BY <1>11, <1>12, <2>2, <3>1, <4>1
    <3> QED
      BY <3>2, <3>3
  <2> QED
    BY <2>1, <2>2
<1>14. FilesInv'
  <2>1. call' = "none"
    BY <1>3
  <2>2. Sent(stack', prompts') /\ Chain(stack', files', before')
    BY <1>3, <1>5, <1>8, <1>10
  <2> QED
    BY <1>3, <1>11, <1>13, <2>1, <2>2 DEF FilesInv
<1> QED
  BY <1>1, <1>8, <1>9, <1>14

LEMMA FilesRedo ==
  ASSUME TypeOK, FilesInv, call = "none", Redo
  PROVE  FilesInv' /\ files' = Landing(undone[Len(undone)], before)
<1> DEFINE l == Len(undone)
           u == undone[l]
<1>1. /\ undone # <<>> /\ files' = Over(Last(undone).after, files)
      /\ stack' = stack \o Last(undone).turns /\ undone' = Front(undone)
      /\ UNCHANGED <<prompts, before, call>>
  BY DEF Redo
<1>2. stack \in Seq(TurnType) /\ undone \in Seq(RewindType) /\ Len(stack) \in Nat
  BY LenProperties DEF TypeOK
<1>3. /\ l \in Nat \ {0} /\ Last(undone) = u /\ u \in RewindType
      /\ Len(undone') = l - 1 /\ \A k \in 1..(l - 1) : undone'[k] = undone[k]
  BY <1>1, <1>2, LastRewind
<1>4. \A k \in 1..l :
        /\ undone[k].turns # <<>> /\ Sent(undone[k].turns, prompts)
        /\ Chain(undone[k].turns, Landing(undone[k], before), before)
        /\ k = l => files = Start(undone[k], before)
        /\ k < l => Landing(undone[k + 1], before) = Start(undone[k], before)
  BY DEF FilesInv
<1>5. Sent(stack, prompts) /\ Chain(stack, files, before)
  BY DEF FilesInv
<1> HIDE DEF l
<1>6. /\ u.turns # <<>> /\ Sent(u.turns, prompts) /\ files = Start(u, before)
      /\ Chain(u.turns, Landing(u, before), before)
  <2>1. l \in 1..l
    BY <1>3
  <2> QED
    BY <1>4, <2>1
<1>7. u.turns \in Seq(TurnType)
  BY <1>3 DEF RewindType
<1>8. \A k \in 1..(l - 1) : k \in 1..l /\ k < l
  BY <1>3
<1>9. l - 1 \in 1..l => Landing(u, before) = Start(undone[l - 1], before)
  <2>1. l - 1 + 1 = l /\ l - 1 < l
    BY <1>3
  <2> QED
    BY <1>4, <2>1
<1> HIDE DEF u
<1>10. files' = Landing(u, before)
  BY <1>1, <1>3, <1>6 DEF Landing
<1>11. Chain(stack', files', before)
  <2>1. stack' = stack \o u.turns
    BY <1>1, <1>3
  <2>2. Chain(stack, before[u.turns[1].prompt], before)
    BY <1>5, <1>6 DEF Start
  <2> QED
    BY <1>2, <1>6, <1>7, <1>10, <2>1, <2>2, ChainJoin
<1>12. Sent(stack', prompts)
  <2>1. /\ Len(stack') = Len(stack) + Len(u.turns)
        /\ \A i \in 1..(Len(stack) + Len(u.turns)) :
             stack'[i] = IF i <= Len(stack) THEN stack[i] ELSE u.turns[i - Len(stack)]
    BY <1>1, <1>2, <1>3, <1>7, ConcatProperties
  <2>2. Len(u.turns) \in Nat
    BY <1>7, LenProperties
  <2> SUFFICES ASSUME NEW i \in 1..(Len(stack) + Len(u.turns)) PROVE stack'[i].prompt \in 1..prompts
    BY <2>1 DEF Sent
  <2>3. CASE i <= Len(stack)
    <3>1. i \in 1..Len(stack)
      BY <1>2, <2>3
    <3> QED
      BY <1>5, <2>1, <2>3, <3>1 DEF Sent
  <2>4. CASE ~ (i <= Len(stack))
    <3>1. i - Len(stack) \in 1..Len(u.turns)
      BY <1>2, <2>2, <2>4
    <3>2. stack'[i] = u.turns[i - Len(stack)]
      BY <2>1, <2>4
    <3> QED
      BY <1>6, <3>1, <3>2 DEF Sent
  <2> QED
    BY <2>3, <2>4
<1>13. ASSUME NEW k \in 1..(l - 1)
       PROVE  /\ undone'[k].turns # <<>> /\ Sent(undone'[k].turns, prompts)
              /\ Chain(undone'[k].turns, Landing(undone'[k], before), before)
              /\ k = l - 1 => files' = Start(undone'[k], before)
              /\ k < l - 1 => Landing(undone'[k + 1], before) = Start(undone'[k], before)
  <2>1. k \in 1..l /\ k < l /\ undone'[k] = undone[k]
    BY <1>3, <1>8
  <2>2. k = l - 1 => files' = Start(undone'[k], before)
    BY <1>9, <1>10, <2>1
  <2>3. ASSUME k < l - 1 PROVE Landing(undone'[k + 1], before) = Start(undone'[k], before)
    <3>1. k + 1 \in 1..(l - 1)
      BY <1>3, <2>3
    <3>2. undone'[k + 1] = undone[k + 1]
      BY <1>3, <3>1
    <3> QED
      BY <1>4, <2>1, <3>2
  <2> QED
    BY <1>4, <2>1, <2>2, <2>3
<1>14. FilesInv'
  BY <1>1, <1>3, <1>11, <1>12, <1>13 DEF FilesInv
<1> QED
  BY <1>10, <1>14 DEF u, l

LEMMA FilesInit == Init => IdleInv /\ FilesInv
<1> SUFFICES ASSUME Init PROVE IdleInv /\ FilesInv
  OBVIOUS
<1>1. stack = <<>> /\ undone = <<>> /\ call = "none" /\ running = FALSE
  BY DEF Init
<1>2. 1..Len(stack) = {} /\ 1..Len(undone) = {}
  BY <1>1, EmptySeq
<1> QED
  BY <1>1, <1>2 DEF IdleInv, FilesInv, Sent, Chain

LEMMA FilesStep ==
  ASSUME HooksRewrite = FALSE, OtherWriters = FALSE, CommandsMidRun = FALSE
  PROVE  TypeOK /\ IdleInv /\ FilesInv /\ [Next]_vars => FilesInv'
<1> SUFFICES ASSUME TypeOK, IdleInv, FilesInv, [Next]_vars PROVE FilesInv'
  OBVIOUS
<1>1. CASE RewindTurns
  <2>1. PICK n \in DOMAIN stack : RewindTo(n)
    BY <1>1 DEF RewindTurns
  <2>2. DOMAIN stack = 1..Len(stack)
    BY LenProperties DEF TypeOK
  <2>3. call = "none"
    BY <1>1 DEF RewindTurns, AtPrompt, IdleInv
  <2> QED
    BY <2>1, <2>2, <2>3, FilesRewind
<1>2. CASE Redo
  <2>1. call = "none"
    BY <1>2 DEF Redo, AtPrompt, IdleInv
  <2> QED
    BY <1>2, <2>1, FilesRedo
<1>3. ASSUME NEW p \in Paths, NEW c \in Contents, WriteElse(p, c) PROVE FilesInv'
  BY <1>3 DEF WriteElse
<1>4. CASE Refuse \/ Answer \/ Note \/ Clear \/ UNCHANGED vars
  BY <1>4, FilesStay DEF Refuse, Answer, Note, Clear, vars
<1>5. Texts \subseteq Contents
  BY DEF Contents
<1> QED
  BY <1>1, <1>2, <1>3, <1>4, <1>5, FilesPrompt, FilesCapture, FilesWrite DEF Next

LEMMA FilesInvariant ==
  ASSUME HooksRewrite = FALSE, OtherWriters = FALSE, CommandsMidRun = FALSE
  PROVE  Spec => [](TypeOK /\ IdleInv /\ FilesInv)
<1>1. Init => TypeOK /\ IdleInv /\ FilesInv
  BY InitType, FilesInit
<1>2. TypeOK /\ IdleInv /\ FilesInv /\ [Next]_vars => (TypeOK /\ IdleInv /\ FilesInv)'
  BY TypeStep, IdleStep, FilesStep
<1> QED
  BY <1>1, <1>2, PTL DEF Spec

(* As long as only captured paths are written and no command runs beside a *)
(* run, a rewind of any number of turns puts the project back as it was    *)
(* when the earliest of them began, also one that follows redos; and       *)
(* whatever happens to the log.                                            *)
THEOREM RewindsRestore ==
  ASSUME HooksRewrite = FALSE, OtherWriters = FALSE, CommandsMidRun = FALSE
  PROVE  Spec => RewindRestores
<1>1. ASSUME TypeOK, IdleInv, FilesInv, [Next]_vars, Rewinds
      PROVE  files' = before[stack[Len(stack') + 1].prompt]
  <2>1. PICK n \in 1..Len(stack) : RewindTo(n) /\ Len(stack') = n - 1
    BY <1>1, RewindsAre
  <2>2. call = "none"
    BY <1>1, RewindsAre DEF AtPrompt, IdleInv
  <2>3. files' = before[stack[n].prompt]
    BY <1>1, <2>1, <2>2, FilesRewind
  <2>4. Len(stack') + 1 = n
    BY <2>1
  <2> QED
    BY <2>3, <2>4
<1>2. TypeOK /\ IdleInv /\ FilesInv /\ [Next]_vars
        => [Rewinds => files' = before[stack[Len(stack') + 1].prompt]]_vars
  BY <1>1
<1> QED
  BY <1>2, FilesInvariant, PTL DEF Spec, RewindRestores

-----------------------------------------------------------------------------
(* The log. *)

(* What is in the log l is of the first n turns. *)
Stamped(l, n) == \A x \in 1..Len(l) : l[x].ids # <<>> => l[x].ids[1] \in 1..n

(* The turns t began in the stretch l of the log, which follows position   *)
(* "base": in order, and what is in the log of earlier turns, and only     *)
(* that, comes before a turn.                                              *)
Dated(t, l, base) ==
  /\ \A j \in 1..Len(t) : t[j].eventIndex \in base..(base + Len(l))
  /\ \A i, j \in 1..Len(t) :
       i < j => t[i].prompt < t[j].prompt /\ t[i].eventIndex <= t[j].eventIndex
  /\ \A j \in 1..Len(t), x \in 1..Len(l) :
       l[x].ids # <<>> => (base + x <= t[j].eventIndex <=> l[x].ids[1] < t[j].prompt)

(* What rewind u undid came right after turns t and log l. *)
Follows(t, l, end, u) ==
  /\ u.turns[1].eventIndex = end
  /\ \A j \in 1..Len(t) : t[j].prompt < u.turns[1].prompt
  /\ \A x \in 1..Len(l) : l[x].ids # <<>> => l[x].ids[1] < u.turns[1].prompt

LogInv ==
  /\ Sent(stack, prompts) /\ Stamped(store, prompts) /\ Dated(stack, store, 0)
  /\ \A k \in 1..Len(undone) :
       /\ undone[k].turns # <<>>
       /\ Sent(undone[k].turns, prompts) /\ Stamped(undone[k].events, prompts)
       /\ Dated(undone[k].turns, undone[k].events, undone[k].turns[1].eventIndex)
       /\ k = Len(undone) => Follows(stack, store, Len(store), undone[k])
       /\ k < Len(undone) =>
            Follows(undone[k + 1].turns, undone[k + 1].events,
                    undone[k + 1].turns[1].eventIndex + Len(undone[k + 1].events), undone[k])

(* One more event, of a turn that is not earlier than any of t. *)
LEMMA DatedAppend ==
  ASSUME NEW E, NEW l \in Seq(E), NEW e \in E, NEW t \in Seq(TurnType), NEW n \in Nat,
         Sent(t, n), Stamped(l, n), Dated(t, l, 0),
         e.ids # <<>> => e.ids[1] \in Nat /\ e.ids[1] >= n
  PROVE  Dated(t, Append(l, e), 0)
<1> DEFINE m == Len(l)
           s == Append(l, e)
<1>1. /\ m \in Nat /\ Len(s) = m + 1 /\ s[m + 1] = e
      /\ \A x \in 1..m : s[x] = l[x]
  BY LenProperties, AppendProperties
<1>2. /\ \A j \in 1..Len(t) : t[j].eventIndex \in 0..m
      /\ \A i, j \in 1..Len(t) :
           i < j => t[i].prompt < t[j].prompt /\ t[i].eventIndex <= t[j].eventIndex
      /\ \A j \in 1..Len(t), x \in 1..m :
           l[x].ids # <<>> => (x <= t[j].eventIndex <=> l[x].ids[1] < t[j].prompt)
  BY <1>1, SMTT(40) DEF Dated
<1>3. \A j \in 1..Len(t) : t[j].prompt \in 1..n
  BY DEF Sent
<1> HIDE DEF m, s
<1>4. ASSUME NEW j \in 1..Len(t), NEW x \in 1..(m + 1), s[x].ids # <<>>
      PROVE  x <= t[j].eventIndex <=> s[x].ids[1] < t[j].prompt
  <2>1. CASE x = m + 1
    <3>1. ~ (x <= t[j].eventIndex)
      BY <1>1, <1>2, <2>1
    <3>2. ~ (s[x].ids[1] < t[j].prompt)
      BY <1>1, <1>3, <1>4, <2>1
    <3> QED
      BY <3>1, <3>2
  <2>2. CASE x # m + 1
    <3>1. x \in 1..m
      BY <1>1, <2>2
    <3> QED
      BY <1>1, <1>2, <1>4, <3>1
  <2> QED
    BY <2>1, <2>2
<1>5. \A j \in 1..Len(t) : t[j].eventIndex \in 0..(m + 1)
  BY <1>1, <1>2
<1>6. \A x \in 1..(m + 1) : 0 + x = x
  BY <1>1
<1> QED
  BY <1>1, <1>2, <1>4, <1>5, <1>6 DEF Dated, s

LEMMA StampedAppend ==
  ASSUME NEW E, NEW l \in Seq(E), NEW e \in E, NEW n \in Nat, NEW m \in Nat, n <= m,
         Stamped(l, n), e.ids # <<>> => e.ids[1] \in 1..m
  PROVE  Stamped(Append(l, e), m)
<1>1. /\ Len(l) \in Nat /\ Len(Append(l, e)) = Len(l) + 1 /\ Append(l, e)[Len(l) + 1] = e
      /\ \A x \in 1..Len(l) : Append(l, e)[x] = l[x]
  BY LenProperties, AppendProperties
<1> SUFFICES ASSUME NEW x \in 1..(Len(l) + 1), Append(l, e)[x].ids # <<>>
             PROVE  Append(l, e)[x].ids[1] \in 1..m
  BY <1>1 DEF Stamped
<1>2. CASE x = Len(l) + 1
  BY <1>1, <1>2
<1>3. CASE x # Len(l) + 1
  <2>1. x \in 1..Len(l)
    BY <1>1, <1>3
  <2>2. l[x].ids[1] \in 1..n
    BY <1>1, <2>1 DEF Stamped
  <2> QED
    BY <1>1, <2>1, <2>2
<1> QED
  BY <1>2, <1>3

(* A capture leaves the turns where they are. *)
LEMMA DatedSame ==
  ASSUME NEW t, NEW v, Len(v) = Len(t), NEW l, NEW base, Dated(t, l, base),
         \A j \in 1..Len(t) : v[j].prompt = t[j].prompt /\ v[j].eventIndex = t[j].eventIndex
  PROVE  Dated(v, l, base)
BY DEF Dated

(* A turn begins with its prompt; the oldest may go. *)
LEMMA DatedBegin ==
  ASSUME NEW l \in Seq(EventType), NEW e \in EventType, NEW t \in Seq(TurnType),
         NEW s \in Seq(TurnType), NEW n \in Nat, NEW turn, NEW d \in {0, 1},
         Len(s) = Len(t) + 1 - d,
         \A j \in 1..Len(s) : s[j] = IF j = Len(s) THEN turn ELSE t[j + d],
         Sent(t, n), Stamped(l, n), Dated(t, l, 0),
         turn.prompt = n + 1, turn.eventIndex = Len(l), e.ids[1] = n + 1
  PROVE  Dated(s, Append(l, e), 0)
<1> DEFINE c == Append(l, e)
           m == Len(l)
           k == Len(s)
<1>1. /\ m \in Nat /\ Len(c) = m + 1 /\ c[m + 1] = e
      /\ \A x \in 1..m : c[x] = l[x]
  BY LenProperties, AppendProperties
<1>2. e.ids # <<>> => e.ids[1] \in Nat /\ e.ids[1] >= n
  OBVIOUS
<1>3. Dated(t, c, 0)
  BY <1>2, DatedAppend
<1>4. /\ \A j \in 1..Len(t) : t[j].eventIndex \in 0..m
      /\ \A i, j \in 1..Len(t) :
           i < j => t[i].prompt < t[j].prompt /\ t[i].eventIndex <= t[j].eventIndex
  BY <1>1 DEF Dated
<1>5. \A j \in 1..Len(t), x \in 1..(m + 1) :
        c[x].ids # <<>> => (x <= t[j].eventIndex <=> c[x].ids[1] < t[j].prompt)
  BY <1>1, <1>3 DEF Dated
<1>6. \A j \in 1..Len(t) : t[j].prompt \in 1..n
  BY DEF Sent
<1>7. \A x \in 1..m : l[x].ids # <<>> => l[x].ids[1] \in 1..n
  BY DEF Stamped
<1>8. Len(t) \in Nat /\ k = Len(t) + 1 - d /\ k \in Nat
  BY LenProperties
<1>9. \A j \in 1..k : s[j] = IF j = k THEN turn ELSE t[j + d]
  OBVIOUS
<1> HIDE DEF c, m, k
<1>10. ASSUME NEW j \in 1..k, j # k PROVE j + d \in 1..Len(t)
  BY <1>8, <1>10
<1>11. ASSUME NEW j \in 1..k PROVE s[j].eventIndex \in 0..(m + 1)
  <2>1. CASE j = k
    BY <1>1, <1>9, <2>1 DEF m
  <2>2. CASE j # k
    <3>1. s[j] = t[j + d] /\ t[j + d].eventIndex \in 0..m
      BY <1>4, <1>9, <1>10, <2>2
    <3>2. s[j].eventIndex \in 0..m
      BY <3>1
    <3> QED
      BY <1>1, <3>2
  <2> QED
    BY <2>1, <2>2
<1>12. ASSUME NEW i \in 1..k, NEW j \in 1..k, i < j
       PROVE  s[i].prompt < s[j].prompt /\ s[i].eventIndex <= s[j].eventIndex
  <2>0. i # k /\ s[i] = t[i + d] /\ i + d \in 1..Len(t)
    BY <1>8, <1>9, <1>10, <1>12
  <2>1. CASE j = k
    <3>1. s[j].prompt = n + 1 /\ s[j].eventIndex = m
      BY <1>9, <2>1 DEF m
    <3>2. t[i + d].prompt \in 1..n /\ t[i + d].eventIndex \in 0..m
      BY <1>4, <1>6, <2>0
    <3>3. s[i].prompt \in 1..n /\ s[i].eventIndex \in 0..m
      BY <2>0, <3>2
    <3> QED
      BY <1>1, <3>1, <3>3, SMTT(30)
  <2>2. CASE j # k
    <3>1. s[j] = t[j + d] /\ j + d \in 1..Len(t) /\ i + d < j + d
      BY <1>9, <1>10, <1>12, <2>2
    <3> QED
      BY <1>4, <2>0, <3>1
  <2> QED
    BY <2>1, <2>2
<1>13. ASSUME NEW j \in 1..k, NEW x \in 1..(m + 1), c[x].ids # <<>>
       PROVE  x <= s[j].eventIndex <=> c[x].ids[1] < s[j].prompt
  <2>1. CASE j = k
    <3>0. s[j].prompt = n + 1 /\ s[j].eventIndex = m
      BY <1>9, <2>1 DEF m
    <3>1. CASE x = m + 1
      <4>1. ~ (x <= m) /\ ~ (c[x].ids[1] < n + 1)
        BY <1>1, <3>1
      <4> QED
        BY <3>0, <4>1
    <3>2. CASE x # m + 1
      <4>1. x \in 1..m /\ c[x] = l[x]
        BY <1>1, <3>2
      <4>2. c[x].ids[1] \in 1..n
        BY <1>7, <1>13, <4>1
      <4> QED
        BY <1>1, <3>0, <4>1, <4>2
    <3> QED
      BY <3>1, <3>2
  <2>2. CASE j # k
    BY <1>5, <1>9, <1>10, <1>13, <2>2
  <2> QED
    BY <2>1, <2>2
<1>14. \A x \in 1..(m + 1) : 0 + x = x
  BY <1>1
<1>15. 0 + (m + 1) = m + 1
  BY <1>1
<1> QED
  BY <1>1, <1>11, <1>12, <1>13, <1>14, <1>15 DEF Dated, c, k

(* The log, cut in two. *)
LEMMA LogSplit ==
  ASSUME NEW E, NEW l \in Seq(E), NEW index \in 0..Len(l)
  PROVE  LET z == SubSeq(l, index + 1, Len(l))
         IN  /\ Rewind(l, index) = SubSeq(l, 1, index) /\ Len(Rewind(l, index)) = index
             /\ \A x \in 1..index : Rewind(l, index)[x] = l[x]
             /\ z \in Seq(E) /\ Len(z) = Len(l) - index
             /\ \A x \in 1..(Len(l) - index) : z[x] = l[index + x]
<1> DEFINE n == Len(l)
           i == index + 1
           y == SubSeq(l, 1, index)
           z == SubSeq(l, i, n)
<1>0. n \in Nat /\ index \in Int /\ i \in Int /\ index <= n /\ index \in Nat
  BY LenProperties
<1>1. \A x \in 1..n : l[x] \in E
  BY ElementOfSeq
<1>2. Rewind(l, index) = y
  <2>1. CASE index = n
    <3>1. SubSeq(l, 1, Len(l)) = l
      BY SubSeqFull
    <3> QED
      BY <1>0, <2>1, <3>1 DEF Rewind
  <2>2. CASE index # n
    <3>1. ~ (index < 0) /\ ~ (index >= n)
      BY <1>0, <2>2
    <3> QED
      BY <3>1 DEF Rewind
  <2> QED
    BY <2>1, <2>2
<1>3. (\A x \in 1..index : l[x] \in E) /\ (\A x \in i..n : l[x] \in E)
  BY <1>0, <1>1
<1>4. /\ n - i + 1 = n - index /\ index - 1 + 1 = index
      /\ \A x \in 1..(n - index) : i + x - 1 = index + x
      /\ \A x \in 1..index : 1 + x - 1 = x
      /\ ~ (i <= n) => n - index = 0
      /\ ~ (1 <= index) => index = 0
  BY <1>0
<1> HIDE DEF i, n
<1>5. /\ Len(y) = IF 1 <= index THEN index - 1 + 1 ELSE 0
      /\ \A x \in 1..(index - 1 + 1) : y[x] = l[1 + x - 1]
  BY <1>0, <1>3, SubSeqProperties
<1>6. /\ z \in Seq(E)
      /\ Len(z) = IF i <= n THEN n - i + 1 ELSE 0
      /\ \A x \in 1..(n - i + 1) : z[x] = l[i + x - 1]
  BY <1>0, <1>3, SubSeqProperties
<1> HIDE DEF y, z
<1>7. Len(y) = index /\ \A x \in 1..index : y[x] = l[x]
  BY <1>4, <1>5
<1>8. Len(z) = n - index /\ \A x \in 1..(n - index) : z[x] = l[index + x]
  BY <1>4, <1>6
<1> QED
  BY <1>2, <1>6, <1>7, <1>8 DEF y, z, i, n

LEMMA DatedSplit ==
  ASSUME NEW E, NEW l \in Seq(E), NEW t \in Seq(TurnType), NEW n \in 1..Len(t), Dated(t, l, 0)
  PROVE  LET index == t[n].eventIndex
             x == SubSeq(t, 1, n - 1)
             y == SubSeq(t, n, Len(t))
             a == Rewind(l, index)
             z == SubSeq(l, index + 1, Len(l))
         IN  /\ index \in 0..Len(l) /\ Len(a) = index
             /\ Dated(x, a, 0) /\ Dated(y, z, index)
             /\ \A j \in 1..Len(x) : x[j].prompt < t[n].prompt
             /\ \A i \in 1..Len(a) : a[i].ids # <<>> => a[i].ids[1] < t[n].prompt
<1> DEFINE index == t[n].eventIndex
           x == SubSeq(t, 1, n - 1)
           y == SubSeq(t, n, Len(t))
           a == Rewind(l, index)
           z == SubSeq(l, index + 1, Len(l))
           k == Len(t)
           m == Len(l)
<1>0. k \in Nat /\ m \in Nat /\ n \in 1..k
  BY LenProperties
<1>1. \A i \in 1..m : 0 + i = i
  BY <1>0
<1>2. /\ \A j \in 1..k : t[j].eventIndex \in 0..m
      /\ \A i, j \in 1..k :
           i < j => t[i].prompt < t[j].prompt /\ t[i].eventIndex <= t[j].eventIndex
      /\ \A j \in 1..k, i \in 1..m :
           l[i].ids # <<>> => (i <= t[j].eventIndex <=> l[i].ids[1] < t[j].prompt)
  BY <1>0, <1>1 DEF Dated
<1>3. index \in 0..m
  BY <1>0, <1>2
<1>4. /\ Len(x) = n - 1 /\ \A j \in 1..(n - 1) : x[j] = t[j]
      /\ Len(y) = k - n + 1 /\ \A j \in 1..(k - n + 1) : y[j] = t[n + j - 1]
  BY StackSplit
<1>5. /\ Len(a) = index /\ \A i \in 1..index : a[i] = l[i]
      /\ Len(z) = m - index /\ \A i \in 1..(m - index) : z[i] = l[index + i]
  BY <1>3, LogSplit
<1>6. \A j \in 1..(n - 1) : j \in 1..k /\ j < n
  BY <1>0
<1>7. \A i \in 1..index : i \in 1..m /\ i <= index
  BY <1>0, <1>3
<1>8. index = t[n].eventIndex
  OBVIOUS
<1> HIDE DEF index, x, y, a, z, k, m
<1>9. Dated(x, a, 0)
  <2>1. ASSUME NEW j \in 1..(n - 1) PROVE x[j].eventIndex \in 0..index
    BY <1>0, <1>2, <1>3, <1>4, <1>6, <1>8, SMTT(20)
  <2>2. ASSUME NEW i \in 1..(n - 1), NEW j \in 1..(n - 1), i < j
        PROVE  x[i].prompt < x[j].prompt /\ x[i].eventIndex <= x[j].eventIndex
    BY <1>2, <1>4, <1>6, <2>2
  <2>3. ASSUME NEW j \in 1..(n - 1), NEW i \in 1..index, a[i].ids # <<>>
        PROVE  i <= x[j].eventIndex <=> a[i].ids[1] < x[j].prompt
    BY <1>2, <1>4, <1>5, <1>6, <1>7, <2>3
  <2>4. 0 + index = index /\ \A i \in 1..index : 0 + i = i
    BY <1>0, <1>3
  <2> QED
    BY <1>4, <1>5, <2>1, <2>2, <2>3, <2>4 DEF Dated
<1>10. Dated(y, z, index)
  <2> DEFINE c == k - n + 1
             h == m - index
  <2>1. \A j \in 1..c : n + j - 1 \in 1..k /\ n <= n + j - 1
    BY <1>0
  <2>2. \A i \in 1..h : index + i \in 1..m
    BY <1>0, <1>3
  <2>3. \A i, j \in 1..c : i < j => n + i - 1 < n + j - 1
    BY <1>0
  <2>4. index + h = m
    BY <1>0, <1>3
  <2>5. \A j \in 1..k : n <= j => t[j].eventIndex \in index..m
    <3> SUFFICES ASSUME NEW j \in 1..k, n <= j PROVE t[j].eventIndex \in index..m
      OBVIOUS
    <3>1. index <= t[j].eventIndex
      BY <1>0, <1>2, <1>3, <1>8
    <3> QED
      BY <1>2, <1>3, <3>1
  <2>6. Len(y) = c /\ \A j \in 1..c : y[j] = t[n + j - 1]
    BY <1>4
  <2>7. Len(z) = h /\ \A i \in 1..h : z[i] = l[index + i]
    BY <1>5
  <2> HIDE DEF c, h
  <2>8. ASSUME NEW j \in 1..c PROVE y[j].eventIndex \in index..m
    <3> DEFINE p == n + j - 1
    <3>1. p \in 1..k /\ n <= p /\ y[j] = t[p]
      BY <2>1, <2>6
    <3> HIDE DEF p
    <3> QED
      BY <2>5, <3>1
  <2>9. ASSUME NEW i \in 1..c, NEW j \in 1..c, i < j
        PROVE  y[i].prompt < y[j].prompt /\ y[i].eventIndex <= y[j].eventIndex
    <3> DEFINE p == n + i - 1
               q == n + j - 1
    <3>1. p \in 1..k /\ q \in 1..k /\ p < q /\ y[i] = t[p] /\ y[j] = t[q]
      BY <2>1, <2>3, <2>6, <2>9
    <3> HIDE DEF p, q
    <3> QED
      BY <1>2, <3>1
  <2>10. ASSUME NEW j \in 1..c, NEW i \in 1..h, z[i].ids # <<>>
         PROVE  index + i <= y[j].eventIndex <=> z[i].ids[1] < y[j].prompt
    <3> DEFINE p == n + j - 1
               q == index + i
    <3>1. p \in 1..k /\ q \in 1..m /\ y[j] = t[p] /\ z[i] = l[q]
      BY <2>1, <2>2, <2>6, <2>7
    <3> HIDE DEF p, q
    <3>2. q <= y[j].eventIndex <=> z[i].ids[1] < y[j].prompt
      BY <1>2, <2>10, <3>1
    <3> QED
      BY <3>2 DEF q
  <2> QED
    BY <2>4, <2>6, <2>7, <2>8, <2>9, <2>10 DEF Dated
<1>11. \A j \in 1..Len(x) : x[j].prompt < t[n].prompt
  BY <1>0, <1>2, <1>4, <1>6
<1>12. \A i \in 1..Len(a) : a[i].ids # <<>> => a[i].ids[1] < t[n].prompt
  BY <1>0, <1>2, <1>5, <1>7, <1>8
<1> QED
  BY <1>3, <1>5, <1>9, <1>10, <1>11, <1>12 DEF index, x, y, a, z, m

LEMMA DatedJoin ==
  ASSUME NEW E, NEW l \in Seq(E), NEW m \in Seq(E),
         NEW t \in Seq(TurnType), NEW v \in Seq(TurnType), v # <<>>, NEW n,
         Sent(t, n), Sent(v, n), n \in Nat, Stamped(l, n), Stamped(m, n),
         Dated(t, l, 0), Dated(v, m, v[1].eventIndex), v[1].eventIndex = Len(l),
         \A j \in 1..Len(t) : t[j].prompt < v[1].prompt,
         \A x \in 1..Len(l) : l[x].ids # <<>> => l[x].ids[1] < v[1].prompt
  PROVE  Dated(t \o v, l \o m, 0)
<1> DEFINE a == Len(t)
           b == Len(v)
           c == Len(l)
           d == Len(m)
           s == t \o v
           w == l \o m
<1>0. a \in Nat /\ b \in Nat \ {0} /\ c \in Nat /\ d \in Nat
  BY LenProperties, EmptySeq
<1>1. /\ Len(s) = a + b
      /\ \A i \in 1..(a + b) : s[i] = IF i <= a THEN t[i] ELSE v[i - a]
      /\ Len(w) = c + d
      /\ \A i \in 1..(c + d) : w[i] = IF i <= c THEN l[i] ELSE m[i - c]
  BY ConcatProperties
<1>2. 0 + c = c /\ \A i \in 1..c : 0 + i = i
  BY <1>0
<1>3. /\ \A j \in 1..a : t[j].eventIndex \in 0..c
      /\ \A i, j \in 1..a :
           i < j => t[i].prompt < t[j].prompt /\ t[i].eventIndex <= t[j].eventIndex
      /\ \A j \in 1..a, x \in 1..c :
           l[x].ids # <<>> => (x <= t[j].eventIndex <=> l[x].ids[1] < t[j].prompt)
  <2>1. /\ \A j \in 1..a : t[j].eventIndex \in 0..(0 + c)
        /\ \A i, j \in 1..a :
             i < j => t[i].prompt < t[j].prompt /\ t[i].eventIndex <= t[j].eventIndex
        /\ \A j \in 1..a, x \in 1..c :
             l[x].ids # <<>> => (0 + x <= t[j].eventIndex <=> l[x].ids[1] < t[j].prompt)
    BY DEF Dated
  <2> QED
    BY <1>2, <2>1
<1>4. /\ \A j \in 1..b : v[j].eventIndex \in c..(c + d)
      /\ \A i, j \in 1..b :
           i < j => v[i].prompt < v[j].prompt /\ v[i].eventIndex <= v[j].eventIndex
      /\ \A j \in 1..b, x \in 1..d :
           m[x].ids # <<>> => (c + x <= v[j].eventIndex <=> m[x].ids[1] < v[j].prompt)
  BY DEF Dated
<1>5. /\ \A j \in 1..a : t[j].prompt \in 1..n /\ t[j].prompt < v[1].prompt
      /\ \A j \in 1..b : v[j].prompt \in 1..n
      /\ \A x \in 1..c : l[x].ids # <<>> => l[x].ids[1] \in 1..n /\ l[x].ids[1] < v[1].prompt
      /\ \A x \in 1..d : m[x].ids # <<>> => m[x].ids[1] \in 1..n
  BY DEF Sent, Stamped
<1>6. 1 \in 1..b /\ v[1].eventIndex = c
  BY <1>0
<1> HIDE DEF a, b, c, d, s, w
<1>7. \A j \in 1..b : v[1].prompt <= v[j].prompt
  <2> SUFFICES ASSUME NEW j \in 1..b PROVE v[1].prompt <= v[j].prompt
    OBVIOUS
  <2>1. CASE j = 1
    BY <1>5, <1>6, <2>1
  <2>2. CASE j # 1
    <3>1. 1 < j
      BY <2>2
    <3>2. v[1].prompt < v[j].prompt
      BY <1>4, <1>6, <3>1
    <3> QED
      BY <1>5, <1>6, <3>2
  <2> QED
    BY <2>1, <2>2
<1>8. \A x \in 1..d : m[x].ids # <<>> => ~ (m[x].ids[1] < v[1].prompt)
  <2> SUFFICES ASSUME NEW x \in 1..d, m[x].ids # <<>> PROVE ~ (m[x].ids[1] < v[1].prompt)
    OBVIOUS
  <2>1. ~ (c + x <= v[1].eventIndex)
    BY <1>0, <1>6
  <2> QED
    BY <1>4, <1>6, <2>1
<1>9. ASSUME NEW j \in 1..(a + b)
      PROVE  \/ j \in 1..a /\ s[j] = t[j]
             \/ j - a \in 1..b /\ s[j] = v[j - a] /\ ~ (j <= a)
  <2>1. CASE j <= a
    <3>1. j \in 1..a
      BY <1>0, <2>1
    <3> QED
      BY <1>1, <2>1, <3>1
  <2>2. CASE ~ (j <= a)
    <3>1. j - a \in 1..b
      BY <1>0, <2>2
    <3> QED
      BY <1>1, <2>2, <3>1
  <2> QED
    BY <2>1, <2>2
<1>10. ASSUME NEW x \in 1..(c + d)
       PROVE  \/ x \in 1..c /\ w[x] = l[x]
              \/ x - c \in 1..d /\ w[x] = m[x - c] /\ ~ (x <= c)
  <2>1. CASE x <= c
    <3>1. x \in 1..c
      BY <1>0, <2>1
    <3> QED
      BY <1>1, <2>1, <3>1
  <2>2. CASE ~ (x <= c)
    <3>1. x - c \in 1..d
      BY <1>0, <2>2
    <3> QED
      BY <1>1, <2>2, <3>1
  <2> QED
    BY <2>1, <2>2
<1>11. ASSUME NEW j \in 1..(a + b) PROVE s[j].eventIndex \in 0..(c + d)
  <2>1. CASE j \in 1..a /\ s[j] = t[j]
    <3>1. s[j].eventIndex \in 0..c
      BY <1>3, <2>1
    <3> QED
      BY <1>0, <3>1
  <2>2. CASE j - a \in 1..b /\ s[j] = v[j - a]
    <3>1. s[j].eventIndex \in c..(c + d)
      BY <1>4, <2>2
    <3> QED
      BY <1>0, <3>1
  <2> QED
    BY <1>9, <2>1, <2>2
<1>12. ASSUME NEW i \in 1..(a + b), NEW j \in 1..(a + b), i < j
       PROVE  s[i].prompt < s[j].prompt /\ s[i].eventIndex <= s[j].eventIndex
  <2>1. CASE i \in 1..a /\ s[i] = t[i] /\ j \in 1..a /\ s[j] = t[j]
    BY <1>3, <1>12, <2>1
  <2>2. CASE i \in 1..a /\ s[i] = t[i] /\ j - a \in 1..b /\ s[j] = v[j - a]
    <3>1. /\ s[i].prompt \in 1..n /\ s[i].prompt < v[1].prompt /\ v[1].prompt \in 1..n
          /\ s[i].eventIndex \in 0..c
      BY <1>3, <1>5, <1>6, <2>2
    <3>2. /\ s[j].prompt \in 1..n /\ v[1].prompt <= s[j].prompt
          /\ s[j].eventIndex \in c..(c + d)
      BY <1>4, <1>5, <1>7, <2>2
    <3>3. s[i].prompt < s[j].prompt
      BY <3>1, <3>2, SMTT(30)
    <3>4. s[i].eventIndex <= s[j].eventIndex
      BY <1>0, <3>1, <3>2, SMTT(20)
    <3> QED
      BY <3>3, <3>4
  <2>3. CASE i - a \in 1..b /\ s[i] = v[i - a] /\ ~ (i <= a) /\ j - a \in 1..b /\ s[j] = v[j - a]
    <3>1. i - a < j - a
      BY <1>0, <1>12
    <3> QED
      BY <1>4, <2>3, <3>1
  <2>4. CASE i - a \in 1..b /\ ~ (i <= a) /\ j \in 1..a
    BY <1>0, <1>12, <2>4
  <2> QED
    BY <1>9, <2>1, <2>2, <2>3, <2>4
<1>13. ASSUME NEW j \in 1..(a + b), NEW x \in 1..(c + d), w[x].ids # <<>>
       PROVE  x <= s[j].eventIndex <=> w[x].ids[1] < s[j].prompt
  <2>1. CASE j \in 1..a /\ s[j] = t[j] /\ x \in 1..c /\ w[x] = l[x]
    BY <1>3, <1>13, <2>1
  <2>2. CASE j \in 1..a /\ s[j] = t[j] /\ x - c \in 1..d /\ w[x] = m[x - c] /\ ~ (x <= c)
    <3>1. s[j].eventIndex \in 0..c /\ s[j].prompt \in 1..n /\ s[j].prompt < v[1].prompt
      BY <1>3, <1>5, <2>2
    <3>2. w[x].ids[1] \in 1..n /\ ~ (w[x].ids[1] < v[1].prompt) /\ v[1].prompt \in 1..n
      BY <1>5, <1>6, <1>8, <1>13, <2>2
    <3>3. ~ (x <= s[j].eventIndex)
      BY <1>0, <2>2, <3>1, SMTT(30)
    <3> QED
      BY <3>1, <3>2, <3>3, SMTT(30)
  <2>3. CASE j - a \in 1..b /\ s[j] = v[j - a] /\ x \in 1..c /\ w[x] = l[x]
    <3>1. s[j].eventIndex \in c..(c + d) /\ s[j].prompt \in 1..n /\ v[1].prompt <= s[j].prompt
      BY <1>4, <1>5, <1>7, <2>3
    <3>2. w[x].ids[1] \in 1..n /\ w[x].ids[1] < v[1].prompt /\ v[1].prompt \in 1..n
      BY <1>5, <1>6, <1>13, <2>3
    <3>3. x <= s[j].eventIndex
      BY <1>0, <2>3, <3>1, SMTT(20)
    <3> QED
      BY <3>1, <3>2, <3>3
  <2>4. CASE j - a \in 1..b /\ s[j] = v[j - a] /\ x - c \in 1..d /\ w[x] = m[x - c] /\ ~ (x <= c)
    <3>1. c + (x - c) <= s[j].eventIndex <=> w[x].ids[1] < s[j].prompt
      BY <1>4, <1>13, <2>4
    <3>2. c + (x - c) = x
      BY <1>0
    <3> QED
      BY <3>1, <3>2
  <2> QED
    BY <1>9, <1>10, <2>1, <2>2, <2>3, <2>4
<1>14. 0 + (c + d) = c + d /\ \A x \in 1..(c + d) : 0 + x = x
  BY <1>0
<1> QED
  BY <1>1, <1>11, <1>12, <1>13, <1>14 DEF Dated, s, w

(* What was stamped or sent before is, of parts and of wholes. *)
LEMMA SentSplit ==
  ASSUME NEW t \in Seq(TurnType), NEW n \in 1..Len(t), NEW m, Sent(t, m)
  PROVE  Sent(SubSeq(t, 1, n - 1), m) /\ Sent(SubSeq(t, n, Len(t)), m)
<1> DEFINE l == Len(t)
           x == SubSeq(t, 1, n - 1)
           y == SubSeq(t, n, l)
<1>1. /\ Len(x) = n - 1 /\ \A j \in 1..(n - 1) : x[j] = t[j]
      /\ Len(y) = l - n + 1 /\ \A j \in 1..(l - n + 1) : y[j] = t[n + j - 1]
  BY StackSplit
<1>2. l \in Nat /\ n \in 1..l
  BY LenProperties
<1>3. \A j \in 1..l : t[j].prompt \in 1..m
  BY DEF Sent
<1> HIDE DEF l, x, y
<1>4. (\A j \in 1..(n - 1) : j \in 1..l) /\ (\A j \in 1..(l - n + 1) : n + j - 1 \in 1..l)
  BY <1>2
<1>5. Sent(x, m)
  BY <1>1, <1>3, <1>4 DEF Sent
<1>6. Sent(y, m)
  BY <1>1, <1>3, <1>4 DEF Sent
<1> QED
  BY <1>5, <1>6 DEF x, y, l

LEMMA SentJoin ==
  ASSUME NEW t \in Seq(TurnType), NEW v \in Seq(TurnType), NEW m, Sent(t, m), Sent(v, m)
  PROVE  Sent(t \o v, m)
<1> DEFINE a == Len(t)
           b == Len(v)
           s == t \o v
<1>1. /\ Len(s) = a + b /\ a \in Nat /\ b \in Nat
      /\ \A i \in 1..(a + b) : s[i] = IF i <= a THEN t[i] ELSE v[i - a]
  BY ConcatProperties, LenProperties
<1>2. (\A j \in 1..a : t[j].prompt \in 1..m) /\ (\A j \in 1..b : v[j].prompt \in 1..m)
  BY DEF Sent
<1> HIDE DEF a, b, s
<1> SUFFICES ASSUME NEW i \in 1..(a + b) PROVE s[i].prompt \in 1..m
  BY <1>1 DEF Sent, s
<1>3. CASE i <= a
  <2>1. i \in 1..a
    BY <1>1, <1>3
  <2> QED
    BY <1>1, <1>2, <1>3, <2>1
<1>4. CASE ~ (i <= a)
  <2>1. i - a \in 1..b
    BY <1>1, <1>4
  <2>2. s[i] = v[i - a]
    BY <1>1, <1>4
  <2> QED
    BY <1>2, <2>1, <2>2
<1> QED
  BY <1>3, <1>4

LEMMA StampedSplit ==
  ASSUME NEW E, NEW l \in Seq(E), NEW index \in 0..Len(l), NEW n, Stamped(l, n)
  PROVE  Stamped(Rewind(l, index), n) /\ Stamped(SubSeq(l, index + 1, Len(l)), n)
<1> DEFINE m == Len(l)
           a == Rewind(l, index)
           z == SubSeq(l, index + 1, m)
<1>1. /\ Len(a) = index /\ \A x \in 1..index : a[x] = l[x]
      /\ Len(z) = m - index /\ \A x \in 1..(m - index) : z[x] = l[index + x]
  BY LogSplit
<1>2. m \in Nat /\ index \in 0..m
  BY LenProperties
<1>3. \A x \in 1..m : l[x].ids # <<>> => l[x].ids[1] \in 1..n
  BY DEF Stamped
<1> HIDE DEF m, a, z
<1>4. (\A x \in 1..index : x \in 1..m) /\ (\A x \in 1..(m - index) : index + x \in 1..m)
  BY <1>2
<1>5. Stamped(a, n)
  BY <1>1, <1>3, <1>4 DEF Stamped
<1>6. Stamped(z, n)
  BY <1>1, <1>3, <1>4 DEF Stamped
<1> QED
  BY <1>5, <1>6 DEF a, z, m

LEMMA StampedJoin ==
  ASSUME NEW E, NEW l \in Seq(E), NEW m \in Seq(E), NEW n, Stamped(l, n), Stamped(m, n)
  PROVE  Stamped(l \o m, n)
<1> DEFINE a == Len(l)
           b == Len(m)
           s == l \o m
<1>1. /\ Len(s) = a + b /\ a \in Nat /\ b \in Nat
      /\ \A i \in 1..(a + b) : s[i] = IF i <= a THEN l[i] ELSE m[i - a]
  BY ConcatProperties, LenProperties
<1>2. /\ \A x \in 1..a : l[x].ids # <<>> => l[x].ids[1] \in 1..n
      /\ \A x \in 1..b : m[x].ids # <<>> => m[x].ids[1] \in 1..n
  BY DEF Stamped
<1> HIDE DEF a, b, s
<1> SUFFICES ASSUME NEW i \in 1..(a + b), s[i].ids # <<>> PROVE s[i].ids[1] \in 1..n
  BY <1>1 DEF Stamped, s
<1>3. CASE i <= a
  <2>1. i \in 1..a
    BY <1>1, <1>3
  <2> QED
    BY <1>1, <1>2, <1>3, <2>1
<1>4. CASE ~ (i <= a)
  <2>1. i - a \in 1..b
    BY <1>1, <1>4
  <2>2. s[i] = m[i - a]
    BY <1>1, <1>4
  <2> QED
    BY <1>2, <2>1, <2>2
<1> QED
  BY <1>3, <1>4

(* Rewind w came after what follows rewind u of t and l. *)
LEMMA FollowsJoin ==
  ASSUME NEW E, NEW l \in Seq(E), NEW t \in Seq(TurnType), NEW u, NEW w, NEW n \in Nat,
         u.turns \in Seq(TurnType), u.events \in Seq(E), u.turns # <<>>,
         Sent(t, n), Stamped(l, n), Sent(u.turns, n), Sent(w.turns, n),
         w.turns # <<>>, w.turns \in Seq(TurnType),
         Follows(t, l, Len(l), u),
         Follows(u.turns, u.events, u.turns[1].eventIndex + Len(u.events), w)
  PROVE  Follows(t \o u.turns, l \o u.events, Len(l \o u.events), w)
<1> DEFINE v == u.turns
           m == u.events
           a == Len(t)
           b == Len(v)
           c == Len(l)
           d == Len(m)
           s == t \o v
           g == l \o m
           p == w.turns[1].prompt
           q == v[1].prompt
<1>0. a \in Nat /\ b \in Nat \ {0} /\ c \in Nat /\ d \in Nat /\ Len(w.turns) \in Nat \ {0}
  BY LenProperties, EmptySeq
<1>1. /\ Len(s) = a + b
      /\ \A i \in 1..(a + b) : s[i] = IF i <= a THEN t[i] ELSE v[i - a]
      /\ Len(g) = c + d
      /\ \A i \in 1..(c + d) : g[i] = IF i <= c THEN l[i] ELSE m[i - c]
  BY ConcatProperties
<1>2. /\ v[1].eventIndex = c
      /\ \A j \in 1..a : t[j].prompt < q
      /\ \A x \in 1..c : l[x].ids # <<>> => l[x].ids[1] < q
  BY DEF Follows
<1>3. /\ w.turns[1].eventIndex = v[1].eventIndex + d
      /\ \A j \in 1..b : v[j].prompt < p
      /\ \A x \in 1..d : m[x].ids # <<>> => m[x].ids[1] < p
  BY DEF Follows
<1>4. p \in 1..n /\ q \in 1..n /\ q < p
  <2>1. 1 \in 1..Len(w.turns) /\ 1 \in 1..b
    BY <1>0
  <2>2. p \in 1..n
    BY <2>1 DEF Sent
  <2>3. q \in 1..n
    BY <2>1 DEF Sent
  <2> QED
    BY <1>3, <2>1, <2>2, <2>3
<1>5. /\ \A j \in 1..a : t[j].prompt \in 1..n
      /\ \A x \in 1..c : l[x].ids # <<>> => l[x].ids[1] \in 1..n
  BY DEF Sent, Stamped
<1> HIDE DEF v, m, a, b, c, d, s, g, p, q
<1>6. ASSUME NEW j \in 1..(a + b) PROVE s[j].prompt < p
  <2>1. CASE j <= a
    <3>1. j \in 1..a /\ s[j] = t[j]
      BY <1>0, <1>1, <2>1
    <3>2. s[j].prompt \in 1..n /\ s[j].prompt < q
      BY <1>2, <1>5, <3>1
    <3> QED
      BY <1>4, <3>2
  <2>2. CASE ~ (j <= a)
    <3>1. j - a \in 1..b
      BY <1>0, <2>2
    <3>2. s[j] = v[j - a]
      BY <1>1, <2>2
    <3> QED
      BY <1>3, <3>1, <3>2
  <2> QED
    BY <2>1, <2>2
<1>7. ASSUME NEW x \in 1..(c + d), g[x].ids # <<>> PROVE g[x].ids[1] < p
  <2>1. CASE x <= c
    <3>1. x \in 1..c /\ g[x] = l[x]
      BY <1>0, <1>1, <2>1
    <3>2. g[x].ids[1] \in 1..n /\ g[x].ids[1] < q
      BY <1>2, <1>5, <1>7, <3>1
    <3> QED
      BY <1>4, <3>2
  <2>2. CASE ~ (x <= c)
    <3>1. x - c \in 1..d
      BY <1>0, <2>2
    <3>2. g[x] = m[x - c]
      BY <1>1, <2>2
    <3> QED
      BY <1>3, <1>7, <3>1, <3>2
  <2> QED
    BY <2>1, <2>2
<1>8. Len(g) = w.turns[1].eventIndex
  BY <1>1, <1>2, <1>3
<1> QED
  BY <1>1, <1>6, <1>7, <1>8 DEF Follows, s, g, p, v, m

(* The log while there is nothing to redo. *)
LEMMA LogMade ==
  ASSUME undone' = <<>>, Sent(stack', prompts'), Stamped(store', prompts'),
         Dated(stack', store', 0)
  PROVE  LogInv'
<1>1. 1..Len(undone') = {}
  BY EmptySeq
<1> QED
  BY <1>1 DEF LogInv

LEMMA LogInit == Init => LogInv
<1> SUFFICES ASSUME Init PROVE LogInv
  OBVIOUS
<1>1. stack = <<>> /\ undone = <<>> /\ store = <<Plain("session_start")>>
  BY DEF Init
<1>2. 1..Len(stack) = {} /\ 1..Len(undone) = {}
  BY <1>1, EmptySeq
<1>3. \A x \in 1..Len(store) : store[x].ids = <<>>
  BY <1>1 DEF Plain, Event
<1> QED
  BY <1>2, <1>3 DEF LogInv, Sent, Stamped, Dated

(* A run appends an event of its turn. *)
LEMMA LogEvent ==
  ASSUME TypeOK, IdleInv, LogInv, running, NEW type \in EventTypes,
         store' = Append(store, Event(type, <<prompts>>)),
         UNCHANGED <<stack, undone, prompts>>
  PROVE  LogInv'
<1> DEFINE e == Event(type, <<prompts>>)
<1>1. /\ stack \in Seq(TurnType) /\ store \in Seq(EventType) /\ prompts \in Nat
      /\ undone = <<>> /\ stack # <<>>
  BY HistoryAssumption DEF TypeOK, IdleInv
<1>2. e \in EventType /\ e.ids[1] = prompts
  BY <1>1, EventIsEvent DEF Event
<1>3. Sent(stack, prompts) /\ Stamped(store, prompts) /\ Dated(stack, store, 0)
  BY DEF LogInv
<1>4. e.ids[1] \in 1..prompts
  <2>1. 1 \in 1..Len(stack)
    BY <1>1, EmptySeq
  <2>2. stack[1].prompt \in 1..prompts
    BY <1>3, <2>1 DEF Sent
  <2> QED
    BY <1>1, <1>2, <2>2
<1> HIDE DEF e
<1>5. e.ids[1] \in Nat /\ e.ids[1] >= prompts /\ prompts <= prompts
  BY <1>1, <1>2
<1>6. Dated(stack, Append(store, e), 0)
  BY <1>1, <1>2, <1>3, <1>5, DatedAppend
<1>7. Stamped(Append(store, e), prompts)
  BY <1>1, <1>2, <1>3, <1>4, <1>5, StampedAppend
<1>8. store' = Append(store, e)
  BY DEF e
<1> QED
  BY <1>1, <1>3, <1>6, <1>7, <1>8, LogMade

LEMMA LogPrompt ==
  ASSUME TypeOK, LogInv, Prompt
  PROVE  LogInv'
<1> DEFINE turn == Turn(Len(store), prompts', NoFiles)
           d == IF Len(stack) + 1 > MaxTurns THEN 1 ELSE 0
           e == Event("user_message", <<prompts'>>)
<1>1. /\ stack' = KeptTurns(Append(stack, turn)) /\ undone' = <<>>
      /\ prompts' = prompts + 1 /\ store' = Append(store, e)
  BY DEF Prompt
<1>2. /\ stack \in Seq(TurnType) /\ store \in Seq(EventType)
      /\ prompts \in Nat /\ Len(store) \in Nat /\ Len(stack) \in Nat
  BY LenProperties, HistoryAssumption DEF TypeOK
<1>3. /\ turn.prompt = prompts + 1 /\ turn.eventIndex = Len(store) /\ turn \in TurnType
      /\ turn.prompt = prompts'
  <2>1. NoFiles \in [{} -> Contents]
    BY DEF NoFiles
  <2>2. NoFiles \in Captures
    BY <2>1 DEF Captures
  <2> QED
    BY <1>1, <1>2, <2>2 DEF Turn, TurnType
<1>4. e \in EventType /\ e.ids[1] = prompts + 1 /\ e.ids[1] \in 1..prompts'
  <2>1. prompts' \in Nat
    BY <1>1, <1>2
  <2>2. e \in EventType
    BY <2>1, EventIsEvent DEF EventTypes
  <2>3. e.ids[1] = prompts'
    BY DEF Event
  <2> QED
    BY <1>1, <1>2, <2>2, <2>3
<1>5. /\ stack' \in Seq(TurnType) /\ Len(stack') = Len(stack) + 1 - d /\ d \in {0, 1}
      /\ \A j \in 1..Len(stack') : stack'[j] = IF j = Len(stack') THEN turn ELSE stack[j + d]
  <2> HIDE DEF turn
  <2> QED
    BY <1>1, <1>2, <1>3, BeginTurn
<1>6. Sent(stack, prompts) /\ Stamped(store, prompts) /\ Dated(stack, store, 0)
  BY DEF LogInv
<1> HIDE DEF turn, d, e
<1>7. Dated(stack', Append(store, e), 0)
  <2> DEFINE s == stack'
  <2>1. /\ s \in Seq(TurnType) /\ Len(s) = Len(stack) + 1 - d /\ d \in {0, 1}
        /\ \A j \in 1..Len(s) : s[j] = IF j = Len(s) THEN turn ELSE stack[j + d]
    BY <1>5
  <2> HIDE DEF s
  <2>2. Dated(s, Append(store, e), 0)
    BY <1>2, <1>3, <1>4, <1>6, <2>1, DatedBegin
  <2> QED
    BY <2>2 DEF s
<1>8. Stamped(Append(store, e), prompts')
  <2>1. prompts' \in Nat /\ prompts <= prompts'
    BY <1>1, <1>2
  <2> QED
    BY <1>2, <1>4, <1>6, <2>1, StampedAppend
<1>9. Sent(stack', prompts')
  <2> SUFFICES ASSUME NEW j \in 1..Len(stack') PROVE stack'[j].prompt \in 1..prompts'
    BY DEF Sent
  <2>1. CASE j = Len(stack')
    BY <1>1, <1>2, <1>3, <1>5, <2>1
  <2>2. CASE j # Len(stack')
    <3>1. j + d \in 1..Len(stack)
      BY <1>2, <1>5, <2>2
    <3>2. stack[j + d].prompt \in 1..prompts
      BY <1>6, <3>1 DEF Sent
    <3>3. stack'[j] = stack[j + d]
      BY <1>5, <2>2
    <3>4. stack'[j].prompt \in 1..prompts
      BY <3>2, <3>3
    <3> QED
      BY <1>1, <1>2, <3>4
  <2> QED
    BY <2>1, <2>2
<1> QED
  BY <1>1, <1>7, <1>8, <1>9, LogMade

LEMMA LogCapture ==
  ASSUME TypeOK, IdleInv, LogInv, NEW p \in Paths, BeforeTool(p)
  PROVE  LogInv'
<1>1. stack' = Capture(p) /\ undone' = <<>> /\ UNCHANGED <<store, prompts>>
  BY DEF BeforeTool, IdleInv
<1>2. stack \in Seq(TurnType) /\ files \in Projects
  BY DEF TypeOK, Projects
<1>3. /\ Len(stack') = Len(stack)
      /\ \A j \in 1..Len(stack) :
           stack'[j].prompt = stack[j].prompt /\ stack'[j].eventIndex = stack[j].eventIndex
  BY <1>1, <1>2, CaptureStack
<1>4. Sent(stack, prompts) /\ Stamped(store, prompts) /\ Dated(stack, store, 0)
  BY DEF LogInv
<1>5. Dated(stack', store, 0)
  BY <1>3, <1>4, DatedSame
<1>6. Sent(stack', prompts)
  BY <1>3, <1>4 DEF Sent
<1> QED
  BY <1>1, <1>4, <1>5, <1>6, LogMade

LEMMA LogRewind ==
  ASSUME TypeOK, LogInv, NEW n \in 1..Len(stack), RewindTo(n)
  PROVE  LogInv'
<1> DEFINE l == Len(undone)
           index == stack[n].eventIndex
<1>1. PICK u \in RewindType :
        /\ undone' = Append(undone, u)
        /\ u.turns = SubSeq(stack, n, Len(stack))
        /\ u.events = SubSeq(store, index + 1, Len(store))
        /\ stack' = SubSeq(stack, 1, n - 1)
        /\ store' = Rewind(store, index)
  BY RewindParts
<1>2. /\ stack \in Seq(TurnType) /\ store \in Seq(EventType) /\ undone \in Seq(RewindType)
      /\ l \in Nat /\ Len(stack) \in Nat /\ Len(store) \in Nat
  BY LenProperties DEF TypeOK
<1>3. prompts' = prompts
  BY DEF RewindTo
<1>4. Sent(stack, prompts) /\ Stamped(store, prompts) /\ Dated(stack, store, 0)
  BY DEF LogInv
<1>5. /\ index \in 0..Len(store) /\ Len(store') = index
      /\ Dated(stack', store', 0) /\ Dated(u.turns, u.events, index)
      /\ \A j \in 1..Len(stack') : stack'[j].prompt < stack[n].prompt
      /\ \A i \in 1..Len(store') : store'[i].ids # <<>> => store'[i].ids[1] < stack[n].prompt
  BY <1>1, <1>2, <1>4, DatedSplit
<1>6. Sent(stack', prompts) /\ Sent(u.turns, prompts)
  BY <1>1, <1>2, <1>4, SentSplit
<1>7. Stamped(store', prompts) /\ Stamped(u.events, prompts)
  BY <1>1, <1>2, <1>4, <1>5, StampedSplit
<1>8. /\ u.turns \in Seq(TurnType) /\ Len(u.turns) = Len(stack) - n + 1
      /\ \A j \in 1..(Len(stack) - n + 1) : u.turns[j] = stack[n + j - 1]
  BY <1>1, <1>2, StackSplit, ZenonT(30)
<1>9. u.turns # <<>> /\ u.turns[1] = stack[n]
  <2>1. 1 \in 1..(Len(stack) - n + 1) /\ n + 1 - 1 = n /\ Len(u.turns) # 0
    BY <1>2, <1>8
  <2>2. u.turns[1] = stack[n + 1 - 1]
    BY <1>8, <2>1
  <2> QED
    BY <2>1, <2>2, EmptySeq
<1>10. Len(u.events) = Len(store) - index
  <2>1. index \in 0..Len(store) /\ u.events = SubSeq(store, index + 1, Len(store))
    BY <1>1, <1>5
  <2> HIDE DEF index
  <2> QED
    BY <1>2, <2>1, LogSplit
<1>11. /\ Len(undone') = l + 1 /\ undone'[l + 1] = u
       /\ \A k \in 1..l : undone'[k] = undone[k]
  BY <1>1, <1>2, AppendProperties
<1>12. \A k \in 1..l :
         /\ undone[k].turns # <<>>
         /\ Sent(undone[k].turns, prompts) /\ Stamped(undone[k].events, prompts)
         /\ Dated(undone[k].turns, undone[k].events, undone[k].turns[1].eventIndex)
         /\ k = l => Follows(stack, store, Len(store), undone[k])
         /\ k < l => Follows(undone[k + 1].turns, undone[k + 1].events,
                             undone[k + 1].turns[1].eventIndex + Len(undone[k + 1].events), undone[k])
  BY DEF LogInv
<1>13. Follows(stack', store', Len(store'), u)
  BY <1>5, <1>9 DEF Follows
<1> HIDE DEF l
<1>14. ASSUME NEW w, Follows(stack, store, Len(store), w)
       PROVE  Follows(u.turns, u.events, u.turns[1].eventIndex + Len(u.events), w)
  <2>1. /\ w.turns[1].eventIndex = Len(store)
        /\ \A j \in 1..Len(stack) : stack[j].prompt < w.turns[1].prompt
        /\ \A x \in 1..Len(store) : store[x].ids # <<>> => store[x].ids[1] < w.turns[1].prompt
    BY <1>14 DEF Follows
  <2>2. w.turns[1].eventIndex = u.turns[1].eventIndex + Len(u.events)
    BY <1>2, <1>5, <1>9, <1>10, <2>1
  <2>3. \A j \in 1..Len(u.turns) : u.turns[j].prompt < w.turns[1].prompt
    <3>1. \A j \in 1..(Len(stack) - n + 1) : n + j - 1 \in 1..Len(stack)
      BY <1>2
    <3> QED
      BY <1>8, <2>1, <3>1
  <2>4. \A x \in 1..Len(u.events) : u.events[x].ids # <<>> => u.events[x].ids[1] < w.turns[1].prompt
    <3> HIDE DEF index
    <3>1. \A x \in 1..(Len(store) - index) : index + x \in 1..Len(store)
      BY <1>2, <1>5
    <3>2. \A x \in 1..(Len(store) - index) : u.events[x] = store[index + x]
      BY <1>1, <1>2, <1>5, LogSplit
    <3> QED
      BY <1>10, <2>1, <3>1, <3>2
  <2> QED
    BY <2>2, <2>3, <2>4 DEF Follows
<1>15. ASSUME NEW k \in 1..(l + 1)
       PROVE  /\ undone'[k].turns # <<>>
              /\ Sent(undone'[k].turns, prompts) /\ Stamped(undone'[k].events, prompts)
              /\ Dated(undone'[k].turns, undone'[k].events, undone'[k].turns[1].eventIndex)
              /\ k = l + 1 => Follows(stack', store', Len(store'), undone'[k])
              /\ k < l + 1 =>
                   Follows(undone'[k + 1].turns, undone'[k + 1].events,
                           undone'[k + 1].turns[1].eventIndex + Len(undone'[k + 1].events),
                           undone'[k])
  <2>1. CASE k = l + 1
    <3>1. ~ (k < l + 1)
      BY <1>2, <2>1
    <3> QED
      BY <1>5, <1>6, <1>7, <1>9, <1>11, <1>13, <2>1, <3>1
  <2>2. CASE k # l + 1
    <3>1. k \in 1..l
      BY <1>2, <2>2
    <3>2. CASE k = l
      BY <1>11, <1>12, <1>14, <2>2, <3>1, <3>2
    <3>3. CASE k # l
      <4>1. k + 1 \in 1..l /\ k < l
        BY <1>2, <3>1, <3>3
      <4> QED
        BY <1>11, <1>12, <2>2, <3>1, <4>1
    <3> QED
      BY <3>2, <3>3
  <2> QED
    BY <2>1, <2>2
<1> QED
  BY <1>3, <1>5, <1>6, <1>7, <1>11, <1>15 DEF LogInv

LEMMA LogRedo ==
  ASSUME TypeOK, LogInv, Redo
  PROVE  LogInv'
<1> DEFINE l == Len(undone)
           u == undone[l]
<1>1. /\ undone # <<>> /\ prompts' = prompts
      /\ stack' = stack \o Last(undone).turns /\ undone' = Front(undone)
      /\ store' = store \o Last(undone).events
  BY DEF Redo
<1>2. /\ stack \in Seq(TurnType) /\ undone \in Seq(RewindType) /\ store \in Seq(EventType)
      /\ prompts \in Nat
  BY HistoryAssumption DEF TypeOK
<1>3. /\ l \in Nat \ {0} /\ Last(undone) = u /\ u \in RewindType
      /\ Len(undone') = l - 1 /\ \A k \in 1..(l - 1) : undone'[k] = undone[k]
      /\ undone' \in Seq(RewindType)
  BY <1>1, <1>2, LastRewind
<1>4. \A k \in 1..l :
        /\ undone[k].turns # <<>>
        /\ Sent(undone[k].turns, prompts) /\ Stamped(undone[k].events, prompts)
        /\ Dated(undone[k].turns, undone[k].events, undone[k].turns[1].eventIndex)
        /\ k = l => Follows(stack, store, Len(store), undone[k])
        /\ k < l => Follows(undone[k + 1].turns, undone[k + 1].events,
                            undone[k + 1].turns[1].eventIndex + Len(undone[k + 1].events), undone[k])
  BY DEF LogInv
<1>5. Sent(stack, prompts) /\ Stamped(store, prompts) /\ Dated(stack, store, 0)
  BY DEF LogInv
<1> HIDE DEF l
<1>6. /\ u.turns # <<>> /\ Sent(u.turns, prompts) /\ Stamped(u.events, prompts)
      /\ Dated(u.turns, u.events, u.turns[1].eventIndex)
      /\ Follows(stack, store, Len(store), u)
  <2>1. l \in 1..l
    BY <1>3
  <2> QED
    BY <1>4, <2>1
<1>7. u.turns \in Seq(TurnType) /\ u.events \in Seq(EventType)
  BY <1>3 DEF RewindType
<1>8. \A k \in 1..(l - 1) : k \in 1..l /\ k < l
  BY <1>3
<1>9. l - 1 \in 1..l =>
        Follows(u.turns, u.events, u.turns[1].eventIndex + Len(u.events), undone[l - 1])
  <2>1. l - 1 + 1 = l /\ l - 1 < l
    BY <1>3
  <2> QED
    BY <1>4, <2>1
<1> HIDE DEF u
<1>10. stack' = stack \o u.turns /\ store' = store \o u.events
  BY <1>1, <1>3
<1>11. /\ u.turns[1].eventIndex = Len(store)
       /\ \A j \in 1..Len(stack) : stack[j].prompt < u.turns[1].prompt
       /\ \A x \in 1..Len(store) : store[x].ids # <<>> => store[x].ids[1] < u.turns[1].prompt
  BY <1>6 DEF Follows
<1>12. Dated(stack', store', 0)
  BY <1>2, <1>5, <1>6, <1>7, <1>10, <1>11, DatedJoin
<1>13. Sent(stack', prompts) /\ Stamped(store', prompts)
  BY <1>2, <1>5, <1>6, <1>7, <1>10, SentJoin, StampedJoin
<1>14. ASSUME NEW k \in 1..(l - 1)
       PROVE  /\ undone'[k].turns # <<>>
              /\ Sent(undone'[k].turns, prompts) /\ Stamped(undone'[k].events, prompts)
              /\ Dated(undone'[k].turns, undone'[k].events, undone'[k].turns[1].eventIndex)
              /\ k = l - 1 => Follows(stack', store', Len(store'), undone'[k])
              /\ k < l - 1 =>
                   Follows(undone'[k + 1].turns, undone'[k + 1].events,
                           undone'[k + 1].turns[1].eventIndex + Len(undone'[k + 1].events),
                           undone'[k])
  <2>1. k \in 1..l /\ k < l /\ undone'[k] = undone[k]
    BY <1>3, <1>8
  <2>2. ASSUME k = l - 1 PROVE Follows(stack', store', Len(store'), undone'[k])
    <3> DEFINE w == undone[k]
    <3>1. Follows(u.turns, u.events, u.turns[1].eventIndex + Len(u.events), w)
      BY <1>9, <2>1, <2>2
    <3>2. w.turns # <<>> /\ Sent(w.turns, prompts)
      BY <1>4, <2>1
    <3>3. w.turns \in Seq(TurnType)
      <4>1. w \in RewindType
        BY <1>2, <2>1, ElementOfSeq DEF l
      <4> QED
        BY <4>1 DEF RewindType
    <3> HIDE DEF w
    <3>4. Follows(stack \o u.turns, store \o u.events, Len(store \o u.events), w)
      BY <1>2, <1>5, <1>6, <1>7, <3>1, <3>2, <3>3, FollowsJoin
    <3> QED
      BY <1>10, <2>1, <3>4 DEF w
  <2>3. ASSUME k < l - 1
        PROVE  Follows(undone'[k + 1].turns, undone'[k + 1].events,
                       undone'[k + 1].turns[1].eventIndex + Len(undone'[k + 1].events), undone'[k])
    <3>1. k + 1 \in 1..(l - 1)
      BY <1>3, <2>3
    <3>2. undone'[k + 1] = undone[k + 1]
      BY <1>3, <3>1
    <3> QED
      BY <1>4, <2>1, <3>2
  <2> QED
    BY <1>4, <2>1, <2>2, <2>3
<1> QED
  BY <1>1, <1>3, <1>12, <1>13, <1>14 DEF LogInv

LEMMA LogStep ==
  ASSUME Notes = FALSE, Clears = FALSE, CommandsMidRun = FALSE
  PROVE  TypeOK /\ IdleInv /\ LogInv /\ [Next]_vars => LogInv'
<1> SUFFICES ASSUME TypeOK, IdleInv, LogInv, [Next]_vars PROVE LogInv'
  OBVIOUS
<1>1. CASE RewindTurns
  <2>1. PICK n \in DOMAIN stack : RewindTo(n)
    BY <1>1 DEF RewindTurns
  <2>2. DOMAIN stack = 1..Len(stack)
    BY LenProperties DEF TypeOK
  <2> QED
    BY <2>1, <2>2, LogRewind
<1>2. ASSUME NEW p \in Paths, NEW c, Write(p, c) PROVE LogInv'
  <2>1. running /\ "tool_result" \in EventTypes
    BY <1>2 DEF Write, IdleInv, EventTypes
  <2> QED
    BY <1>2, <2>1, LogEvent DEF Write
<1>3. ASSUME NEW p \in Paths, NEW c, WriteElse(p, c) PROVE LogInv'
  <2>1. running /\ "tool_result" \in EventTypes
    BY <1>3 DEF WriteElse, EventTypes
  <2> QED
    BY <1>3, <2>1, LogEvent DEF WriteElse
<1>4. CASE Refuse
  <2>1. running /\ "tool_result" \in EventTypes
    BY <1>4 DEF Refuse, IdleInv, EventTypes
  <2> QED
    BY <1>4, <2>1, LogEvent DEF Refuse
<1>5. CASE Answer
  <2>1. running /\ "assistant_message" \in EventTypes
    BY <1>5 DEF Answer, EventTypes
  <2> QED
    BY <1>5, <2>1, LogEvent DEF Answer
<1>6. CASE Note \/ Clear
  BY <1>6 DEF Note, Clear
<1>7. CASE UNCHANGED vars
  BY <1>7 DEF vars, LogInv, Sent, Stamped, Dated, Follows
<1> QED
  BY <1>1, <1>2, <1>3, <1>4, <1>5, <1>6, <1>7, LogPrompt, LogCapture, LogRedo DEF Next

LEMMA LogInvariant ==
  ASSUME Notes = FALSE, Clears = FALSE, CommandsMidRun = FALSE
  PROVE  Spec => [](TypeOK /\ IdleInv /\ LogInv)
<1>1. Init => TypeOK /\ IdleInv /\ LogInv
  BY InitType, FilesInit, LogInit
<1>2. TypeOK /\ IdleInv /\ LogInv /\ [Next]_vars => (TypeOK /\ IdleInv /\ LogInv)'
  BY TypeStep, IdleStep, LogStep
<1> QED
  BY <1>1, <1>2, PTL DEF Spec

(* As long as neither the mode changes nor /clear cuts the log behind the  *)
(* turns' positions, and no command runs beside a run, a rewind takes the  *)
(* turns it undoes out of the log to the last event, and nothing of the    *)
(* turns that stay, also after redos; whatever is written to the files.    *)
THEOREM RewindsAreExact ==
  ASSUME Notes = FALSE, Clears = FALSE, CommandsMidRun = FALSE
  PROVE  Spec => RewindExact
<1>1. ASSUME TypeOK, LogInv, [Next]_vars, Rewinds
      PROVE  Of(store', Rewound) = <<>> /\ Of(store', Kept) = Of(store, Kept)
  <2> DEFINE m == Len(stack)
             b == Len(store)
  <2>1. PICK n \in 1..m :
          /\ RewindTo(n) /\ Len(stack') = n - 1
          /\ DOMAIN stack' = 1..(n - 1) /\ \A j \in 1..(n - 1) : stack'[j] = stack[j]
    BY <1>1, RewindsAre
  <2> DEFINE index == stack[n].eventIndex
  <2>2. /\ stack \in Seq(TurnType) /\ store \in Seq(EventType) /\ m \in Nat /\ b \in Nat
        /\ DOMAIN store = 1..b /\ prompts \in Nat
    BY <1>1, LenProperties, HistoryAssumption DEF TypeOK
  <2>3. /\ \A j \in 1..m : stack[j].eventIndex \in 0..b /\ stack[j].prompt \in 1..prompts
        /\ \A i, j \in 1..m : i < j => stack[i].prompt < stack[j].prompt
        /\ \A x \in 1..b : store[x].ids # <<>> =>
             /\ store[x].ids[1] \in 1..prompts
             /\ \A j \in 1..m : x <= stack[j].eventIndex <=> store[x].ids[1] < stack[j].prompt
    <3>1. Sent(stack, prompts) /\ Stamped(store, prompts) /\ Dated(stack, store, 0)
      BY <1>1 DEF LogInv
    <3>2. 0 + b = b /\ \A x \in 1..b : 0 + x = x
      BY <2>2
    <3> QED
      BY <3>1, <3>2 DEF Sent, Stamped, Dated
  <2>4. index \in 0..b /\ store' = Rewind(store, index)
    BY <2>1, <2>3 DEF RewindTo
  <2> HIDE DEF index, b
  <2>5. /\ store' \in Seq(EventType) /\ Len(store') = index
        /\ \A x \in 1..index : store'[x] = store[x]
    <3>1. index \in 0..Len(store) /\ index \in Nat
      BY <2>2, <2>4 DEF b
    <3>2. Len(Rewind(store, index)) = index /\ \A x \in 1..index : Rewind(store, index)[x] = store[x]
      BY <2>2, <3>1, LogSplit
    <3>3. Rewind(store, index) \in Seq(EventType)
      BY <2>2, <3>1, RewindLog
    <3> QED
      BY <2>4, <3>2, <3>3
  <2>6. DOMAIN store' = 1..index /\ \A x \in 1..index : x \in 1..b
    BY <2>2, <2>4, <2>5, LenProperties
  <2>7. \A x \in 1..b : store[x].ids # <<>> =>
          (x <= index <=> store[x].ids[1] < stack[n].prompt)
    BY <2>1, <2>3 DEF index
  <2> HIDE DEF m
  <2>8. ASSUME NEW x \in 1..index, store[x].ids # <<>> PROVE store[x].ids[1] \notin Rewound
    <3> SUFFICES ASSUME NEW i \in (Len(stack') + 1)..Len(stack), store[x].ids[1] = stack[i].prompt
                 PROVE  FALSE
      BY DEF Rewound
    <3>1. i \in n..m /\ i \in 1..m
      BY <2>1, <2>2 DEF m
    <3>2. x \in 1..b /\ x <= index
      BY <2>4, <2>6
    <3>3. store[x].ids[1] < stack[n].prompt
      BY <2>7, <2>8, <3>2
    <3>4. CASE i = n
      BY <2>3, <3>1, <3>3, <3>4
    <3>5. CASE i # n
      <4>1. n < i
        BY <2>2, <3>1, <3>5
      <4>2. stack[n].prompt < stack[i].prompt /\ stack[n].prompt \in 1..prompts
        BY <2>3, <3>1, <4>1
      <4>3. stack[i].prompt \in 1..prompts
        BY <2>3, <3>1
      <4> QED
        BY <3>3, <4>2, <4>3
    <3> QED
      BY <3>4, <3>5
  <2>9. ASSUME NEW x \in 1..b, store[x].ids # <<>>, store[x].ids[1] \in Kept
        PROVE  x \in 1..index
    <3>1. PICK i \in 1..(n - 1) : store[x].ids[1] = stack[i].prompt
      BY <2>1, <2>9 DEF Kept
    <3>2. i \in 1..m /\ i < n
      BY <2>2
    <3>3. store[x].ids[1] < stack[n].prompt
      BY <2>3, <3>1, <3>2
    <3>4. x <= index
      BY <2>7, <2>9, <3>3
    <3> QED
      BY <2>4, <3>4
  <2>10. Of(store', Rewound) = <<>>
    <3>1. {i \in DOMAIN store' : store'[i].ids # <<>> /\ store'[i].ids[1] \in Rewound} = {}
      BY <2>5, <2>6, <2>8
    <3> QED
      BY <3>1 DEF Of, Restrict
  <2>11. Of(store', Kept) = Of(store, Kept)
    <3> DEFINE new == {i \in DOMAIN store' : store'[i].ids # <<>> /\ store'[i].ids[1] \in Kept}
               old == {i \in DOMAIN store : store[i].ids # <<>> /\ store[i].ids[1] \in Kept}
    <3>1. new = old
      BY <2>2, <2>5, <2>6, <2>9
    <3>2. \A i \in new : store'[i] = store[i]
      BY <2>5, <2>6
    <3>3. Of(store', Kept) = [i \in new |-> store'[i]] /\ Of(store, Kept) = [i \in old |-> store[i]]
      BY DEF Of, Restrict
    <3> HIDE DEF new, old
    <3> QED
      BY <3>1, <3>2, <3>3
  <2> QED
    BY <2>10, <2>11
<1>2. TypeOK /\ LogInv /\ [Next]_vars
        => [Rewinds => Of(store', Rewound) = <<>> /\ Of(store', Kept) = Of(store, Kept)]_vars
  BY <1>1
<1> QED
  BY <1>2, LogInvariant, PTL DEF Spec, RewindExact

-----------------------------------------------------------------------------
(* Prompts come first.  The prompt of "ids" is in the log l; and before    *)
(* each event of it.                                                       *)
Asked(l, ids) == \E j \in 1..Len(l) : l[j] = Event("user_message", ids)
Led(l) ==
  \A i \in 1..Len(l) :
    l[i].ids # <<>> => \E j \in 1..i : l[j] = Event("user_message", l[i].ids)

(* The same of events z that come after the log l. *)
LedAfter(l, z) ==
  \A i \in 1..Len(z) :
    z[i].ids # <<>> => \/ \E j \in 1..i : z[j] = Event("user_message", z[i].ids)
                       \/ Asked(l, z[i].ids)

(* What rewinds cut off need not be led by the log alone: the prompt may   *)
(* be in what a later rewind, to be redone first, cut off.                 *)
AskedAbove(u, k, ids) == \E m \in 1..Len(u) : m > k /\ Asked(u[m].events, ids)

LedCut(u, k, l) ==
  \A i \in 1..Len(u[k].events) :
    LET z == u[k].events
    IN  z[i].ids # <<>> => \/ \E j \in 1..i : z[j] = Event("user_message", z[i].ids)
                           \/ AskedAbove(u, k, z[i].ids)
                           \/ Asked(l, z[i].ids)

PromptsInv ==
  /\ Led(store) /\ (running => Asked(store, <<prompts>>))
  /\ \A k \in 1..Len(undone) : LedCut(undone, k, store)

LEMMA JoinedLog ==
  ASSUME NEW E, NEW a \in Seq(E), NEW z \in Seq(E)
  PROVE  /\ Len(a) \in Nat /\ Len(z) \in Nat /\ Len(a \o z) = Len(a) + Len(z)
         /\ \A i \in 1..Len(a) : (a \o z)[i] = a[i]
         /\ \A i \in 1..Len(z) : (a \o z)[Len(a) + i] = z[i]
<1>1. /\ Len(a) \in Nat /\ Len(z) \in Nat /\ Len(a \o z) = Len(a) + Len(z)
      /\ \A i \in 1..(Len(a) + Len(z)) :
           (a \o z)[i] = IF i <= Len(a) THEN a[i] ELSE z[i - Len(a)]
  BY ConcatProperties, LenProperties
<1>2. ASSUME NEW i \in 1..Len(a) PROVE (a \o z)[i] = a[i]
  <2>1. i \in 1..(Len(a) + Len(z)) /\ i <= Len(a)
    BY <1>1
  <2> QED
    BY <1>1, <2>1
<1>3. ASSUME NEW i \in 1..Len(z) PROVE (a \o z)[Len(a) + i] = z[i]
  <2> DEFINE x == Len(a) + i
  <2>1. x \in 1..(Len(a) + Len(z)) /\ ~(x <= Len(a)) /\ x - Len(a) = i
    BY <1>1
  <2> HIDE DEF x
  <2>2. (a \o z)[x] = z[i]
    BY <1>1, <2>1
  <2> QED
    BY <2>2 DEF x
<1> QED
  BY <1>1, <1>2, <1>3

(* A prompt in the whole is in one of the parts, and conversely. *)
LEMMA AskedJoin ==
  ASSUME NEW E, NEW a \in Seq(E), NEW z \in Seq(E), NEW ids
  PROVE  Asked(a \o z, ids) <=> Asked(a, ids) \/ Asked(z, ids)
<1> DEFINE w == a \o z
           n == Len(a)
           e == Event("user_message", ids)
<1>1. /\ n \in Nat /\ Len(z) \in Nat /\ Len(w) = n + Len(z)
      /\ \A i \in 1..n : w[i] = a[i]
      /\ \A i \in 1..Len(z) : w[n + i] = z[i]
  BY JoinedLog
<1>a. /\ Asked(w, ids) <=> \E j \in 1..Len(w) : w[j] = e
      /\ Asked(a, ids) <=> \E j \in 1..n : a[j] = e
      /\ Asked(z, ids) <=> \E j \in 1..Len(z) : z[j] = e
  BY DEF Asked
<1> HIDE DEF w, n, e
<1>2. ASSUME NEW j \in 1..Len(w), w[j] = e PROVE Asked(a, ids) \/ Asked(z, ids)
  <2>1. CASE j <= n
    <3>1. j \in 1..n
      BY <1>1, <2>1
    <3> QED
      BY <1>1, <1>2, <1>a, <3>1
  <2>2. CASE ~(j <= n)
    <3>1. j - n \in 1..Len(z) /\ n + (j - n) = j
      BY <1>1, <2>2
    <3>2. w[j] = z[j - n]
      BY <1>1, <3>1
    <3> QED
      BY <1>2, <1>a, <3>1, <3>2
  <2> QED
    BY <2>1, <2>2
<1>3. ASSUME NEW j \in 1..n, a[j] = e PROVE Asked(w, ids)
  <2>1. j \in 1..Len(w) /\ w[j] = e
    BY <1>1, <1>3
  <2> QED
    BY <1>a, <2>1
<1>4. ASSUME NEW j \in 1..Len(z), z[j] = e PROVE Asked(w, ids)
  <2>1. n + j \in 1..Len(w) /\ w[n + j] = e
    BY <1>1, <1>4
  <2> QED
    BY <1>a, <2>1
<1> QED
  BY <1>2, <1>3, <1>4, <1>a DEF w

(* A log is led exactly if its beginning is, and what follows it there. *)
LEMMA LedJoin ==
  ASSUME NEW E, NEW a \in Seq(E), NEW z \in Seq(E)
  PROVE  Led(a \o z) <=> Led(a) /\ LedAfter(a, z)
<1> DEFINE w == a \o z
           n == Len(a)
           e(ids) == Event("user_message", ids)
<1>1. /\ n \in Nat /\ Len(z) \in Nat /\ Len(w) = n + Len(z)
      /\ \A i \in 1..n : w[i] = a[i]
      /\ \A i \in 1..Len(z) : w[n + i] = z[i]
  BY JoinedLog
<1>a. Led(w) <=> \A i \in 1..Len(w) : w[i].ids # <<>> => \E j \in 1..i : w[j] = e(w[i].ids)
  BY DEF Led
<1>b. Led(a) <=> \A i \in 1..n : a[i].ids # <<>> => \E j \in 1..i : a[j] = e(a[i].ids)
  BY DEF Led
<1>c. LedAfter(a, z) <=>
        \A i \in 1..Len(z) : z[i].ids # <<>> => \/ \E j \in 1..i : z[j] = e(z[i].ids)
                                               \/ \E j \in 1..n : a[j] = e(z[i].ids)
  BY DEF LedAfter, Asked
<1> HIDE DEF w, n, e
<1>2. ASSUME Led(w) PROVE Led(a)
  <2>1. ASSUME NEW i \in 1..n, a[i].ids # <<>> PROVE \E j \in 1..i : a[j] = e(a[i].ids)
    <3>1. i \in 1..Len(w) /\ w[i] = a[i] /\ 1..i \subseteq 1..n
      BY <1>1
    <3>2. PICK j \in 1..i : w[j] = e(w[i].ids)
      BY <1>2, <1>a, <2>1, <3>1
    <3> QED
      BY <1>1, <3>1, <3>2
  <2> QED
    BY <1>b, <2>1
<1>3. ASSUME Led(w) PROVE LedAfter(a, z)
  <2>1. ASSUME NEW i \in 1..Len(z), z[i].ids # <<>>
        PROVE  \/ \E j \in 1..i : z[j] = e(z[i].ids)
               \/ \E j \in 1..n : a[j] = e(z[i].ids)
    <3>1. n + i \in 1..Len(w) /\ w[n + i] = z[i]
      BY <1>1
    <3>2. PICK j \in 1..(n + i) : w[j] = e(z[i].ids)
      BY <1>3, <1>a, <2>1, <3>1
    <3>3. CASE j <= n
      <4>1. j \in 1..n
        BY <1>1, <3>3
      <4> QED
        BY <1>1, <3>2, <4>1
    <3>4. CASE ~(j <= n)
      <4>1. j - n \in 1..i /\ j - n \in 1..Len(z) /\ n + (j - n) = j
        BY <1>1, <3>4
      <4>2. w[j] = z[j - n]
        BY <1>1, <4>1
      <4> QED
        BY <3>2, <4>1, <4>2
    <3> QED
      BY <3>3, <3>4
  <2> QED
    BY <1>c, <2>1
<1>4. ASSUME Led(a), LedAfter(a, z) PROVE Led(w)
  <2>1. ASSUME NEW i \in 1..Len(w), w[i].ids # <<>> PROVE \E j \in 1..i : w[j] = e(w[i].ids)
    <3>1. CASE i <= n
      <4>1. i \in 1..n /\ w[i] = a[i] /\ 1..i \subseteq 1..n
        BY <1>1, <3>1
      <4>2. PICK j \in 1..i : a[j] = e(a[i].ids)
        BY <1>4, <1>b, <2>1, <4>1
      <4> QED
        BY <1>1, <4>1, <4>2
    <3>2. CASE ~(i <= n)
      <4>1. i - n \in 1..Len(z) /\ n + (i - n) = i /\ 1..n \subseteq 1..i
        BY <1>1, <3>2
      <4>2. w[i] = z[i - n]
        BY <1>1, <4>1
      <4>3. CASE \E j \in 1..(i - n) : z[j] = e(w[i].ids)
        <5>1. PICK j \in 1..(i - n) : z[j] = e(w[i].ids)
          BY <4>3
        <5>2. n + j \in 1..i /\ j \in 1..Len(z)
          BY <1>1, <4>1
        <5>3. w[n + j] = e(w[i].ids)
          BY <1>1, <5>1, <5>2
        <5> QED
          BY <5>2, <5>3
      <4>4. CASE \E j \in 1..n : a[j] = e(w[i].ids)
        BY <1>1, <4>1, <4>4
      <4> QED
        BY <1>4, <1>c, <2>1, <4>1, <4>2, <4>3, <4>4
    <3> QED
      BY <3>1, <3>2
  <2> QED
    BY <1>a, <2>1
<1> QED
  BY <1>2, <1>3, <1>4 DEF w

(* What a rewind cut off stays led when each prompt asked in the log, or   *)
(* in what later rewinds cut off, still is in one of them.                 *)
LEMMA LedCutStays ==
  ASSUME NEW u, NEW v, NEW k, NEW l, NEW m, LedCut(u, k, l), v[k] = u[k],
         \A ids : AskedAbove(u, k, ids) \/ Asked(l, ids) => AskedAbove(v, k, ids) \/ Asked(m, ids)
  PROVE  LedCut(v, k, m)
  BY DEF LedCut

(* An event is appended: a prompt, or one of a turn whose prompt is there. *)
LEMMA PromptsAppend ==
  ASSUME TypeOK, PromptsInv, NEW e \in EventType, store' = Append(store, e),
         e.ids = <<>> \/ e = Event("user_message", e.ids) \/ Asked(store, e.ids),
         undone' = <<>> \/ undone' = undone,
         running' => \/ Asked(store, <<prompts'>>)
                     \/ e = Event("user_message", <<prompts'>>)
  PROVE  PromptsInv'
<1> DEFINE z == <<e>>
<1>1. store \in Seq(EventType) /\ z \in Seq(EventType) /\ store' = store \o z
  BY DEF TypeOK
<1>2. Len(z) = 1 /\ z[1] = e
  OBVIOUS
<1> HIDE DEF z
<1>3. Led(store)
  BY DEF PromptsInv
<1>4. LedAfter(store, z)
  BY <1>2 DEF LedAfter
<1>5. Led(store')
  BY <1>1, <1>3, <1>4, LedJoin
<1>6. \A ids : Asked(store', ids) <=> Asked(store, ids) \/ Asked(z, ids)
  BY <1>1, AskedJoin
<1>7. running' => Asked(store', <<prompts'>>)
  <2>1. e = Event("user_message", <<prompts'>>) => Asked(z, <<prompts'>>)
    BY <1>2 DEF Asked
  <2> QED
    BY <1>6, <2>1
<1>8. ASSUME NEW k \in 1..Len(undone') PROVE LedCut(undone', k, store')
  <2>1. CASE undone' = <<>>
    BY <2>1, EmptySeq
  <2>2. CASE undone' = undone
    <3>1. LedCut(undone, k, store)
      BY <2>2 DEF PromptsInv
    <3>2. LedCut(undone, k, store')
      BY <1>6, <3>1, LedCutStays
    <3> QED
      BY <2>2, <3>2
  <2> QED
    BY <2>1, <2>2
<1> QED
  BY <1>5, <1>7, <1>8 DEF PromptsInv

LEMMA PromptsRewind ==
  ASSUME TypeOK, PromptsInv, ~running, NEW n \in 1..Len(stack), RewindTo(n)
  PROVE  PromptsInv'
<1> DEFINE h == Len(undone)
<1>1. PICK u \in RewindType :
        /\ undone' = Append(undone, u) /\ store' \in Seq(EventType)
        /\ store' \o u.events = store
  BY RewindParts
<1> DEFINE z == u.events
<1>2. z \in Seq(EventType) /\ undone \in Seq(RewindType) /\ h \in Nat
  BY LenProperties DEF RewindType, TypeOK
<1>3. /\ Len(undone') = h + 1 /\ undone'[h + 1] = u
      /\ \A k \in 1..h : undone'[k] = undone[k]
  BY <1>1, <1>2, AppendProperties
<1> HIDE DEF h
<1>4. undone'[h + 1].events = z
  BY <1>3
<1> HIDE DEF z
<1>5. Led(store') /\ LedAfter(store', z)
  <2>1. Led(store' \o z)
    BY <1>1 DEF PromptsInv, z
  <2> QED
    BY <1>1, <1>2, <2>1, LedJoin
<1>6. \A ids : Asked(store, ids) <=> Asked(store', ids) \/ Asked(z, ids)
  <2>1. store = store' \o z
    BY <1>1 DEF z
  <2> QED
    BY <1>1, <1>2, <2>1, AskedJoin
<1>7. ASSUME NEW k \in 1..h PROVE LedCut(undone', k, store')
  <2>1. LedCut(undone, k, store) /\ undone'[k] = undone[k]
    BY <1>3 DEF PromptsInv, h
  <2>2. ASSUME NEW ids, Asked(z, ids) PROVE AskedAbove(undone', k, ids)
    <3>1. h + 1 \in 1..Len(undone') /\ h + 1 > k
      BY <1>2, <1>3
    <3> QED
      BY <1>4, <2>2, <3>1 DEF AskedAbove
  <2>3. ASSUME NEW ids, AskedAbove(undone, k, ids) PROVE AskedAbove(undone', k, ids)
    <3>1. PICK m \in 1..h : m > k /\ Asked(undone[m].events, ids)
      BY <2>3 DEF AskedAbove, h
    <3>2. m \in 1..Len(undone') /\ undone'[m] = undone[m]
      BY <1>2, <1>3
    <3> QED
      BY <3>1, <3>2 DEF AskedAbove
  <2>4. \A ids : AskedAbove(undone, k, ids) \/ Asked(store, ids)
                  => AskedAbove(undone', k, ids) \/ Asked(store', ids)
    BY <1>6, <2>2, <2>3
  <2> QED
    BY <2>1, <2>4, LedCutStays
<1>8. LedCut(undone', h + 1, store')
  BY <1>4, <1>5 DEF LedCut, LedAfter
<1>9. ~running'
  BY DEF RewindTo
<1>10. \A k \in 1..Len(undone') : k \in 1..h \/ k = h + 1
  BY <1>2, <1>3
<1> QED
  BY <1>5, <1>7, <1>8, <1>9, <1>10 DEF PromptsInv

LEMMA PromptsRedo ==
  ASSUME TypeOK, PromptsInv, ~running, Redo
  PROVE  PromptsInv'
<1> DEFINE h == Len(undone)
           z == undone[h].events
<1>1. /\ undone # <<>> /\ undone' = Front(undone) /\ ~running'
      /\ store' = store \o Last(undone).events
  BY DEF Redo
<1>2. /\ h \in Nat \ {0} /\ Last(undone) = undone[h] /\ undone[h] \in RewindType
      /\ Len(undone') = h - 1 /\ \A k \in 1..(h - 1) : undone'[k] = undone[k]
  BY <1>1, LastRewind DEF TypeOK
<1>3. store \in Seq(EventType) /\ z \in Seq(EventType) /\ store' = store \o z
  BY <1>1, <1>2 DEF RewindType, TypeOK
<1>4. Led(store) /\ \A k \in 1..h : LedCut(undone, k, store)
  BY DEF PromptsInv
<1>5. LedAfter(store, z)
  <2>1. h \in 1..h /\ \A ids : ~AskedAbove(undone, h, ids)
    BY <1>2 DEF AskedAbove
  <2>2. LedCut(undone, h, store)
    BY <1>4, <2>1
  <2> QED
    BY <2>1, <2>2 DEF LedCut, LedAfter
<1>6. \A ids : Asked(z, ids) => Asked(undone[h].events, ids)
  OBVIOUS
<1>7. \A k \in 1..Len(undone) : k \in 1..h
  OBVIOUS
<1> HIDE DEF z
<1>8. Led(store') /\ \A ids : Asked(store', ids) <=> Asked(store, ids) \/ Asked(z, ids)
  BY <1>3, <1>4, <1>5, LedJoin, AskedJoin
<1>9. ASSUME NEW k \in 1..Len(undone') PROVE LedCut(undone', k, store')
  <2>1. k \in 1..h /\ k \in 1..(h - 1) /\ undone'[k] = undone[k]
    BY <1>2
  <2>2. LedCut(undone, k, store)
    BY <1>4, <2>1
  <2>3. ASSUME NEW ids, AskedAbove(undone, k, ids)
        PROVE  AskedAbove(undone', k, ids) \/ Asked(store', ids)
    <3>1. PICK m \in 1..h : m > k /\ Asked(undone[m].events, ids)
      BY <2>3 DEF AskedAbove
    <3>2. CASE m = h
      BY <1>8, <3>1, <3>2 DEF z
    <3>3. CASE m # h
      <4>1. m \in 1..(h - 1)
        <5> HIDE DEF h
        <5> QED
          BY <1>2, <3>1, <3>3
      <4>2. m \in 1..Len(undone') /\ undone'[m] = undone[m]
        BY <1>2, <4>1
      <4> QED
        BY <3>1, <4>2 DEF AskedAbove
    <3> QED
      BY <3>2, <3>3
  <2>4. \A ids : AskedAbove(undone, k, ids) \/ Asked(store, ids)
                  => AskedAbove(undone', k, ids) \/ Asked(store', ids)
    BY <1>8, <2>3
  <2> QED
    BY <2>1, <2>2, <2>4, LedCutStays
<1> QED
  BY <1>1, <1>8, <1>9 DEF PromptsInv

LEMMA PromptsInit == Init => PromptsInv
<1> SUFFICES ASSUME Init PROVE PromptsInv
  OBVIOUS
<1>1. undone = <<>> /\ store = <<Plain("session_start")>> /\ running = FALSE
  BY DEF Init
<1>2. 1..Len(undone) = {}
  BY <1>1, EmptySeq
<1>3. \A x \in 1..Len(store) : store[x].ids = <<>>
  BY <1>1 DEF Plain, Event
<1> QED
  BY <1>1, <1>2, <1>3 DEF PromptsInv, Led

LEMMA PromptsStep ==
  ASSUME Clears = FALSE, CommandsMidRun = FALSE
  PROVE  TypeOK /\ IdleInv /\ PromptsInv /\ [Next]_vars => PromptsInv'
<1> SUFFICES ASSUME TypeOK, IdleInv, PromptsInv, [Next]_vars PROVE PromptsInv'
  OBVIOUS
<1>0. prompts \in Nat
  BY HistoryAssumption DEF TypeOK
<1>1. CASE Prompt
  <2> DEFINE e == Event("user_message", <<prompts'>>)
  <2>1. store' = Append(store, e) /\ undone' = <<>> /\ prompts' \in Nat
    BY <1>0, <1>1 DEF Prompt
  <2>2. e \in EventType /\ e.ids = <<prompts'>>
    <3>1. "user_message" \in EventTypes
      BY DEF EventTypes
    <3> QED
      BY <2>1, <3>1, EventIsEvent DEF Event
  <2>3. e = Event("user_message", e.ids)
    BY <2>2
  <2> HIDE DEF e
  <2> QED
    BY <2>1, <2>2, <2>3, PromptsAppend DEF e
<1>e. ASSUME NEW type \in EventTypes, store' = Append(store, Event(type, <<prompts>>)),
             running, UNCHANGED <<undone, prompts>>
      PROVE  PromptsInv'
  <2> DEFINE e == Event(type, <<prompts>>)
  <2>1. e \in EventType /\ e.ids = <<prompts>>
    BY <1>0, EventIsEvent DEF Event
  <2>2. Asked(store, e.ids) /\ Asked(store, <<prompts'>>)
    BY <1>e, <2>1 DEF PromptsInv
  <2>3. store' = Append(store, e)
    BY <1>e
  <2> HIDE DEF e
  <2> QED
    BY <1>e, <2>1, <2>2, <2>3, PromptsAppend
<1>2. ASSUME NEW p \in Paths, NEW c, Write(p, c) PROVE PromptsInv'
  <2>1. running /\ "tool_result" \in EventTypes
    BY <1>2 DEF Write, IdleInv, EventTypes
  <2> QED
    BY <1>2, <1>e, <2>1 DEF Write
<1>3. ASSUME NEW p \in Paths, NEW c, WriteElse(p, c) PROVE PromptsInv'
  <2>1. running /\ "tool_result" \in EventTypes
    BY <1>3 DEF WriteElse, EventTypes
  <2> QED
    BY <1>3, <1>e, <2>1 DEF WriteElse
<1>4. CASE Refuse
  <2>1. running /\ "tool_result" \in EventTypes
    BY <1>4 DEF Refuse, IdleInv, EventTypes
  <2> QED
    BY <1>4, <1>e, <2>1 DEF Refuse
<1>5. CASE Answer
  <2>1. running /\ "assistant_message" \in EventTypes
    BY <1>5 DEF Answer, EventTypes
  <2> QED
    BY <1>5, <1>e, <2>1 DEF Answer
<1>6. CASE Note
  <2> DEFINE e == Plain("mode_change")
  <2>1. e \in EventType /\ e.ids = <<>>
    <3>1. "mode_change" \in EventTypes
      BY DEF EventTypes
    <3> QED
      BY <1>0, <3>1, EventIsEvent DEF Plain, Event
  <2>2. store' = Append(store, e) /\ UNCHANGED undone /\ ~running'
    BY <1>6 DEF Note, AtPrompt
  <2> HIDE DEF e
  <2> QED
    BY <2>1, <2>2, PromptsAppend
<1>7. CASE RewindTurns
  <2>1. PICK n \in DOMAIN stack : RewindTo(n) /\ ~running
    BY <1>7 DEF RewindTurns, AtPrompt
  <2>2. DOMAIN stack = 1..Len(stack)
    BY LenProperties DEF TypeOK
  <2> QED
    BY <2>1, <2>2, PromptsRewind
<1>8. CASE Redo
  <2>1. ~running
    BY <1>8 DEF Redo, AtPrompt
  <2> QED
    BY <1>8, <2>1, PromptsRedo
<1>9. CASE (\E p \in Paths : BeforeTool(p)) \/ UNCHANGED vars
  <2>1. UNCHANGED <<store, undone, prompts, running>>
    BY <1>9 DEF BeforeTool, vars
  <2> QED
    BY <2>1 DEF PromptsInv
<1>10. ~Clear
  BY DEF Clear
<1> QED
  BY <1>1, <1>2, <1>3, <1>4, <1>5, <1>6, <1>7, <1>8, <1>9, <1>10 DEF Next

(* As long as no command runs beside a run and /clear is not used, what is *)
(* in the log of a turn comes after the turn's prompt, through rewinds and *)
(* redos of any number of turns, also of rewinds a change of mode came     *)
(* between: a redo never brings back an answer without its question.       *)
THEOREM TurnsAreLed ==
  ASSUME Clears = FALSE, CommandsMidRun = FALSE
  PROVE  Spec => []TurnsBeginWithPrompts
<1>1. Init => TypeOK /\ IdleInv /\ PromptsInv
  BY InitType, FilesInit, PromptsInit
<1>2. TypeOK /\ IdleInv /\ PromptsInv /\ [Next]_vars => (TypeOK /\ IdleInv /\ PromptsInv)'
  BY TypeStep, IdleStep, PromptsStep
<1>3. TypeOK /\ PromptsInv => TurnsBeginWithPrompts
  <2>1. TypeOK => DOMAIN store = 1..Len(store)
    BY LenProperties DEF TypeOK
  <2> QED
    BY <2>1 DEF PromptsInv, Led, TurnsBeginWithPrompts
<1> QED
  BY <1>1, <1>2, <1>3, PTL DEF Spec

-----------------------------------------------------------------------------
(* How many turns there are. *)

(* With n turns to rewind, there are h[k] of them once all but k of the    *)
(* rewinds u are redone.                                                   *)
Heights(h, u, n) ==
  /\ h \in [0..Len(u) -> 0..MaxTurns] /\ h[Len(u)] = n
  /\ \A k \in 1..Len(u) : h[k - 1] = h[k] + Len(u[k].turns)

HeightInv == \E h : Heights(h, undone, Len(stack))

LEMMA HeightInit == Init => HeightInv
<1> SUFFICES ASSUME Init PROVE HeightInv
  OBVIOUS
<1> DEFINE h == [k \in 0..0 |-> 0]
<1>1. stack = <<>> /\ undone = <<>> /\ MaxTurns \in Nat
  BY HistoryAssumption DEF Init
<1>2. Len(stack) = 0 /\ Len(undone) = 0
  BY <1>1, EmptySeq
<1>3. Heights(h, undone, Len(stack))
  BY <1>1, <1>2 DEF Heights
<1> QED
  BY <1>3 DEF HeightInv

LEMMA HeightStep == TypeOK /\ HeightInv /\ [Next]_vars => HeightInv'
<1> SUFFICES ASSUME TypeOK, HeightInv, [Next]_vars PROVE HeightInv'
  OBVIOUS
<1> DEFINE l == Len(undone)
<1>0. /\ stack \in Seq(TurnType) /\ undone \in Seq(RewindType) /\ l \in Nat
      /\ Len(stack) \in Nat /\ MaxTurns \in Nat \ {0}
  BY LenProperties, HistoryAssumption DEF TypeOK
<1>1. PICK h : Heights(h, undone, Len(stack))
  BY DEF HeightInv
<1>2. /\ h \in [0..l -> 0..MaxTurns] /\ h[l] = Len(stack)
      /\ \A k \in 1..l : h[k - 1] = h[k] + Len(undone[k].turns)
  BY <1>1 DEF Heights
<1> HIDE DEF l
<1>3. Len(stack) <= MaxTurns
  BY <1>0, <1>2
<1>4. ASSUME Len(stack') = Len(stack), undone' = undone PROVE HeightInv'
  BY <1>1, <1>4 DEF HeightInv, Heights
<1>5. CASE Prompt
  <2> DEFINE turn == Turn(Len(store), prompts', NoFiles)
             g    == [k \in 0..0 |-> Len(stack')]
  <2>1. stack' = KeptTurns(Append(stack, turn)) /\ undone' = <<>> /\ prompts' = prompts + 1
    BY <1>5 DEF Prompt
  <2>2. turn \in TurnType
    <3>1. prompts' \in Nat /\ Len(store) \in Nat
      BY <2>1, LenProperties, HistoryAssumption DEF TypeOK
    <3>2. NoFiles \in [{} -> Contents]
      BY DEF NoFiles
    <3>3. NoFiles \in Captures
      BY <3>2 DEF Captures
    <3> QED
      BY <3>1, <3>3 DEF Turn, TurnType
  <2> HIDE DEF turn
  <2>3. Len(stack') = Len(stack) + 1 - (IF Len(stack) + 1 > MaxTurns THEN 1 ELSE 0)
    BY <1>0, <2>1, <2>2, BeginTurn
  <2>4. Len(stack') \in 0..MaxTurns
    BY <1>0, <1>3, <2>3
  <2>5. Len(undone') = 0
    BY <2>1, EmptySeq
  <2>6. Heights(g, undone', Len(stack'))
    BY <2>4, <2>5 DEF Heights
  <2> QED
    BY <2>6 DEF HeightInv
<1>6. ASSUME NEW p \in Paths, BeforeTool(p) PROVE HeightInv'
  <2>1. files \in Projects
    BY DEF TypeOK, Projects
  <2>2. Len(stack') = Len(stack) /\ undone' = undone
    BY <1>0, <1>6, <2>1, CaptureStack DEF BeforeTool
  <2> QED
    BY <1>4, <2>2
<1>7. CASE RewindTurns
  <2>1. PICK n \in 1..Len(stack) : RewindTo(n)
    BY <1>0, <1>7, LenProperties DEF RewindTurns
  <2>2. PICK u \in RewindType :
          /\ undone' = Append(undone, u) /\ u.turns = SubSeq(stack, n, Len(stack))
          /\ stack' = SubSeq(stack, 1, n - 1)
    BY <2>1, RewindParts
  <2>3. Len(stack') = n - 1 /\ Len(u.turns) = Len(stack) - n + 1
    BY <1>0, <2>2, StackSplit
  <2>4. /\ Len(undone') = l + 1 /\ undone'[l + 1] = u
        /\ \A k \in 1..l : undone'[k] = undone[k]
    BY <1>0, <2>2, AppendProperties DEF l
  <2> DEFINE g == [k \in 0..(l + 1) |-> IF k = l + 1 THEN n - 1 ELSE h[k]]
  <2>5. g \in [0..(l + 1) -> 0..MaxTurns] /\ g[l + 1] = n - 1
    <3> SUFFICES ASSUME NEW k \in 0..(l + 1), k # l + 1 PROVE h[k] \in 0..MaxTurns
      BY <1>0, <1>3
    <3>1. k \in 0..l
      BY <1>0
    <3> QED
      BY <1>2, <3>1
  <2>6. ASSUME NEW k \in 1..(l + 1) PROVE g[k - 1] = g[k] + Len(undone'[k].turns)
    <3>1. CASE k = l + 1
      <4>1. k - 1 = l /\ l # l + 1 /\ l \in 0..(l + 1)
        BY <1>0, <3>1
      <4>2. g[k - 1] = Len(stack)
        BY <1>2, <4>1
      <4>3. g[k] = n - 1
        BY <3>1
      <4> HIDE DEF g
      <4> QED
        BY <1>0, <2>3, <2>4, <3>1, <4>2, <4>3
    <3>2. CASE k # l + 1
      <4>1. k \in 1..l /\ k - 1 \in 0..(l + 1) /\ k - 1 # l + 1
        BY <1>0, <3>2
      <4>2. g[k - 1] = h[k - 1] /\ g[k] = h[k]
        BY <3>2, <4>1
      <4> HIDE DEF g
      <4> QED
        BY <1>2, <2>4, <4>1, <4>2
    <3> QED
      BY <3>1, <3>2
  <2> HIDE DEF g
  <2>7. Heights(g, undone', Len(stack'))
    BY <2>3, <2>4, <2>5, <2>6 DEF Heights
  <2> QED
    BY <2>7 DEF HeightInv
<1>8. CASE Redo
  <2> DEFINE u == undone[l]
             g == [k \in 0..(l - 1) |-> h[k]]
  <2>1. /\ undone # <<>> /\ stack' = stack \o Last(undone).turns /\ undone' = Front(undone)
    BY <1>8 DEF Redo
  <2>2. /\ l \in Nat \ {0} /\ Last(undone) = u /\ u \in RewindType
        /\ Len(undone') = l - 1 /\ \A k \in 1..(l - 1) : undone'[k] = undone[k]
    BY <1>0, <2>1, LastRewind DEF l
  <2>3. u.turns \in Seq(TurnType)
    BY <2>2 DEF RewindType
  <2>4. Len(stack') = Len(stack) + Len(u.turns)
    BY <1>0, <2>1, <2>2, <2>3, ConcatProperties
  <2>5. /\ \A k \in 0..(l - 1) : k \in 0..l
        /\ \A k \in 1..(l - 1) : k \in 1..l /\ k \in 0..(l - 1) /\ k - 1 \in 0..(l - 1)
        /\ l \in 1..l /\ l - 1 \in 0..(l - 1)
    BY <2>2
  <2>6. g \in [0..(l - 1) -> 0..MaxTurns]
    BY <1>2, <2>5
  <2>7. g[l - 1] = Len(stack')
    BY <1>2, <2>4, <2>5
  <2>8. \A k \in 1..(l - 1) : g[k - 1] = g[k] + Len(undone'[k].turns)
    BY <1>2, <2>2, <2>5
  <2> HIDE DEF g, u
  <2>9. Heights(g, undone', Len(stack'))
    BY <2>2, <2>6, <2>7, <2>8 DEF Heights
  <2> QED
    BY <2>9 DEF HeightInv
<1>9. CASE Refuse \/ Answer \/ Note \/ Clear \/ UNCHANGED vars
  <2>1. Len(stack') = Len(stack) /\ undone' = undone
    BY <1>9 DEF Refuse, Answer, Note, Clear, vars
  <2> QED
    BY <1>4, <2>1
<1>10. ASSUME NEW p \in Paths, NEW c, Write(p, c) \/ WriteElse(p, c) PROVE HeightInv'
  <2>1. Len(stack') = Len(stack) /\ undone' = undone
    BY <1>10 DEF Write, WriteElse
  <2> QED
    BY <1>4, <2>1
<1> QED
  BY <1>5, <1>6, <1>7, <1>8, <1>9, <1>10 DEF Next

-----------------------------------------------------------------------------
(* The states that turns and rewinds stand for. *)

(* The projects b, and the log up to where each of the turns t began. *)
Snaps(t, l, b) ==
  [i \in 1..Len(t) |-> [files |-> b[t[i].prompt], log |-> SubSeq(l, 1, t[i].eventIndex)]]

LEMMA BeginningsAre ==
  ASSUME NEW t \in Seq(TurnType), NEW fs, NEW l, NEW b, Chain(t, fs, b)
  PROVE  Beginnings(t, fs, l) = Snaps(t, l, b)
<1>1. DOMAIN t = 1..Len(t) /\ Len(t) \in Nat
  BY LenProperties
<1>2. ASSUME NEW i \in 1..Len(t)
      PROVE  Undo(SubSeq(t, i, Len(t)), fs) = b[t[i].prompt]
  <2> DEFINE y == SubSeq(t, i, Len(t))
  <2>1. Chain(y, fs, b)
    BY ChainSplit
  <2>2. /\ y \in Seq(TurnType) /\ Len(y) = Len(t) - i + 1
        /\ \A j \in 1..(Len(t) - i + 1) : y[j] = t[i + j - 1]
    BY StackSplit
  <2> HIDE DEF y
  <2>3. 1 \in 1..(Len(t) - i + 1) /\ i + 1 - 1 = i /\ Len(y) # 0
    BY <1>1, <2>2
  <2>4. y # <<>> /\ y[1] = t[i]
    <3>1. y[1] = t[i + 1 - 1]
      BY <2>2, <2>3
    <3> QED
      BY <2>3, <3>1, EmptySeq
  <2>5. Undo(y, fs) = IF y = <<>> THEN fs ELSE b[y[1].prompt]
    BY <2>1, <2>2, ChainUndo
  <2> QED
    BY <2>4, <2>5 DEF y
<1> QED
  BY <1>1, <1>2 DEF Beginnings, Snaps

LEMMA AsSeq ==
  ASSUME NEW n \in Nat, NEW S, NEW f \in [1..n -> S]
  PROVE  f \in Seq(S) /\ Len(f) = n
OBVIOUS

(* Two sequences with the same elements. *)
LEMMA SameSeq ==
  ASSUME NEW S, NEW s \in Seq(S), NEW n \in Nat, NEW f, f = [i \in 1..n |-> f[i]],
         Len(s) = n, \A i \in 1..n : s[i] = f[i]
  PROVE  s = f
<1>1. s \in [1..n -> S]
  BY LenProperties
<1>2. s = [i \in 1..n |-> s[i]]
  BY <1>1
<1> QED
  BY <1>2

LEMMA SnapsSeq ==
  ASSUME NEW t, Len(t) \in Nat, NEW l, NEW b, NEW S,
         \A i \in 1..Len(t) : Snaps(t, l, b)[i] \in S
  PROVE  /\ Snaps(t, l, b) \in Seq(S) /\ Len(Snaps(t, l, b)) = Len(t)
         /\ DOMAIN Snaps(t, l, b) = 1..Len(t)
<1> DEFINE p == Snaps(t, l, b)
           n == Len(t)
<1>1. p = [i \in 1..n |-> p[i]]
  BY DEF Snaps
<1>2. (\A i \in 1..n : p[i] \in S) /\ n \in Nat
  OBVIOUS
<1> HIDE DEF p, n
<1>3. p \in [1..n -> S]
  BY <1>1, <1>2
<1>4. p \in Seq(S) /\ Len(p) = n
  BY <1>2, <1>3, AsSeq
<1> QED
  BY <1>3, <1>4 DEF p, n

(* What comes later does not change the beginning of a log. *)
LEMMA PrefixJoin ==
  ASSUME NEW E, NEW l \in Seq(E), NEW m \in Seq(E), NEW i \in 0..Len(l)
  PROVE  SubSeq(l \o m, 1, i) = SubSeq(l, 1, i)
<1> DEFINE s == l \o m
           c == Len(l)
<1>1. /\ Len(s) = c + Len(m) /\ s \in Seq(E) /\ c \in Nat /\ Len(m) \in Nat
      /\ \A j \in 1..(c + Len(m)) : s[j] = IF j <= c THEN l[j] ELSE m[j - c]
  BY ConcatProperties, LenProperties
<1>2. \A j \in 1..c : l[j] \in E
  BY ElementOfSeq
<1> HIDE DEF s, c
<1>3. i \in Nat /\ i <= c
  BY <1>1 DEF c
<1>4. \A j \in 1..i : s[j] = l[j] /\ l[j] \in E
  BY <1>1, <1>2, <1>3
<1>5. \A j \in 1..i : s[j] \in E
  BY <1>4
<1>6. i - 1 + 1 = i /\ (\A j \in 1..i : 1 + j - 1 = j) /\ 1 \in Int /\ i \in Int
  BY <1>3
<1>7. /\ SubSeq(l, 1, i) \in Seq(E)
      /\ Len(SubSeq(l, 1, i)) = IF 1 <= i THEN i - 1 + 1 ELSE 0
      /\ \A j \in 1..(i - 1 + 1) : SubSeq(l, 1, i)[j] = l[1 + j - 1]
  BY <1>4, <1>6, SubSeqProperties
<1>8. /\ SubSeq(s, 1, i) \in Seq(E)
      /\ Len(SubSeq(s, 1, i)) = IF 1 <= i THEN i - 1 + 1 ELSE 0
      /\ \A j \in 1..(i - 1 + 1) : SubSeq(s, 1, i)[j] = s[1 + j - 1]
  BY <1>5, <1>6, SubSeqProperties
<1> DEFINE x == SubSeq(s, 1, i)
           y == SubSeq(l, 1, i)
<1>9. (IF 1 <= i THEN i - 1 + 1 ELSE 0) = i
  BY <1>3
<1> HIDE DEF x, y
<1>10. Len(x) = i /\ Len(y) = i /\ x \in Seq(E) /\ y \in Seq(E)
  BY <1>7, <1>8, <1>9 DEF x, y
<1>11. \A j \in 1..i : x[j] = s[j] /\ y[j] = l[j]
  BY <1>6, <1>7, <1>8 DEF x, y
<1>12. x = y
  BY <1>4, <1>10, <1>11, SeqEqual
<1> QED
  BY <1>12 DEF x, y, s

LEMMA PrefixAppend ==
  ASSUME NEW E, NEW l \in Seq(E), NEW e \in E, NEW i \in 0..Len(l)
  PROVE  SubSeq(Append(l, e), 1, i) = SubSeq(l, 1, i)
<1>1. Append(l, e) = l \o <<e>> /\ <<e>> \in Seq(E)
  BY AppendProperties
<1> QED
  BY <1>1, PrefixJoin

LEMMA PrefixRewind ==
  ASSUME NEW E, NEW l \in Seq(E), NEW index \in 0..Len(l), NEW i \in 0..index
  PROVE  SubSeq(Rewind(l, index), 1, i) = SubSeq(l, 1, i)
<1> DEFINE a == Rewind(l, index)
           z == SubSeq(l, index + 1, Len(l))
<1>1. index \in Nat /\ index <= Len(l)
  BY LenProperties
<1>2. a \in Seq(E) /\ z \in Seq(E) /\ a \o z = l /\ Len(a) = index
  <2>1. /\ Rewind(l, index) \in Seq(E) /\ SubSeq(l, index + 1, Len(l)) \in Seq(E)
        /\ Rewind(l, index) \o SubSeq(l, index + 1, Len(l)) = l
    BY <1>1, RewindLog
  <2>2. Len(Rewind(l, index)) = index
    BY <1>1, LogSplit
  <2> QED
    BY <2>1, <2>2
<1> HIDE DEF a, z
<1>3. i \in 0..Len(a)
  BY <1>2
<1>4. SubSeq(a \o z, 1, i) = SubSeq(a, 1, i)
  BY <1>2, <1>3, PrefixJoin
<1> QED
  BY <1>2, <1>4 DEF a

(* The positions of turns are inside the log, and in order. *)
Within(t, l) ==
  /\ \A j \in 1..Len(t) : t[j].eventIndex \in 0..Len(l)
  /\ \A i, j \in 1..Len(t) : i < j => t[i].eventIndex <= t[j].eventIndex

LEMMA DatedWithin ==
  ASSUME NEW t, NEW l, Len(l) \in Nat, Dated(t, l, 0)
  PROVE  Within(t, l)
<1>1. 0 + Len(l) = Len(l)
  OBVIOUS
<1> QED
  BY <1>1 DEF Dated, Within

(* The states before turn n stay where they are as it is rewound... *)
LEMMA SnapsCut ==
  ASSUME NEW E, NEW l \in Seq(E), NEW t \in Seq(TurnType), Within(t, l), NEW b,
         NEW n \in 1..Len(t)
  PROVE  Snaps(SubSeq(t, 1, n - 1), Rewind(l, t[n].eventIndex), b)
           = SubSeq(Snaps(t, l, b), 1, n - 1)
<1> DEFINE p == Snaps(t, l, b)
           x == SubSeq(t, 1, n - 1)
           a == Rewind(l, t[n].eventIndex)
           q == Snaps(x, a, b)
           S == {p[i] : i \in 1..Len(t)}
<1>1. Len(t) \in Nat
  BY LenProperties
<1>2. p \in Seq(S) /\ Len(p) = Len(t)
  <2>1. \A i \in 1..Len(t) : p[i] \in S
    OBVIOUS
  <2> HIDE DEF S
  <2> QED
    BY <1>1, <2>1, SnapsSeq
<1>3. Len(x) = n - 1 /\ \A j \in 1..(n - 1) : x[j] = t[j]
  BY StackSplit
<1>4. /\ SubSeq(p, 1, n - 1) \in Seq(S) /\ Len(SubSeq(p, 1, n - 1)) = n - 1
      /\ \A j \in 1..(n - 1) : SubSeq(p, 1, n - 1)[j] = p[j]
  <2> HIDE DEF p, S
  <2> QED
    BY <1>2, StackSplit
<1>5. ASSUME NEW j \in 1..(n - 1)
      PROVE  p[j] = [files |-> b[x[j].prompt], log |-> SubSeq(a, 1, x[j].eventIndex)]
  <2>1. j \in 1..Len(t) /\ j < n
    BY <1>1
  <2>2. t[n].eventIndex \in 0..Len(l) /\ t[j].eventIndex \in 0..Len(l) /\ t[j].eventIndex <= t[n].eventIndex
    BY <2>1 DEF Within
  <2>3. t[j].eventIndex \in 0..t[n].eventIndex
    BY <2>2
  <2>4. SubSeq(a, 1, t[j].eventIndex) = SubSeq(l, 1, t[j].eventIndex)
    BY <2>2, <2>3, PrefixRewind
  <2>5. p[j] = [files |-> b[t[j].prompt], log |-> SubSeq(l, 1, t[j].eventIndex)]
    BY <2>1 DEF Snaps
  <2> QED
    BY <1>3, <2>4, <2>5
<1> HIDE DEF p, a, x, S
<1>6. /\ q = [i \in 1..(n - 1) |-> q[i]]
      /\ \A i \in 1..(n - 1) : q[i] = [files |-> b[x[i].prompt], log |-> SubSeq(a, 1, x[i].eventIndex)]
  BY <1>3 DEF Snaps
<1> HIDE DEF q
<1>7. \A i \in 1..(n - 1) : SubSeq(p, 1, n - 1)[i] = q[i]
  BY <1>4, <1>5, <1>6
<1>8. n - 1 \in Nat
  BY <1>1
<1>9. SubSeq(p, 1, n - 1) = q
  BY <1>4, <1>6, <1>7, <1>8, SameSeq, SMTT(30)
<1> QED
  BY <1>9 DEF p, q, x, a

(* ...and those of the turns undone are the ones there were. *)
LEMMA SnapsEnd ==
  ASSUME NEW t \in Seq(TurnType), NEW l, NEW b, NEW n \in 1..Len(t)
  PROVE  Snaps(SubSeq(t, n, Len(t)), l, b) = SubSeq(Snaps(t, l, b), n, Len(t))
<1> DEFINE p == Snaps(t, l, b)
           y == SubSeq(t, n, Len(t))
           q == Snaps(y, l, b)
           S == {p[i] : i \in 1..Len(t)}
           k == Len(t) - n + 1
<1>1. Len(t) \in Nat
  BY LenProperties
<1>2. p \in Seq(S) /\ Len(p) = Len(t)
  <2>1. \A i \in 1..Len(t) : p[i] \in S
    OBVIOUS
  <2> HIDE DEF S
  <2> QED
    BY <1>1, <2>1, SnapsSeq
<1>3. Len(y) = k /\ \A j \in 1..k : y[j] = t[n + j - 1]
  BY StackSplit
<1>4. /\ SubSeq(p, n, Len(t)) \in Seq(S) /\ Len(SubSeq(p, n, Len(t))) = k
      /\ \A j \in 1..k : SubSeq(p, n, Len(t))[j] = p[n + j - 1]
  <2> HIDE DEF p, S
  <2> QED
    BY <1>2, StackSplit
<1>5. k \in Nat /\ \A j \in 1..k : n + j - 1 \in 1..Len(t)
  BY <1>1
<1>6. \A i \in 1..Len(t) : p[i] = [files |-> b[t[i].prompt], log |-> SubSeq(l, 1, t[i].eventIndex)]
  BY DEF Snaps
<1> HIDE DEF p, y, S, k
<1>7. /\ q = [i \in 1..k |-> q[i]]
      /\ \A i \in 1..k : q[i] = [files |-> b[y[i].prompt], log |-> SubSeq(l, 1, y[i].eventIndex)]
  BY <1>3 DEF Snaps
<1> HIDE DEF q
<1>8. ASSUME NEW j \in 1..k PROVE SubSeq(p, n, Len(t))[j] = q[j]
  <2> DEFINE i == n + j - 1
  <2>1. i \in 1..Len(t) /\ y[j] = t[i] /\ SubSeq(p, n, Len(t))[j] = p[i]
    BY <1>3, <1>4, <1>5
  <2> HIDE DEF i
  <2> QED
    BY <1>6, <1>7, <2>1
<1>9. SubSeq(p, n, Len(t)) = q
  BY <1>4, <1>5, <1>7, <1>8, SameSeq
<1> QED
  BY <1>9 DEF p, q, y

(* Turns put back at the end of the log. *)
LEMMA SnapsJoin ==
  ASSUME NEW E, NEW l \in Seq(E), NEW m \in Seq(E), NEW b,
         NEW t \in Seq(TurnType), NEW v \in Seq(TurnType), Within(t, l)
  PROVE  Snaps(t \o v, l \o m, b) = Snaps(t, l, b) \o Snaps(v, l \o m, b)
<1> DEFINE p == Snaps(t, l, b)
           r == Snaps(v, l \o m, b)
           s == t \o v
           w == l \o m
           q == Snaps(s, w, b)
           S == {p[i] : i \in 1..Len(t)} \cup {r[i] : i \in 1..Len(v)}
           c == Len(t)
           d == Len(v)
<1>1. c \in Nat /\ d \in Nat
  BY LenProperties
<1>2. p \in Seq(S) /\ Len(p) = c
  <2>1. \A i \in 1..Len(t) : p[i] \in S
    OBVIOUS
  <2> HIDE DEF S
  <2> QED
    BY <1>1, <2>1, SnapsSeq
<1>3. r \in Seq(S) /\ Len(r) = d
  <2>1. \A i \in 1..Len(v) : r[i] \in S
    OBVIOUS
  <2> HIDE DEF S
  <2> QED
    BY <1>1, <2>1, SnapsSeq
<1>4. Len(s) = c + d /\ \A i \in 1..(c + d) : s[i] = IF i <= c THEN t[i] ELSE v[i - c]
  BY ConcatProperties
<1>5. \A i \in 1..c : p[i] = [files |-> b[t[i].prompt], log |-> SubSeq(l, 1, t[i].eventIndex)]
  BY DEF Snaps
<1>6. \A i \in 1..d : r[i] = [files |-> b[v[i].prompt], log |-> SubSeq(w, 1, v[i].eventIndex)]
  BY DEF Snaps
<1>7. \A i \in 1..c : SubSeq(w, 1, t[i].eventIndex) = SubSeq(l, 1, t[i].eventIndex)
  <2> SUFFICES ASSUME NEW i \in 1..c PROVE SubSeq(w, 1, t[i].eventIndex) = SubSeq(l, 1, t[i].eventIndex)
    OBVIOUS
  <2>1. t[i].eventIndex \in 0..Len(l)
    BY DEF Within
  <2> QED
    BY <2>1, PrefixJoin
<1> HIDE DEF p, r, s, w, S, c, d
<1>8. /\ p \o r \in Seq(S) /\ Len(p \o r) = c + d
      /\ \A i \in 1..(c + d) : (p \o r)[i] = IF i <= c THEN p[i] ELSE r[i - c]
  BY <1>2, <1>3, ConcatProperties
<1>9. /\ q = [i \in 1..(c + d) |-> q[i]]
      /\ \A i \in 1..(c + d) : q[i] = [files |-> b[s[i].prompt], log |-> SubSeq(w, 1, s[i].eventIndex)]
  BY <1>4 DEF Snaps
<1> HIDE DEF q
<1>10. ASSUME NEW i \in 1..(c + d) PROVE (p \o r)[i] = q[i]
  <2>1. CASE i <= c
    <3>1. i \in 1..c
      BY <1>1, <2>1
    <3>2. s[i] = t[i] /\ (p \o r)[i] = p[i]
      BY <1>4, <1>8, <2>1
    <3> QED
      BY <1>5, <1>7, <1>9, <3>1, <3>2
  <2>2. CASE ~ (i <= c)
    <3> DEFINE j == i - c
    <3>1. j \in 1..d
      BY <1>1, <2>2
    <3>2. s[i] = v[j] /\ (p \o r)[i] = r[j]
      BY <1>4, <1>8, <2>2
    <3> HIDE DEF j
    <3> QED
      BY <1>6, <1>9, <3>1, <3>2
  <2> QED
    BY <2>1, <2>2
<1>11. c + d \in Nat
  BY <1>1
<1>12. p \o r = q
  <2> DEFINE z == p \o r
             k == c + d
  <2>1. z \in Seq(S) /\ Len(z) = k /\ k \in Nat /\ q = [i \in 1..k |-> q[i]]
    BY <1>8, <1>9, <1>11
  <2>2. \A i \in 1..k : z[i] = q[i]
    BY <1>10
  <2> HIDE DEF z, k
  <2>3. z = q
    BY <2>1, <2>2, SameSeq
  <2> QED
    BY <2>3 DEF z
<1> QED
  BY <1>12 DEF p, r, q, s, w

(* A longer log does not move them, nor what turns capture. *)
LEMMA SnapsLonger ==
  ASSUME NEW E, NEW l \in Seq(E), NEW e \in E, NEW t, Within(t, l), NEW b
  PROVE  Snaps(t, Append(l, e), b) = Snaps(t, l, b)
<1>1. \A j \in 1..Len(t) :
        SubSeq(Append(l, e), 1, t[j].eventIndex) = SubSeq(l, 1, t[j].eventIndex)
  BY PrefixAppend DEF Within
<1> QED
  BY <1>1 DEF Snaps

LEMMA SnapsSame ==
  ASSUME NEW t, NEW v, NEW l, NEW b, Len(v) = Len(t),
         \A j \in 1..Len(t) : v[j].prompt = t[j].prompt /\ v[j].eventIndex = t[j].eventIndex
  PROVE  Snaps(v, l, b) = Snaps(t, l, b)
  BY DEF Snaps

-----------------------------------------------------------------------------
(* Where redoing leads to. *)

(* r says which states there are from the n-th on. *)
Aheads(r, u, fs, l, n) ==
  r = [k \in n..Len(u) |->
         IF k = Len(u) THEN [files |-> fs, log |-> l]
         ELSE [files |-> Over(u[k + 1].after, r[k + 1].files),
               log   |-> r[k + 1].log \o u[k + 1].events]]

LEMMA AheadsExist ==
  ASSUME NEW u, Len(u) \in Nat, NEW fs, NEW l, NEW n \in 0..Len(u)
  PROVE  \E r : Aheads(r, u, fs, l, n)
<1> DEFINE c == Len(u)
           end == [files |-> fs, log |-> l]
           Back(k, s) == [files |-> Over(u[k].after, s.files), log |-> s.log \o u[k].events]
           Bad == {k \in 0..c : ~ \E r : Aheads(r, u, fs, l, k)}
<1>0. c \in Nat
  OBVIOUS
<1>1. SUFFICES ASSUME Bad # {} PROVE FALSE
  OBVIOUS
<1>2. PICK m \in Bad : \A k \in Bad : k <= m
  <2>1. Bad \in SUBSET (0..c)
    OBVIOUS
  <2> HIDE DEF Bad, c
  <2> QED BY <1>0, <1>1, <2>1, GreatestNatural
<1>3. ASSUME NEW r, NEW k, r = [i \in k..c |-> IF i = c THEN end ELSE Back(i + 1, r[i + 1])]
      PROVE  Aheads(r, u, fs, l, k)
  BY <1>3 DEF Aheads
<1>4. ASSUME NEW r, NEW k, Aheads(r, u, fs, l, k)
      PROVE  r = [i \in k..c |-> IF i = c THEN end ELSE Back(i + 1, r[i + 1])]
  BY <1>4 DEF Aheads
<1>5. m \in 0..c /\ ~ \E r : Aheads(r, u, fs, l, m)
  BY <1>2
<1>6. \A k \in 0..c : k > m => \E r : Aheads(r, u, fs, l, k)
  BY <1>2
<1> HIDE DEF c, end, Back, Bad
<1>7. CASE m = c
  <2> DEFINE r == [i \in c..c |-> end]
  <2>1. r = [i \in m..c |-> IF i = c THEN end ELSE Back(i + 1, r[i + 1])]
    BY <1>0, <1>7
  <2> HIDE DEF r
  <2> QED
    BY <1>3, <1>5, <2>1
<1>8. CASE m # c
  <2>1. m + 1 \in 0..c /\ m + 1 > m
    BY <1>0, <1>5, <1>8
  <2>2. PICK q : Aheads(q, u, fs, l, m + 1)
    BY <1>6, <2>1
  <2> DEFINE top == Back(m + 1, q[m + 1])
             r == [i \in m..c |-> IF i = m THEN top ELSE q[i]]
  <2>3. q = [i \in (m + 1)..c |-> IF i = c THEN end ELSE Back(i + 1, q[i + 1])]
    BY <1>4, <2>2
  <2> HIDE DEF top
  <2>4. \A i \in m..c : r[i] = IF i = c THEN end ELSE Back(i + 1, r[i + 1])
    <3> TAKE i \in m..c
    <3>1. CASE i = m
      <4>1. r[m] = top /\ r[m + 1] = q[m + 1]
        BY <1>0, <1>5, <2>1
      <4> HIDE DEF r
      <4> QED
        BY <1>8, <3>1, <4>1 DEF top
    <3>2. CASE i # m
      <4>1. /\ i \in (m + 1)..c
            /\ i # c => i + 1 \in (m + 1)..c /\ i + 1 # m /\ i + 1 \in m..c
        BY <1>0, <1>5, <3>2
      <4>2. r[i] = q[i] /\ (i # c => r[i + 1] = q[i + 1])
        BY <3>2, <4>1
      <4>3. q[i] = IF i = c THEN end ELSE Back(i + 1, q[i + 1])
        BY <2>3, <4>1
      <4> HIDE DEF r
      <4> QED
        BY <4>2, <4>3
    <3> QED
      BY <3>1, <3>2
  <2>5. r = [i \in m..c |-> IF i = c THEN end ELSE Back(i + 1, r[i + 1])]
    <3>1. r = [i \in m..c |-> r[i]]
      OBVIOUS
    <3> HIDE DEF r
    <3> QED
      BY <2>4, <3>1, Zenon
  <2> HIDE DEF r
  <2> QED
    BY <1>3, <1>5, <2>5
<1> QED
  BY <1>7, <1>8

LEMMA AheadEquation ==
  ASSUME NEW u, Len(u) \in Nat, NEW fs, NEW l
  PROVE  Aheads(Ahead(u, fs, l), u, fs, l, 0)
<1> DEFINE r == CHOOSE r : Aheads(r, u, fs, l, 0)
<1>1. Ahead(u, fs, l) = r
  BY DEF Ahead, Aheads
<1>2. 0 \in 0..Len(u)
  OBVIOUS
<1>3. Aheads(r, u, fs, l, 0)
  BY <1>2, AheadsExist
<1> HIDE DEF r
<1> QED
  BY <1>1, <1>3

(* The state as it is... *)
LEMMA AheadNow ==
  ASSUME NEW u \in Seq(RewindType), NEW fs, NEW l
  PROVE  Ahead(u, fs, l)[Len(u)] = [files |-> fs, log |-> l]
<1>1. Aheads(Ahead(u, fs, l), u, fs, l, 0) /\ Len(u) \in 0..Len(u)
  BY LenProperties, AheadEquation
<1> DEFINE r == Ahead(u, fs, l)
<1> HIDE DEF r
<1> QED
  BY <1>1 DEF Aheads, r

(* ...and the one that the next redo leads to. *)
LEMMA AheadNext ==
  ASSUME NEW u \in Seq(RewindType), NEW fs, NEW l, Len(u) # 0
  PROVE  Ahead(u, fs, l)[Len(u) - 1]
           = [files |-> Over(u[Len(u)].after, fs), log |-> l \o u[Len(u)].events]
<1> DEFINE c == Len(u)
           d == c - 1
           r == Ahead(u, fs, l)
<1>1. r[c] = [files |-> fs, log |-> l] /\ Aheads(r, u, fs, l, 0)
  BY AheadNow, AheadEquation, LenProperties
<1>2. d \in 0..c /\ d # c /\ d + 1 = c
  BY LenProperties
<1> HIDE DEF d, r
<1>3. r[d] = [files |-> Over(u[d + 1].after, r[d + 1].files),
              log   |-> r[d + 1].log \o u[d + 1].events]
  BY <1>1, <1>2 DEF Aheads
<1>4. r[d] = [files |-> Over(u[c].after, r[c].files), log |-> r[c].log \o u[c].events]
  BY <1>2, <1>3
<1> QED
  BY <1>1, <1>4 DEF d, r

(* The same rewinds to redo from the same state on lead to the same states. *)
LEMMA AheadAgree ==
  ASSUME NEW u \in Seq(RewindType), NEW v \in Seq(RewindType), NEW fs, NEW gs, NEW l, NEW m,
         NEW r, NEW q, Aheads(r, u, fs, l, 0), Aheads(q, v, gs, m, 0),
         NEW n \in Nat, n <= Len(u), n <= Len(v), \A k \in 1..n : u[k] = v[k], r[n] = q[n]
  PROVE  \A k \in 0..n : r[k] = q[k]
<1> DEFINE c == Len(u)
           d == Len(v)
           Back(w, s) == [files |-> Over(w.after, s.files), log |-> s.log \o w.events]
           Bad == {k \in 0..n : r[k] # q[k]}
<1>1. r = [k \in 0..c |-> IF k = c THEN [files |-> fs, log |-> l] ELSE Back(u[k + 1], r[k + 1])]
  BY DEF Aheads
<1>2. q = [k \in 0..d |-> IF k = d THEN [files |-> gs, log |-> m] ELSE Back(v[k + 1], q[k + 1])]
  BY DEF Aheads
<1>3. c \in Nat /\ d \in Nat /\ n \in Nat /\ n <= c /\ n <= d /\ r[n] = q[n]
  BY LenProperties
<1> HIDE DEF c, d, Back
<1>4. SUFFICES ASSUME Bad # {} PROVE FALSE
  OBVIOUS
<1>5. PICK g \in Bad : \A k \in Bad : k <= g
  <2>1. Bad \in SUBSET (0..n)
    OBVIOUS
  <2> HIDE DEF Bad
  <2> QED BY <1>3, <1>4, <2>1, GreatestNatural
<1>6. g \in 0..n /\ r[g] # q[g] /\ g # n
  BY <1>3, <1>5
<1> DEFINE h == g + 1
<1>7. /\ h \in 0..n /\ h > g /\ h \in 1..n
      /\ g \in 0..c /\ g # c /\ g \in 0..d /\ g # d
  BY <1>3, <1>6
<1>8. r[g] = Back(u[h], r[h]) /\ q[g] = Back(v[h], q[h])
  BY <1>1, <1>2, <1>7
<1>9. r[h] = q[h]
  <2>1. h \notin Bad
    BY <1>5, <1>7
  <2> QED
    BY <1>7, <2>1
<1>10. u[h] = v[h]
  BY <1>7
<1> QED
  BY <1>6, <1>8, <1>9, <1>10

(* Functions on 1..n as sequences. *)
LEMMA AppendIs ==
  ASSUME NEW S, NEW n \in Nat, NEW f \in [1..(n + 1) -> S], NEW g \in [1..n -> S],
         \A i \in 1..n : f[i] = g[i]
  PROVE  f = Append(g, f[n + 1])
<1> DEFINE x == f[n + 1]
           a == Append(g, x)
           k == n + 1
<1>1. k \in Nat /\ k \in 1..k /\ f \in [1..k -> S]
  OBVIOUS
<1>2. x \in S
  BY <1>1
<1>3. f \in Seq(S) /\ Len(f) = k /\ g \in Seq(S) /\ Len(g) = n
  BY <1>1, AsSeq
<1> HIDE DEF x
<1>4. /\ a \in Seq(S) /\ Len(a) = k /\ a[k] = x
      /\ \A i \in 1..n : a[i] = g[i]
  BY <1>2, <1>3, AppendProperties
<1>5. \A i \in 1..k : a[i] = f[i]
  <2> SUFFICES ASSUME NEW i \in 1..k, i # k PROVE a[i] = f[i]
    BY <1>4 DEF x
  <2>1. i \in 1..n
    OBVIOUS
  <2> QED
    BY <1>4, <2>1
<1> HIDE DEF a, k
<1>6. a = f
  BY <1>1, <1>3, <1>4, <1>5, SeqEqual
<1> QED
  BY <1>6 DEF a, x

LEMMA FrontIs ==
  ASSUME NEW S, NEW n \in Nat \ {0}, NEW f \in [1..n -> S], NEW g \in [1..(n - 1) -> S],
         \A i \in 1..(n - 1) : f[i] = g[i]
  PROVE  g = SubSeq(f, 1, n - 1) /\ Len(f) = n /\ f # <<>>
<1> DEFINE a == SubSeq(f, 1, n - 1)
           k == n - 1
<1>1. f \in Seq(S) /\ Len(f) = n /\ n \in 1..n
  BY AsSeq
<1>2. a \in Seq(S) /\ Len(a) = n - 1 /\ \A i \in 1..(n - 1) : a[i] = f[i]
  BY <1>1, StackSplit
<1>3. k \in Nat /\ Len(a) = k /\ g \in [1..k -> S] /\ \A i \in 1..k : a[i] = g[i]
  BY <1>2
<1> HIDE DEF a, k
<1>4. g \in Seq(S) /\ Len(g) = k
  BY <1>3, AsSeq
<1>5. a = g
  BY <1>2, <1>3, <1>4, SeqEqual
<1> QED
  BY <1>1, <1>5, EmptySeq DEF a

-----------------------------------------------------------------------------
(* Captures implement snapshots. *)

(* Timeline keeps as many states as beginTurn keeps turns. *)
LEMMA NewestIsKept ==
  ASSUME NEW S, NEW s \in Seq(S), Len(s) <= MaxTurns + 1
  PROVE  States!Newest(s, MaxTurns) = KeptTurns(s)
<1> DEFINE c == Len(s)
<1>1. c \in Nat /\ MaxTurns \in Nat \ {0} /\ c <= MaxTurns + 1
  BY LenProperties, HistoryAssumption
<1> HIDE DEF c
<1>2. CASE c > MaxTurns
  <2>1. c - MaxTurns + 1 = 2 /\ ~ (c <= MaxTurns) /\ 2 \in 1..c
    BY <1>1, <1>2
  <2> DEFINE z == SubSeq(s, 2, c)
             tail == Tail(s)
  <2>2. States!Newest(s, MaxTurns) = z
    BY <2>1 DEF States!Newest, c
  <2>3. /\ z \in Seq(S) /\ Len(z) = c - 2 + 1
        /\ \A j \in 1..(c - 2 + 1) : z[j] = s[2 + j - 1]
    BY <2>1, StackSplit DEF c
  <2>4. /\ tail \in Seq(S) /\ Len(tail) = c - 1
        /\ \A j \in 1..Len(tail) : tail[j] = s[j + 1]
    BY <2>1, HeadTailProperties, EmptySeq DEF c
  <2>5. KeptTurns(s) = tail
    BY <1>2 DEF KeptTurns, c
  <2> HIDE DEF z, tail
  <2>6. c - 2 + 1 = c - 1 /\ \A j \in 1..(c - 1) : 2 + j - 1 = j + 1
    BY <1>1
  <2>7. z = tail
    BY <2>3, <2>4, <2>6, SeqEqual
  <2> QED
    BY <2>2, <2>5, <2>7
<1>3. CASE ~ (c > MaxTurns)
  BY <1>1, <1>3 DEF KeptTurns, States!Newest, c
<1> QED
  BY <1>2, <1>3

(* A turn that begins adds the state it begins in. *)
LEMMA SnapsBegin ==
  ASSUME stack \in Seq(TurnType), store \in Seq(EventType),
         before \in Seq([Paths -> Contents]), prompts \in Nat, Len(before) = prompts,
         Sent(stack, prompts), Within(stack, store), Len(stack) <= MaxTurns,
         NEW e \in EventType, files \in [Paths -> Contents],
         NEW turn \in TurnType, turn.prompt = prompts + 1, turn.eventIndex = Len(store)
  PROVE  Snaps(KeptTurns(Append(stack, turn)), Append(store, e), Append(before, files))
           = States!Newest(Append(Snaps(stack, store, before), [files |-> files, log |-> store]),
                           MaxTurns)
<1> DEFINE now == [files |-> files, log |-> store]
           p == Snaps(stack, store, before)
           t == KeptTurns(Append(stack, turn))
           l == Append(store, e)
           b == Append(before, files)
           q == Snaps(t, l, b)
           a == Append(p, now)
           r == KeptTurns(a)
           S == {p[i] : i \in 1..Len(stack)} \cup {now}
           d == IF Len(stack) + 1 > MaxTurns THEN 1 ELSE 0
           c == Len(stack)
<1>0. MaxTurns \in Nat \ {0} /\ c \in Nat /\ c <= MaxTurns
  BY HistoryAssumption, LenProperties
<1>1. p \in Seq(S) /\ Len(p) = c /\ now \in S
  <2>1. (\A i \in 1..Len(stack) : p[i] \in S) /\ now \in S
    OBVIOUS
  <2> HIDE DEF S, now
  <2> QED
    BY <1>0, <2>1, SnapsSeq
<1>2. /\ t \in Seq(TurnType) /\ Len(t) = c + 1 - d
      /\ \A j \in 1..Len(t) : t[j] = IF j = Len(t) THEN turn ELSE stack[j + d]
  BY BeginTurn
<1>3. \A j \in 1..c : p[j] = [files |-> before[stack[j].prompt],
                              log   |-> SubSeq(store, 1, stack[j].eventIndex)]
  BY DEF Snaps
<1>4. /\ q = [i \in 1..Len(t) |-> q[i]]
      /\ \A i \in 1..Len(t) : q[i] = [files |-> b[t[i].prompt], log |-> SubSeq(l, 1, t[i].eventIndex)]
  BY DEF Snaps
<1>5. \A j \in 1..c : b[stack[j].prompt] = before[stack[j].prompt]
  <2>1. \A i \in 1..prompts : b[i] = before[i]
    BY AppendProperties
  <2> QED
    BY <2>1 DEF Sent
<1>6. b[turn.prompt] = files
  BY AppendProperties
<1>7. \A j \in 1..c : SubSeq(l, 1, stack[j].eventIndex) = SubSeq(store, 1, stack[j].eventIndex)
  <2>1. \A j \in 1..c : stack[j].eventIndex \in 0..Len(store)
    BY DEF Within
  <2>2. \A i \in 0..Len(store) : SubSeq(l, 1, i) = SubSeq(store, 1, i)
    BY PrefixAppend
  <2> QED
    BY <2>1, <2>2
<1>8. SubSeq(l, 1, turn.eventIndex) = store
  <2>1. Len(store) \in 0..Len(store)
    BY LenProperties
  <2>2. SubSeq(l, 1, Len(store)) = SubSeq(store, 1, Len(store))
    BY <2>1, PrefixAppend
  <2> QED
    BY <2>2, SubSeqFull
<1> HIDE DEF p, S, l, b, q, t, c
<1>9. d = IF c + 1 > MaxTurns THEN 1 ELSE 0
  BY DEF c
<1>10. /\ r \in Seq(S) /\ Len(r) = c + 1 - d
       /\ \A i \in 1..Len(r) : r[i] = IF i = Len(r) THEN now ELSE p[i + d]
  <2> DEFINE g == IF Len(p) + 1 > MaxTurns THEN 1 ELSE 0
  <2> HIDE DEF now, d
  <2>1. /\ r \in Seq(S) /\ Len(r) = Len(p) + 1 - g
        /\ \A i \in 1..Len(r) : r[i] = IF i = Len(r) THEN now ELSE p[i + g]
    BY <1>1, KeptSeq, ZenonT(30)
  <2>2. g = d
    BY <1>1, <1>9
  <2> HIDE DEF g, r
  <2> QED
    BY <1>1, <2>1, <2>2
<1>11. States!Newest(a, MaxTurns) = r
  <2> HIDE DEF now
  <2>1. a \in Seq(S) /\ Len(a) = c + 1
    BY <1>1, AppendProperties
  <2>2. Len(a) <= MaxTurns + 1
    BY <1>0, <2>1
  <2> HIDE DEF a
  <2> QED
    BY <2>1, <2>2, NewestIsKept
<1> HIDE DEF d, r
<1>12. d \in {0, 1} /\ c + 1 - d \in Nat /\ c - d < c + 1 - d
  BY <1>0, <1>9
<1>13. ASSUME NEW i \in 1..(c + 1 - d) PROVE r[i] = q[i]
  <2>1. CASE i = c + 1 - d
    <3>1. r[i] = now /\ t[i] = turn
      BY <1>2, <1>10, <2>1
    <3> QED
      BY <1>2, <1>4, <1>6, <1>8, <3>1
  <2>2. CASE i # c + 1 - d
    <3> DEFINE j == i + d
    <3>1. j \in 1..c
      BY <1>0, <1>12, <2>2
    <3>2. r[i] = p[j] /\ t[i] = stack[j]
      BY <1>2, <1>10, <2>2
    <3> HIDE DEF j
    <3>3. q[i] = [files |-> b[stack[j].prompt], log |-> SubSeq(l, 1, stack[j].eventIndex)]
      BY <1>2, <1>4, <3>2
    <3> QED
      BY <1>3, <1>5, <1>7, <3>1, <3>2, <3>3
  <2> QED
    BY <2>1, <2>2
<1> DEFINE n == c + 1 - d
<1>14. /\ r \in Seq(S) /\ n \in Nat /\ Len(r) = n /\ q = [i \in 1..n |-> q[i]]
       /\ \A i \in 1..n : r[i] = q[i]
  BY <1>2, <1>4, <1>10, <1>12, <1>13
<1> HIDE DEF n
<1>15. r = q
  BY <1>14, SameSeq
<1> QED
  BY <1>15, <1>11 DEF q, p, t, l, b

(* What a session can be: what the theorems above rest on, all together. *)
HistoryInv == TypeOK /\ IdleInv /\ FilesInv /\ LogInv /\ HeightInv

(* The states that can be rewound to are the ones there were. *)
LEMMA PastIs ==
  HistoryInv => /\ Beginnings(stack, files, store) = Snaps(stack, store, before)
                /\ Within(stack, store)
                /\ DOMAIN Beginnings(stack, files, store) = 1..Len(stack)
<1> SUFFICES ASSUME HistoryInv
             PROVE  /\ Beginnings(stack, files, store) = Snaps(stack, store, before)
                    /\ Within(stack, store)
                    /\ DOMAIN Beginnings(stack, files, store) = 1..Len(stack)
  OBVIOUS
<1>1. /\ stack \in Seq(TurnType) /\ Chain(stack, files, before)
      /\ Dated(stack, store, 0) /\ Len(store) \in Nat
  BY LenProperties DEF HistoryInv, TypeOK, FilesInv, LogInv
<1>2. Within(stack, store)
  BY <1>1, DatedWithin
<1>3. Beginnings(stack, files, store) = Snaps(stack, store, before)
  BY <1>1, BeginningsAre
<1> QED
  BY <1>2, <1>3 DEF Snaps

LEMMA InitIsInit == Init => States!Init
<1> SUFFICES ASSUME Init PROVE States!Init
  OBVIOUS
<1>1. /\ stack = <<>> /\ undone = <<>> /\ files \in [Paths -> Contents] /\ Len(store) = 1
  BY DEF Init
<1>2. DOMAIN stack = {} /\ DOMAIN undone = {}
  BY <1>1
<1>3. Beginnings(stack, files, store) = <<>> /\ Redone(undone, files, store) = <<>>
  BY <1>2 DEF Beginnings, Redone
<1> QED
  BY <1>1, <1>3 DEF States!Init

(* There is nothing to redo. *)
LEMMA NoRedone == ASSUME NEW fs, NEW l PROVE Redone(<<>>, fs, l) = <<>>
<1>1. DOMAIN <<>> = {}
  OBVIOUS
<1> QED
  BY <1>1 DEF Redone

LEMMA PromptIsPrompt ==
  ASSUME HistoryInv, HistoryInv', Prompt
  PROVE  States!Prompt
<1> DEFINE turn == Turn(Len(store), prompts', NoFiles)
           e == Event("user_message", <<prompts'>>)
           now == [files |-> files, log |-> store]
<1>1. /\ stack' = KeptTurns(Append(stack, turn)) /\ undone' = <<>> /\ files' = files
      /\ prompts' = prompts + 1 /\ store' = Append(store, e)
      /\ before' = Append(before, files)
  BY DEF Prompt
<1>2. /\ stack \in Seq(TurnType) /\ store \in Seq(EventType) /\ files \in [Paths -> Contents]
      /\ before \in Seq([Paths -> Contents]) /\ prompts \in Nat /\ Len(before) = prompts
      /\ Len(store) \in Nat /\ Len(stack) \in Nat
  BY LenProperties, HistoryAssumption DEF HistoryInv, TypeOK
<1>3. Sent(stack, prompts) /\ Within(stack, store)
  BY PastIs DEF HistoryInv, FilesInv
<1>4. Len(stack) <= MaxTurns
  <2>1. PICK h : Heights(h, undone, Len(stack))
    BY DEF HistoryInv, HeightInv
  <2>2. Len(undone) \in 0..Len(undone) /\ MaxTurns \in Nat
    BY LenProperties, HistoryAssumption DEF HistoryInv, TypeOK
  <2>3. Len(stack) \in 0..MaxTurns
    BY <2>1, <2>2 DEF Heights
  <2> QED
    BY <2>2, <2>3
<1>5. /\ turn \in TurnType /\ turn.prompt = prompts + 1 /\ turn.eventIndex = Len(store)
  <2>1. NoFiles \in [{} -> Contents]
    BY DEF NoFiles
  <2>2. NoFiles \in Captures
    BY <2>1 DEF Captures
  <2> QED
    BY <1>1, <1>2, <2>2 DEF Turn, TurnType
<1>6. e \in EventType
  BY <1>1, <1>2, EventIsEvent DEF EventTypes
<1> HIDE DEF turn, e
<1>7. Snaps(stack', store', before')
        = States!Newest(Append(Snaps(stack, store, before), now), MaxTurns)
  BY <1>1, <1>2, <1>3, <1>4, <1>5, <1>6, SnapsBegin
<1>8. /\ Beginnings(stack, files, store) = Snaps(stack, store, before)
      /\ Beginnings(stack', files', store') = Snaps(stack', store', before')
  <2>1. stack' \in Seq(TurnType) /\ Chain(stack', files', before')
    BY DEF HistoryInv, TypeOK, FilesInv
  <2> QED
    BY <2>1, PastIs, BeginningsAre
<1>9. Redone(undone', files', store') = <<>>
  BY <1>1, NoRedone
<1>10. Len(store') = Len(store) + 1 /\ SubSeq(store', 1, Len(store)) = store
  <2>1. Len(store) \in 0..Len(store)
    BY <1>2
  <2>2. SubSeq(store', 1, Len(store)) = SubSeq(store, 1, Len(store))
    BY <1>1, <1>2, <1>6, <2>1, PrefixAppend
  <2> QED
    BY <1>1, <1>2, <1>6, <2>2, AppendProperties, SubSeqFull
<1>11. Beginnings(stack', files', store')
         = States!Newest(Append(Beginnings(stack, files, store), now), MaxTurns)
  BY <1>7, <1>8
<1> QED
  BY <1>1, <1>2, <1>9, <1>10, <1>11 DEF States!Prompt, States!Extends

(* Work on the current prompt. *)
LEMMA EventIsChange ==
  ASSUME HistoryInv, HistoryInv', running, NEW e \in EventType, store' = Append(store, e),
         UNCHANGED <<stack, undone, before>>,
         NEW p \in Paths, NEW c \in Contents, files' \in {files, [files EXCEPT ![p] = c]}
  PROVE  States!Change
<1>1. /\ stack \in Seq(TurnType) /\ store \in Seq(EventType) /\ Len(store) \in Nat
      /\ stack # <<>> /\ undone = <<>> /\ undone' = <<>>
  BY LenProperties DEF HistoryInv, TypeOK, IdleInv
<1>2. Within(stack, store)
  BY PastIs
<1>3. /\ Beginnings(stack, files, store) = Snaps(stack, store, before)
      /\ Beginnings(stack', files', store') = Snaps(stack', store', before')
  <2>1. stack' \in Seq(TurnType) /\ Chain(stack', files', before')
    BY DEF HistoryInv, TypeOK, FilesInv
  <2> QED
    BY <2>1, PastIs, BeginningsAre
<1>4. Snaps(stack, Append(store, e), before) = Snaps(stack, store, before)
  BY <1>1, <1>2, SnapsLonger
<1>5. Beginnings(stack', files', store') = Beginnings(stack, files, store)
  BY <1>3, <1>4
<1>6. Beginnings(stack, files, store) # <<>>
  <2>1. Len(stack) \in Nat /\ Len(stack) # 0
    BY <1>1, LenProperties, EmptySeq
  <2>2. 1 \in DOMAIN Beginnings(stack, files, store) /\ DOMAIN <<>> = {}
    BY <2>1, PastIs
  <2> HIDE DEF Beginnings
  <2> QED
    BY <2>2
<1>7. Redone(undone, files, store) = <<>> /\ Redone(undone', files', store') = <<>>
  BY <1>1, NoRedone
<1>8. Len(store') >= Len(store) /\ SubSeq(store', 1, Len(store)) = store
  <2>1. Len(store) \in 0..Len(store)
    BY <1>1
  <2>2. SubSeq(store', 1, Len(store)) = SubSeq(store, 1, Len(store))
    BY <1>1, <2>1, PrefixAppend
  <2>3. Len(store') = Len(store) + 1
    BY <1>1, AppendProperties
  <2> QED
    BY <1>1, <2>2, <2>3, SubSeqFull
<1> QED
  BY <1>5, <1>6, <1>7, <1>8 DEF States!Change, States!Extends

(* What is captured moves no state. *)
LEMMA CaptureIsStutter ==
  ASSUME HistoryInv, HistoryInv', NEW p \in Paths, BeforeTool(p)
  PROVE  UNCHANGED States!vars
<1>1. UNCHANGED <<files, store, undone, before>> /\ stack' = Capture(p)
  BY DEF BeforeTool
<1>2. /\ Len(stack') = Len(stack)
      /\ \A j \in 1..Len(stack) : /\ stack'[j].prompt = stack[j].prompt
                                  /\ stack'[j].eventIndex = stack[j].eventIndex
  <2>1. stack \in Seq(TurnType) /\ files \in Projects
    BY DEF HistoryInv, TypeOK, Projects
  <2> QED
    BY <1>1, <2>1, CaptureStack
<1>3. Snaps(stack', store, before) = Snaps(stack, store, before)
  BY <1>2, SnapsSame
<1>4. /\ Beginnings(stack, files, store) = Snaps(stack, store, before)
      /\ Beginnings(stack', files', store') = Snaps(stack', store', before')
  <2>1. stack' \in Seq(TurnType) /\ Chain(stack', files', before')
    BY DEF HistoryInv, TypeOK, FilesInv
  <2> QED
    BY <2>1, PastIs, BeginningsAre
<1>5. Beginnings(stack', files', store') = Beginnings(stack, files, store)
  BY <1>1, <1>3, <1>4
<1> QED
  BY <1>1, <1>5 DEF States!vars

(* The k-th rewind that can be redone, as Timeline keeps it. *)
LEMMA RedoneIs ==
  ASSUME NEW u \in Seq(RewindType), NEW fs, NEW l
  PROVE  /\ Redone(u, fs, l) = [k \in 1..Len(u) |-> Redone(u, fs, l)[k]]
         /\ \A k \in 1..Len(u) :
              Redone(u, fs, l)[k]
                = [now  |-> Ahead(u, fs, l)[k - 1],
                   past |-> Beginnings(u[k].turns, Ahead(u, fs, l)[k - 1].files,
                                       Ahead(u, fs, l)[k - 1].log)]
<1>1. DOMAIN u = 1..Len(u)
  BY LenProperties
<1> QED
  BY <1>1 DEF Redone

LEMMA RewindIsRewind ==
  ASSUME HistoryInv, HistoryInv', call = "none", NEW n \in 1..Len(stack), RewindTo(n)
  PROVE  States!Rewind
<1> DEFINE l == Len(undone)
           past == Beginnings(stack, files, store)
           now == [files |-> files, log |-> store]
           index == stack[n].eventIndex
<1>1. PICK u \in RewindType :
        /\ undone' = Append(undone, u)
        /\ u.turns = SubSeq(stack, n, Len(stack))
        /\ u.events = SubSeq(store, index + 1, Len(store))
        /\ stack' = SubSeq(stack, 1, n - 1)
        /\ store' = Rewind(store, index)
        /\ Over(u.after, files') = files
        /\ store' \o u.events = store
  BY RewindParts DEF HistoryInv
<1>2. /\ stack \in Seq(TurnType) /\ store \in Seq(EventType) /\ undone \in Seq(RewindType)
      /\ undone' \in Seq(RewindType) /\ l \in Nat /\ Len(stack) \in Nat
      /\ stack' \in Seq(TurnType)
  BY LenProperties DEF HistoryInv, TypeOK
<1>3. before' = before /\ files' = before[stack[n].prompt]
  BY FilesRewind DEF HistoryInv, RewindTo
<1>4. /\ past = Snaps(stack, store, before) /\ Within(stack, store) /\ DOMAIN past = 1..Len(stack)
      /\ Beginnings(stack', files', store') = Snaps(stack', store', before)
  <2>1. Chain(stack', files', before)
    BY <1>3 DEF HistoryInv, FilesInv
  <2> QED
    BY <1>2, <2>1, PastIs, BeginningsAre
<1>5. Len(past) = Len(stack)
  BY <1>2, <1>4
<1>6. [files |-> files', log |-> store'] = past[n]
  <2>1. past[n] = [files |-> before[stack[n].prompt], log |-> SubSeq(store, 1, index)]
    BY <1>4 DEF Snaps
  <2>2. index \in 0..Len(store)
    BY <1>4 DEF Within
  <2> HIDE DEF index, past
  <2>3. Rewind(store, index) = SubSeq(store, 1, index)
    BY <1>2, <2>2, LogSplit
  <2> QED
    BY <1>1, <1>3, <2>1, <2>3
<1>7. Beginnings(stack', files', store') = SubSeq(past, 1, n - 1)
  BY <1>1, <1>2, <1>4, SnapsCut, SMTT(20)
<1>8. Beginnings(u.turns, files, store) = SubSeq(past, n, Len(stack))
  <2>1. Chain(u.turns, files, before)
    BY <1>1, <1>2, ChainSplit DEF HistoryInv, FilesInv
  <2>2. u.turns \in Seq(TurnType)
    BY DEF RewindType
  <2>3. Beginnings(u.turns, files, store) = Snaps(u.turns, store, before)
    BY <2>1, <2>2, BeginningsAre
  <2>4. Snaps(u.turns, store, before) = SubSeq(Snaps(stack, store, before), n, Len(stack))
    BY <1>1, <1>2, SnapsEnd, ZenonT(30)
  <2> QED
    BY <1>4, <2>3, <2>4
<1>9. /\ Len(undone') = l + 1 /\ undone'[l + 1] = u
      /\ \A k \in 1..l : undone'[k] = undone[k]
  BY <1>1, <1>2, AppendProperties
<1> DEFINE r == Ahead(undone, files, store)
           q == Ahead(undone', files', store')
           f == Redone(undone', files', store')
           g == Redone(undone, files, store)
<1>10. r[l] = now /\ q[l] = now
  <2>1. r[l] = now
    BY <1>2, AheadNow
  <2>2. Len(undone') - 1 = l /\ Len(undone') # 0
    BY <1>2, <1>9
  <2>3. q[Len(undone') - 1] = [files |-> Over(undone'[Len(undone')].after, files'),
                               log   |-> store' \o undone'[Len(undone')].events]
    BY <1>2, <2>2, AheadNext
  <2> HIDE DEF q, r, l
  <2> QED
    BY <1>1, <1>9, <2>1, <2>2, <2>3
<1>11. \A k \in 0..l : r[k] = q[k]
  <2> DEFINE v == undone'
  <2>1. /\ undone \in Seq(RewindType) /\ v \in Seq(RewindType)
        /\ l \in Nat /\ l <= Len(undone) /\ l <= Len(v)
        /\ \A k \in 1..l : undone[k] = v[k]
    BY <1>2, <1>9
  <2>2. Aheads(r, undone, files, store, 0) /\ Aheads(q, v, files', store', 0) /\ r[l] = q[l]
    BY <1>2, <1>10, AheadEquation, LenProperties
  <2> HIDE DEF v, r, q, l
  <2> QED
    BY <2>1, <2>2, AheadAgree
<1>12. /\ f = [k \in 1..(l + 1) |-> f[k]]
       /\ \A k \in 1..(l + 1) :
            f[k] = [now |-> q[k - 1], past |-> Beginnings(undone'[k].turns, q[k - 1].files, q[k - 1].log)]
  BY <1>2, <1>9, RedoneIs
<1>13. /\ g = [k \in 1..l |-> g[k]]
       /\ \A k \in 1..l :
            g[k] = [now |-> r[k - 1], past |-> Beginnings(undone[k].turns, r[k - 1].files, r[k - 1].log)]
  BY <1>2, RedoneIs
<1> HIDE DEF f, g, r, q, past, now, l
<1>14. \A k \in 1..l : f[k] = g[k]
  <2> TAKE k \in 1..l
  <2>1. k \in 1..(l + 1) /\ k - 1 \in 0..l
    BY <1>2
  <2>2. q[k - 1] = r[k - 1] /\ undone'[k] = undone[k]
    BY <1>9, <1>11, <2>1
  <2> QED
    BY <1>12, <1>13, <2>1, <2>2
<1>15. f[l + 1] = [now |-> now, past |-> SubSeq(past, n, Len(past))]
  <2>1. l + 1 \in 1..(l + 1) /\ l + 1 - 1 = l
    BY <1>2
  <2>2. f[l + 1] = [now |-> q[l], past |-> Beginnings(u.turns, q[l].files, q[l].log)]
    <3> DEFINE m == l + 1
    <3>1. m \in 1..(l + 1) /\ m - 1 = l /\ undone'[m] = u
      <4>1. m \in 1..(l + 1) /\ m - 1 = l
        BY <1>2
      <4>2. undone'[m] = u
        BY <1>9
      <4> QED
        BY <4>1, <4>2
    <3> HIDE DEF m
    <3>2. f[m] = [now  |-> q[m - 1],
                  past |-> Beginnings(undone'[m].turns, q[m - 1].files, q[m - 1].log)]
      BY <1>12, <3>1
    <3>3. f[m] = [now |-> q[l], past |-> Beginnings(u.turns, q[l].files, q[l].log)]
      BY <3>1, <3>2
    <3> QED
      BY <3>3 DEF m
  <2>3. q[l].files = files /\ q[l].log = store
    BY <1>10 DEF now
  <2>4. Beginnings(u.turns, q[l].files, q[l].log) = SubSeq(past, n, Len(past))
    BY <1>5, <1>8, <2>3
  <2> QED
    BY <1>10, <2>2, <2>4
<1>16. f = Append(g, f[l + 1])
  <2> DEFINE S == {f[k] : k \in 1..(l + 1)}
  <2>1. (\A k \in 1..(l + 1) : f[k] \in S) /\ \A k \in 1..l : k \in 1..(l + 1)
    BY <1>2
  <2> HIDE DEF S
  <2>2. f \in [1..(l + 1) -> S]
    BY <1>12, <2>1
  <2>3. g \in [1..l -> S]
    BY <1>13, <1>14, <2>1
  <2> QED
    BY <1>2, <1>14, <2>2, <2>3, AppendIs
<1>17. f = Append(g, [now |-> now, past |-> SubSeq(past, n, Len(past))])
  BY <1>15, <1>16
<1>18. n \in DOMAIN past
  BY <1>4
<1> QED
  BY <1>6, <1>7, <1>17, <1>18 DEF States!Rewind, f, g, past, now

LEMMA RedoIsRedo ==
  ASSUME HistoryInv, HistoryInv', call = "none", Redo
  PROVE  States!Redo
<1> DEFINE l == Len(undone)
           u == undone[l]
           past == Beginnings(stack, files, store)
<1>1. /\ undone # <<>> /\ before' = before
      /\ files' = Over(Last(undone).after, files) /\ store' = store \o Last(undone).events
      /\ stack' = stack \o Last(undone).turns /\ undone' = Front(undone)
  BY DEF Redo
<1>2. /\ stack \in Seq(TurnType) /\ store \in Seq(EventType) /\ undone \in Seq(RewindType)
      /\ stack' \in Seq(TurnType) /\ undone' \in Seq(RewindType)
  BY DEF HistoryInv, TypeOK
<1>3. /\ l \in Nat \ {0} /\ Last(undone) = u /\ u \in RewindType
      /\ Len(undone') = l - 1 /\ \A k \in 1..(l - 1) : undone'[k] = undone[k]
  BY <1>1, <1>2, LastRewind
<1>4. /\ files' = Over(u.after, files) /\ store' = store \o u.events
      /\ stack' = stack \o u.turns
  BY <1>1, <1>3
<1>5. u.turns \in Seq(TurnType) /\ u.events \in Seq(EventType)
  BY <1>3 DEF RewindType
<1>6. /\ past = Snaps(stack, store, before) /\ Within(stack, store)
      /\ Beginnings(stack', files', store') = Snaps(stack', store', before)
  <2>1. Chain(stack', files', before)
    BY <1>1 DEF HistoryInv, FilesInv
  <2> QED
    BY <1>2, <2>1, PastIs, BeginningsAre
<1>7. Beginnings(u.turns, files', store') = Snaps(u.turns, store', before)
  <2>1. l \in 1..l
    BY <1>3
  <2>2. Chain(u.turns, Landing(u, before), before)
    BY <2>1 DEF HistoryInv, FilesInv
  <2>3. files' = Landing(u, before)
    BY FilesRedo DEF HistoryInv
  <2> HIDE DEF u
  <2> QED
    BY <1>5, <2>2, <2>3, BeginningsAre
<1> HIDE DEF u, past
<1>8. Beginnings(stack', files', store') = past \o Beginnings(u.turns, files', store')
  <2> DEFINE t == u.turns
             m == u.events
  <2>1. /\ store \in Seq(EventType) /\ m \in Seq(EventType)
        /\ stack \in Seq(TurnType) /\ t \in Seq(TurnType) /\ Within(stack, store)
    BY <1>2, <1>5, <1>6
  <2> HIDE DEF t, m
  <2>2. Snaps(stack \o t, store \o m, before)
          = Snaps(stack, store, before) \o Snaps(t, store \o m, before)
    BY <2>1, SnapsJoin
  <2> QED
    BY <1>4, <1>6, <1>7, <2>2 DEF t, m
<1> DEFINE r == Ahead(undone, files, store)
           q == Ahead(undone', files', store')
           g == Redone(undone', files', store')
           f == Redone(undone, files, store)
<1>9. /\ r[l - 1] = [files |-> files', log |-> store']
      /\ q[l - 1] = [files |-> files', log |-> store']
  <2>1. r[Len(undone) - 1] = [files |-> Over(undone[Len(undone)].after, files),
                              log   |-> store \o undone[Len(undone)].events]
    BY <1>2, <1>3, AheadNext
  <2>2. q[Len(undone')] = [files |-> files', log |-> store']
    BY <1>2, AheadNow
  <2> HIDE DEF r, q
  <2> QED
    BY <1>3, <1>4, <2>1, <2>2 DEF u
<1>10. \A k \in 0..(l - 1) : r[k] = q[k]
  <2> DEFINE n == l - 1
             v == undone'
  <2>1. /\ undone \in Seq(RewindType) /\ v \in Seq(RewindType)
        /\ n \in Nat /\ n <= Len(undone) /\ n <= Len(v)
        /\ \A k \in 1..n : undone[k] = v[k]
    BY <1>2, <1>3
  <2>2. Aheads(r, undone, files, store, 0) /\ Aheads(q, v, files', store', 0) /\ r[n] = q[n]
    BY <1>2, <1>9, AheadEquation, LenProperties
  <2> HIDE DEF n, v, r, q
  <2>3. \A k \in 0..n : r[k] = q[k]
    BY <2>1, <2>2, AheadAgree
  <2> QED
    BY <2>3 DEF n
<1>11. /\ f = [k \in 1..l |-> f[k]]
       /\ \A k \in 1..l :
            f[k] = [now |-> r[k - 1], past |-> Beginnings(undone[k].turns, r[k - 1].files, r[k - 1].log)]
  BY <1>2, RedoneIs
<1>12. /\ g = [k \in 1..(l - 1) |-> g[k]]
       /\ \A k \in 1..(l - 1) :
            g[k] = [now |-> q[k - 1], past |-> Beginnings(undone'[k].turns, q[k - 1].files, q[k - 1].log)]
  BY <1>2, <1>3, RedoneIs
<1> HIDE DEF f, g, r, q, l
<1>13. \A k \in 1..(l - 1) : f[k] = g[k]
  <2> TAKE k \in 1..(l - 1)
  <2>1. k \in 1..l /\ k - 1 \in 0..(l - 1)
    BY <1>3
  <2>2. q[k - 1] = r[k - 1] /\ undone'[k] = undone[k]
    BY <1>3, <1>10, <2>1
  <2> QED
    BY <1>11, <1>12, <2>1, <2>2
<1>14. f[l] = [now  |-> [files |-> files', log |-> store'],
               past |-> Beginnings(u.turns, files', store')]
  <2>1. l \in 1..l /\ undone[l] = u
    BY <1>3 DEF u
  <2>2. f[l] = [now |-> r[l - 1], past |-> Beginnings(u.turns, r[l - 1].files, r[l - 1].log)]
    BY <1>11, <2>1
  <2>3. r[l - 1].files = files' /\ r[l - 1].log = store'
    BY <1>9
  <2> QED
    BY <1>9, <2>2, <2>3
<1>15. g = SubSeq(f, 1, l - 1) /\ Len(f) = l /\ f # <<>>
  <2> DEFINE S == {f[k] : k \in 1..l}
  <2>1. (\A k \in 1..l : f[k] \in S) /\ \A k \in 1..(l - 1) : k \in 1..l
    BY <1>3
  <2> HIDE DEF S
  <2>2. f \in [1..l -> S]
    BY <1>11, <2>1
  <2>3. g \in [1..(l - 1) -> S]
    BY <1>12, <1>13, <2>1
  <2> QED
    BY <1>3, <1>13, <2>2, <2>3, FrontIs
<1>16. /\ [files |-> files', log |-> store'] = f[Len(f)].now
       /\ Beginnings(stack', files', store') = past \o f[Len(f)].past
  <2> DEFINE last == f[Len(f)]
  <2>1. last = f[l]
    BY <1>15
  <2> HIDE DEF last
  <2>2. /\ last.now = [files |-> files', log |-> store']
        /\ last.past = Beginnings(u.turns, files', store')
    BY <1>14, <2>1
  <2>3. Beginnings(stack', files', store') = past \o last.past
    BY <1>8, <2>2
  <2> QED
    BY <2>2, <2>3 DEF last
<1>17. g = SubSeq(f, 1, Len(f) - 1)
  BY <1>15
<1> QED
  BY <1>15, <1>16, <1>17 DEF States!Redo, f, g, past

LEMMA HistoryInvariant ==
  ASSUME HooksRewrite = FALSE, OtherWriters = FALSE, Notes = FALSE, Clears = FALSE,
         CommandsMidRun = FALSE
  PROVE  Spec => []HistoryInv
<1>1. Init => HistoryInv
  BY InitType, FilesInit, LogInit, HeightInit DEF HistoryInv
<1>2. HistoryInv /\ [Next]_vars => HistoryInv'
  BY TypeStep, IdleStep, FilesStep, LogStep, HeightStep DEF HistoryInv
<1> QED
  BY <1>1, <1>2, PTL DEF Spec

(* As long as only captured paths are written, and neither the mode, nor   *)
(* /clear, nor a command beside a run moves the log behind the turns'      *)
(* back, the captures of first changes and the positions in the log are as *)
(* good as a snapshot of the whole project and conversation at each        *)
(* prompt, over every sequence of prompts, rewinds and redos.              *)
THEOREM CapturesAreSnapshots ==
  ASSUME HooksRewrite = FALSE, OtherWriters = FALSE, Notes = FALSE, Clears = FALSE,
         CommandsMidRun = FALSE
  PROVE  Spec => IsTimeline
<1>1. ASSUME HistoryInv, HistoryInv', [Next]_vars
      PROVE  States!Next \/ UNCHANGED States!vars
  <2>0. /\ Texts \subseteq Contents /\ "absent" \in Contents /\ Paths # {} /\ prompts \in Nat
        /\ {"tool_result", "assistant_message"} \subseteq EventTypes
    BY <1>1, HistoryAssumption DEF Contents, EventTypes, HistoryInv, TypeOK
  <2>1. CASE Prompt
    BY <1>1, <2>1, PromptIsPrompt DEF States!Next
  <2>2. ASSUME NEW p \in Paths, BeforeTool(p) PROVE UNCHANGED States!vars
    BY <1>1, <2>2, CaptureIsStutter
  <2>3. ASSUME NEW p \in Paths, NEW t \in Texts, Write(p, t) PROVE States!Change
    <3> DEFINE e == Event("tool_result", <<prompts>>)
    <3>1. /\ running /\ store' = Append(store, e) /\ files' = [files EXCEPT ![p] = t]
          /\ UNCHANGED <<stack, undone, before>> /\ t \in Contents
      BY <1>1, <2>0, <2>3 DEF Write, HistoryInv, IdleInv
    <3>2. e \in EventType
      BY <2>0, EventIsEvent
    <3> HIDE DEF e
    <3> QED
      BY <1>1, <3>1, <3>2, EventIsChange
  <2>4. CASE Refuse \/ Answer
    <3>1. PICK type \in EventTypes : store' = Append(store, Event(type, <<prompts>>))
      BY <2>0, <2>4 DEF Refuse, Answer
    <3> DEFINE e == Event(type, <<prompts>>)
    <3>2. e \in EventType
      BY <2>0, EventIsEvent
    <3>3. PICK p \in Paths : TRUE
      BY <2>0
    <3>4. /\ running /\ store' = Append(store, e) /\ files' = files
          /\ UNCHANGED <<stack, undone, before>>
      BY <1>1, <2>4, <3>1 DEF Refuse, Answer, HistoryInv, IdleInv
    <3> HIDE DEF e
    <3>5. States!Change
      BY <1>1, <2>0, <3>2, <3>3, <3>4, EventIsChange
    <3> QED
      BY <3>5 DEF States!Next
  <2>5. CASE RewindTurns
    <3>1. PICK n \in 1..Len(stack) : RewindTo(n)
      BY <1>1, <2>5, LenProperties DEF RewindTurns, HistoryInv, TypeOK
    <3>2. call = "none"
      BY <1>1, <2>5 DEF RewindTurns, AtPrompt, HistoryInv, IdleInv
    <3> QED
      BY <1>1, <3>1, <3>2, RewindIsRewind DEF States!Next
  <2>6. CASE Redo
    <3>1. call = "none"
      BY <1>1, <2>6 DEF Redo, AtPrompt, HistoryInv, IdleInv
    <3> QED
      BY <1>1, <2>6, <3>1, RedoIsRedo DEF States!Next
  <2>7. CASE UNCHANGED vars
    BY <2>7 DEF vars, States!vars
  <2>8. ~ Note /\ ~ Clear /\ \A p \in Paths, c \in Contents : ~ WriteElse(p, c)
    BY DEF Note, Clear, WriteElse
  <2> QED
    BY <1>1, <2>1, <2>2, <2>3, <2>4, <2>5, <2>6, <2>7, <2>8 DEF Next, States!Next
<1>2. HistoryInv /\ HistoryInv' /\ [Next]_vars => [States!Next]_(States!vars)
  BY <1>1
<1> QED
  BY <1>2, InitIsInit, HistoryInvariant, PTL DEF Spec, IsTimeline, States!Spec
==============================================================================
