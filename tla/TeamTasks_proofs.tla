--------------------------- MODULE TeamTasks_proofs ---------------------------
(***************************************************************************)
(* Theorems about the shared task list.  First what the atomic board keeps *)
(* true; then, while a stale lock is removed by one teammate only, that    *)
(* the lock excludes and the files implement the board, so that the        *)
(* board's invariants hold of the files as well.  Last, about Worktrees:   *)
(* merges of sub-agents keep each other's work.                            *)
(***************************************************************************)
EXTENDS TeamTasks, Mailbox, Worktrees, WellFoundedInduction, FiniteSetTheorems, SequenceTheorems, TLAPS

-----------------------------------------------------------------------------
(* Operators. *)

(* A nonempty set of naturals has a least element. *)
LEMMA LeastNatural ==
  ASSUME NEW T \in SUBSET Nat, T # {}
  PROVE  \E m \in T : \A k \in T : m <= k
<1> DEFINE R == OpToRel(<, Nat)
<1>1. IsWellFoundedOn(R, Nat)
  BY NatLessThanWellFounded
<1>2. \A x, y \in Nat : x < y => <<x, y>> \in R
  BY DEF OpToRel
<1> HIDE DEF R
<1>3. PICK m \in T : \A y \in T : ~ (<<y, m>> \in R)
  BY <1>1, WFMin
<1>4. \A k \in T : ~ (k < m)
  BY <1>2, <1>3
<1> QED
  BY <1>4

LEMMA TaskFields ==
  ASSUME NEW list \in Seq(Task)
  PROVE  /\ DOMAIN list = 1..Len(list) /\ Len(list) \in Nat
         /\ \A i \in DOMAIN list : /\ list[i] \in Task
                                   /\ list[i].status \in Statuses
                                   /\ i \in Nat
<1>1. DOMAIN list = 1..Len(list) /\ Len(list) \in Nat
  BY LenProperties
<1>2. \A i \in DOMAIN list : list[i] \in Task
  BY <1>1, ElementOfSeq
<1> QED
  BY <1>1, <1>2 DEF Task

LEMMA TakenByFields ==
  ASSUME NEW x \in Task, NEW mate \in Mates
  PROVE  /\ TakenBy(mate, x) \in Task
         /\ TakenBy(mate, x).status = "claimed" /\ TakenBy(mate, x).owner = mate
         /\ TakenBy(mate, x).files = x.files
         /\ TakenBy(mate, x).dependsOn = x.dependsOn
  BY DEF Task, TakenBy, Statuses

(* A changed element keeps the list a list of tasks. *)
LEMMA ChangedType ==
  ASSUME NEW list \in Seq(Task), NEW new, DOMAIN new = DOMAIN list,
         new = [i \in DOMAIN list |-> new[i]],
         \A i \in DOMAIN list : new[i] \in Task
  PROVE  new \in Seq(Task)
<1>1. DOMAIN list = 1..Len(list) /\ Len(list) \in Nat
  BY TaskFields
<1>2. new \in [1..Len(list) -> Task]
  BY <1>1
<1> QED
  BY <1>1, <1>2

(* claim takes a task that may be claimed, and changes nothing else. *)
LEMMA ClaimedEffect ==
  ASSUME NEW list \in Seq(Task), Claimable(list) # {}, NEW mate \in Mates,
         NEW t, t = First(Claimable(list))
  PROVE  /\ t \in Claimable(list)
         /\ Claimed(list, mate) \in Seq(Task)
         /\ DOMAIN Claimed(list, mate) = DOMAIN list
         /\ Claimed(list, mate)[t] = TakenBy(mate, list[t])
         /\ \A i \in DOMAIN list \ {t} : Claimed(list, mate)[i] = list[i]
<1>1. Claimable(list) \in SUBSET Nat
  BY TaskFields DEF Claimable
<1>2. \E i \in Claimable(list) : \A j \in Claimable(list) : i <= j
  BY <1>1, LeastNatural
<1>3. t \in Claimable(list)
  BY <1>2 DEF First
<1>4. t \in DOMAIN list
  BY <1>3 DEF Claimable
<1>5. Claimed(list, mate) = [list EXCEPT ![t] = TakenBy(mate, list[t])]
  BY DEF Claimed
<1>6. DOMAIN Claimed(list, mate) = DOMAIN list
  BY <1>5
<1>7. Claimed(list, mate)[t] = TakenBy(mate, list[t])
  BY <1>4, <1>5
<1>8. \A i \in DOMAIN list \ {t} : Claimed(list, mate)[i] = list[i]
  BY <1>5
<1>9. \A i \in DOMAIN list : Claimed(list, mate)[i] \in Task
  <2>1. TakenBy(mate, list[t]) \in Task
    BY <1>4, TaskFields, TakenByFields
  <2> QED
    BY <1>7, <1>8, <2>1, TaskFields
<1>10. Claimed(list, mate) = [i \in DOMAIN list |-> Claimed(list, mate)[i]]
  BY <1>5
<1>11. Claimed(list, mate) \in Seq(Task)
  BY <1>6, <1>9, <1>10, ChangedType
<1> QED
  BY <1>3, <1>6, <1>7, <1>8, <1>11

LEMMA CompletedEffect ==
  ASSUME NEW list \in Seq(Task), NEW t \in DOMAIN list
  PROVE  /\ Completed(list, t) \in Seq(Task)
         /\ DOMAIN Completed(list, t) = DOMAIN list
         /\ Completed(list, t)[t] = [list[t] EXCEPT !.status = "completed"]
         /\ \A i \in DOMAIN list \ {t} : Completed(list, t)[i] = list[i]
<1>1. /\ DOMAIN Completed(list, t) = DOMAIN list
      /\ Completed(list, t)[t] = [list[t] EXCEPT !.status = "completed"]
      /\ \A i \in DOMAIN list \ {t} : Completed(list, t)[i] = list[i]
      /\ Completed(list, t) = [i \in DOMAIN list |-> Completed(list, t)[i]]
  BY DEF Completed
<1>2. [list[t] EXCEPT !.status = "completed"] \in Task
  <2>1. list[t] \in Task
    BY TaskFields
  <2>2. [list[t] EXCEPT !.status = "completed"].status = "completed" /\ "completed" \in Statuses
    BY DEF Statuses
  <2> QED
    BY <2>1, <2>2 DEF Task
<1>3. \A i \in DOMAIN list : Completed(list, t)[i] \in Task
  BY <1>1, <1>2, TaskFields
<1>4. Completed(list, t) \in Seq(Task)
  BY <1>1, <1>3, ChangedType
<1> QED
  BY <1>1, <1>4

LEMMA AddedEffect ==
  ASSUME NEW list \in Seq(Task), NEW deps \in SUBSET (1..MaxTasks), NEW fs \in SUBSET Files
  PROVE  /\ Added(list, deps, fs) \in Seq(Task)
         /\ DOMAIN Added(list, deps, fs) = DOMAIN list \cup {Len(list) + 1}
         /\ \A i \in DOMAIN list : Added(list, deps, fs)[i] = list[i]
         /\ Added(list, deps, fs)[Len(list) + 1].status = "pending"
<1> DEFINE new == [status |-> "pending", owner |-> NoOne, dependsOn |-> deps, files |-> fs]
<1>1. new \in Task
  BY DEF Task, Statuses
<1>2. new.status = "pending"
  OBVIOUS
<1> HIDE DEF new
<1>3. Added(list, deps, fs) = Append(list, new)
  BY DEF Added, new
<1>4. /\ Append(list, new) \in Seq(Task)
      /\ Len(Append(list, new)) = Len(list) + 1
      /\ \A i \in 1..Len(list) : Append(list, new)[i] = list[i]
      /\ Append(list, new)[Len(list) + 1] = new
  BY <1>1, AppendProperties
<1>5. DOMAIN list = 1..Len(list) /\ Len(list) \in Nat
  BY TaskFields
<1>6. DOMAIN Append(list, new) = 1..(Len(list) + 1)
  BY <1>4, LenProperties
<1> QED
  BY <1>2, <1>3, <1>4, <1>5, <1>6

-----------------------------------------------------------------------------
(* The board. *)

LEMMA BoardInitInv == BoardInit => BoardInv /\ NoOverlap
<1> SUFFICES ASSUME BoardInit PROVE BoardInv /\ NoOverlap
  OBVIOUS
<1>1. tasks = <<>> /\ handed = {} /\ tasks \in Seq(Task) /\ DOMAIN tasks = {}
  BY EmptySeq DEF BoardInit
<1> QED
  BY <1>1 DEF BoardInv, NoOverlap

LEMMA AddStep ==
  ASSUME BoardInv, NoOverlap, Add
  PROVE  BoardInv' /\ NoOverlap'
<1>1. PICK deps \in SUBSET (1..MaxTasks), fs \in SUBSET Files :
        tasks' = Added(tasks, deps, fs) /\ handed' = handed
  BY DEF Add
<1>2. /\ tasks' \in Seq(Task)
      /\ DOMAIN tasks' = DOMAIN tasks \cup {Len(tasks) + 1}
      /\ \A i \in DOMAIN tasks : tasks'[i] = tasks[i]
      /\ tasks'[Len(tasks) + 1].status = "pending"
  BY <1>1, AddedEffect DEF BoardInv
<1>3. BoardInv'
  BY <1>1, <1>2 DEF BoardInv
<1>4. \A i \in DOMAIN tasks' : tasks'[i].status = "claimed" => i \in DOMAIN tasks
  BY <1>2
<1>5. Done(tasks) \subseteq Done(tasks')
  BY <1>2 DEF Done
<1>6. NoOverlap'
  BY <1>2, <1>4, <1>5 DEF NoOverlap
<1> QED
  BY <1>3, <1>6

LEMMA ClaimStep ==
  ASSUME BoardInv, NoOverlap, NEW mate \in Mates, Claim(mate)
  PROVE  BoardInv' /\ NoOverlap'
<1>0. tasks \in Seq(Task) /\ Claimable(tasks) # {} /\ tasks' = Claimed(tasks, mate)
  BY DEF Claim, BoardInv
<1>t. PICK t : t = First(Claimable(tasks))
  OBVIOUS
<1>1. /\ t \in Claimable(tasks)
      /\ Claimed(tasks, mate) \in Seq(Task)
      /\ DOMAIN Claimed(tasks, mate) = DOMAIN tasks
      /\ Claimed(tasks, mate)[t] = TakenBy(mate, tasks[t])
      /\ \A i \in DOMAIN tasks \ {t} : Claimed(tasks, mate)[i] = tasks[i]
  BY <1>0, <1>t, ClaimedEffect
<1>2. handed' = handed \cup {<<t, mate>>}
  BY <1>t DEF Claim
<1>3. /\ tasks' \in Seq(Task) /\ DOMAIN tasks' = DOMAIN tasks
      /\ tasks'[t] = TakenBy(mate, tasks[t])
      /\ \A i \in DOMAIN tasks \ {t} : tasks'[i] = tasks[i]
  BY <1>0, <1>1
<1>4. /\ t \in DOMAIN tasks /\ t \in Nat
      /\ tasks[t] \in Task /\ tasks[t].status = "pending"
      /\ tasks[t].dependsOn \subseteq Done(tasks)
      /\ tasks[t].files \cap OwnedFiles(tasks) = {}
  BY <1>0, <1>1, TaskFields DEF Claimable
<1>5. /\ tasks'[t].status = "claimed" /\ tasks'[t].owner = mate
      /\ tasks'[t].files = tasks[t].files /\ tasks'[t].dependsOn = tasks[t].dependsOn
  BY <1>3, <1>4, TakenByFields
<1>6. BoardInv'
  <2>1. ASSUME NEW h \in handed'
        PROVE  /\ h[1] \in DOMAIN tasks'
               /\ tasks'[h[1]].status # "pending" /\ tasks'[h[1]].owner = h[2]
    <3>1. CASE h = <<t, mate>>
      BY <1>3, <1>4, <1>5, <3>1
    <3>2. CASE h \in handed
      <4>1. h[1] # t /\ h[1] \in DOMAIN tasks
        BY <1>4, <3>2 DEF BoardInv
      <4> QED
        BY <1>3, <3>2, <4>1 DEF BoardInv
    <3> QED
      BY <1>2, <3>1, <3>2
  <2>2. handed' \subseteq Nat \X Mates
    BY <1>2, <1>4 DEF BoardInv
  <2> QED
    BY <1>3, <2>1, <2>2 DEF BoardInv
<1>7. Done(tasks) \subseteq Done(tasks')
  BY <1>3, <1>4 DEF Done
<1>8. \A i \in DOMAIN tasks : tasks[i].status = "claimed"
                                => tasks[i].files \cap tasks[t].files = {}
  BY <1>4 DEF OwnedFiles
<1>9. NoOverlap'
  <2>1. ASSUME NEW i \in DOMAIN tasks, tasks'[i].status = "claimed"
        PROVE  tasks'[i].dependsOn \subseteq Done(tasks')
    <3>1. CASE i = t
      BY <1>4, <1>5, <1>7, <3>1
    <3>2. CASE i # t
      <4>1. tasks[i].dependsOn \subseteq Done(tasks) /\ tasks'[i] = tasks[i]
        BY <1>3, <2>1, <3>2 DEF NoOverlap
      <4> QED
        BY <1>7, <4>1
    <3> QED
      BY <3>1, <3>2
  <2>2. ASSUME NEW i \in DOMAIN tasks, NEW j \in DOMAIN tasks, i # j,
               tasks'[i].status = "claimed", tasks'[j].status = "claimed"
        PROVE  tasks'[i].files \cap tasks'[j].files = {}
    <3>1. CASE i = t
      <4>1. tasks'[j] = tasks[j]
        BY <1>3, <2>2, <3>1
      <4> QED
        BY <1>5, <1>8, <2>2, <3>1, <4>1
    <3>2. CASE j = t
      <4>1. tasks'[i] = tasks[i]
        BY <1>3, <2>2, <3>2
      <4> QED
        BY <1>5, <1>8, <2>2, <3>2, <4>1
    <3>3. CASE i # t /\ j # t
      <4>1. tasks'[i] = tasks[i] /\ tasks'[j] = tasks[j]
        BY <1>3, <3>3
      <4> QED
        BY <2>2, <4>1 DEF NoOverlap
    <3> QED
      BY <3>1, <3>2, <3>3
  <2> QED
    BY <1>3, <2>1, <2>2 DEF NoOverlap
<1> QED
  BY <1>6, <1>9

LEMMA CompleteStep ==
  ASSUME BoardInv, NoOverlap, NEW t \in DOMAIN tasks, Complete(t)
  PROVE  BoardInv' /\ NoOverlap'
<1>1. /\ tasks' \in Seq(Task)
      /\ DOMAIN tasks' = DOMAIN tasks
      /\ tasks'[t] = [tasks[t] EXCEPT !.status = "completed"]
      /\ \A i \in DOMAIN tasks \ {t} : tasks'[i] = tasks[i]
      /\ handed' = handed
  BY CompletedEffect DEF Complete, BoardInv
<1>2. tasks[t] \in Task
  BY TaskFields DEF BoardInv
<1>3. tasks'[t].status = "completed" /\ tasks'[t].owner = tasks[t].owner
  BY <1>1, <1>2 DEF Task
<1>4. BoardInv'
  BY <1>1, <1>3 DEF BoardInv
<1>5. Done(tasks) \subseteq Done(tasks')
  BY <1>1, <1>3 DEF Done
<1>6. \A i \in DOMAIN tasks' : tasks'[i].status = "claimed" => i # t
  BY <1>3
<1>7. NoOverlap'
  BY <1>1, <1>5, <1>6 DEF NoOverlap
<1> QED
  BY <1>4, <1>7

LEMMA BoardStep == BoardInv /\ NoOverlap /\ [BoardNext]_boardVars => BoardInv' /\ NoOverlap'
<1>1. CASE UNCHANGED boardVars
  BY <1>1 DEF boardVars, BoardInv, NoOverlap, Done
<1> QED
  BY <1>1, AddStep, ClaimStep, CompleteStep DEF BoardNext

LEMMA BoardInvariant == BoardSpec => [](BoardInv /\ NoOverlap)
  BY BoardInitInv, BoardStep, PTL DEF BoardSpec

LEMMA HandedOnce == BoardInv => ClaimedOnce
<1> SUFFICES ASSUME BoardInv, NEW a \in handed, NEW b \in handed, a[1] = b[1]
             PROVE  a = b
  BY DEF ClaimedOnce
<1>1. a \in Nat \X Mates /\ b \in Nat \X Mates /\ a[2] = b[2]
  BY DEF BoardInv
<1> QED
  BY <1>1
-----------------------------------------------------------------------------
(* The lock and the files. *)

LEMMA OpCases ==
  ASSUME NEW o \in Ops
  PROVE  \/ /\ o.kind = "add"
            /\ o.deps \in SUBSET (1..MaxTasks) /\ o.files \in SUBSET Files
         \/ o.kind = "claim"
         \/ o.kind = "complete"
  BY DEF Ops

LEMMA OutcomeType ==
  ASSUME NEW list \in Seq(Task), NEW o \in Ops, NEW m \in Mates
  PROVE  Outcome(list, o, m) \in Seq(Task) /\ Found(list, o) \in SUBSET Nat
<1>1. CASE o.kind = "add"
  BY <1>1, OpCases, AddedEffect DEF Outcome, Found
<1>2. CASE o.kind = "claim"
  <2>1. CASE Claimable(list) = {}
    BY <1>2, <2>1 DEF Outcome, Found
  <2>2. CASE Claimable(list) # {}
    <3>1. PICK t : t = First(Claimable(list))
      OBVIOUS
    <3>2. t \in Claimable(list) /\ Claimed(list, m) \in Seq(Task)
      BY <2>2, <3>1, ClaimedEffect
    <3>3. t \in Nat
      BY <3>2, TaskFields DEF Claimable
    <3> QED
      BY <1>2, <2>2, <3>1, <3>2, <3>3 DEF Outcome, Found
  <2> QED
    BY <2>1, <2>2
<1>3. CASE o.kind = "complete"
  BY <1>3, CompletedEffect DEF Outcome, Found
<1> QED
  BY <1>1, <1>2, <1>3, OpCases

LEMMA InitInv == Init => TypeOK /\ LockInv
<1> SUFFICES ASSUME Init PROVE TypeOK /\ LockInv
  OBVIOUS
<1>1. <<>> \in Seq(Task) /\ <<>> \in Seq(Seq(Task)) /\ Len(<<>>) = 0
  BY EmptySeq
<1>2. [kind |-> "claim"] \in Ops /\ 0 \in 0..MaxTasks
  BY TeamAssumption DEF Ops
<1>3. TypeOK
  <2>1. /\ tasks = <<>> /\ handed = {} /\ temp = <<>> /\ added = 0
        /\ lock = NoOne /\ old = FALSE
    BY DEF Init, BoardInit
  <2>2. /\ pc \in [Mates -> Places] /\ op \in [Mates -> Ops]
        /\ view \in [Mates -> Seq(Task)] /\ taken \in [Mates -> SUBSET Nat]
    BY <1>1, <1>2 DEF Init, Places
  <2>3. 0 <= 1
    OBVIOUS
  <2> QED
    BY <1>1, <1>2, <2>1, <2>2, <2>3 DEF TypeOK
<1>4. LockInv
  BY TeamAssumption DEF Init, LockInv, Inside
<1> QED
  BY <1>3, <1>4

LEMMA TypeStep ==
  ASSUME TypeOK, [Next]_vars
  PROVE  TypeOK'
<1> USE DEF TypeOK, Goto
<1>0. /\ tasks \in Seq(Task) /\ handed \subseteq (Nat \X Mates)
      /\ temp \in Seq(Seq(Task)) /\ Len(temp) <= 1
      /\ pc \in [Mates -> Places] /\ op \in [Mates -> Ops]
      /\ view \in [Mates -> Seq(Task)] /\ taken \in [Mates -> SUBSET Nat]
      /\ lock \in Mates \cup {NoOne} /\ old \in BOOLEAN /\ added \in 0..MaxTasks
  OBVIOUS
<1>1. ASSUME NEW m \in Mates, Call(m) PROVE TypeOK'
  <2>1. PICK o \in Ops : /\ o.kind = "add" => added < MaxTasks
                         /\ added' = IF o.kind = "add" THEN added + 1 ELSE added
                         /\ op' = [op EXCEPT ![m] = o]
    BY <1>1 DEF Call
  <2>2. added' \in 0..MaxTasks
    BY <1>0, <2>1, TeamAssumption
  <2>3. pc' = [pc EXCEPT ![m] = "trying"]
        /\ UNCHANGED <<tasks, handed, lock, old, temp, view, taken>>
    BY <1>1 DEF Call, boardVars
  <2>4. pc' \in [Mates -> Places] /\ op' \in [Mates -> Ops]
    BY <1>0, <2>1, <2>3 DEF Places
  <2> QED
    BY <1>0, <2>2, <2>3, <2>4
<1>l. ASSUME NEW m \in Mates, NEW place \in Places, Leave(m, place)
      PROVE  /\ pc' \in [Mates -> Places] /\ op' \in [Mates -> Ops]
             /\ view' \in [Mates -> Seq(Task)] /\ taken' \in [Mates -> SUBSET Nat]
  <2>1. [kind |-> "claim"] \in Ops /\ <<>> \in Seq(Task)
    BY EmptySeq DEF Ops
  <2>2. /\ pc' = [pc EXCEPT ![m] = place]
        /\ op' = [op EXCEPT ![m] = [kind |-> "claim"]]
        /\ view' = [view EXCEPT ![m] = <<>>] /\ taken' = [taken EXCEPT ![m] = {}]
    BY <1>l DEF Leave
  <2> QED
    BY <1>0, <2>1, <2>2
<1>2. ASSUME NEW m \in Mates, Acquire(m) \/ Fail(m) \/ Wake(m) \/ Break(m) \/ Release(m)
      PROVE  TypeOK'
  <2>1. CASE \E place \in {"idle"} : Leave(m, place)
    <3>1. /\ pc' \in [Mates -> Places] /\ op' \in [Mates -> Ops]
          /\ view' \in [Mates -> Seq(Task)] /\ taken' \in [Mates -> SUBSET Nat]
      BY <1>l, <2>1 DEF Places
    <3>2. lock' \in Mates \cup {NoOne} /\ old' \in BOOLEAN
      BY <1>0, <1>2 DEF Acquire, Fail, Wake, Break, Release
    <3>3. UNCHANGED <<tasks, handed, temp, added>>
      BY <1>2 DEF Acquire, Fail, Wake, Break, Release, boardVars
    <3> QED
      BY <1>0, <3>1, <3>2, <3>3
  <2>2. CASE (\E place \in Places : pc' = [pc EXCEPT ![m] = place])
             /\ UNCHANGED <<op, view, taken>>
    <3>1. lock' \in Mates \cup {NoOne} /\ old' \in BOOLEAN
      BY <1>0, <1>2 DEF Acquire, Fail, Wake, Break, Release
    <3>2. UNCHANGED <<tasks, handed, temp, added>>
      BY <1>2 DEF Acquire, Fail, Wake, Break, Release, boardVars
    <3> QED
      BY <1>0, <2>2, <3>1, <3>2
  <2> QED
    BY <1>2, <2>1, <2>2 DEF Acquire, Fail, Wake, Break, Release, Places
<1>3. ASSUME NEW m \in Mates, Mutate(m) PROVE TypeOK'
  <2>1. Outcome(tasks, op[m], m) \in Seq(Task) /\ Found(tasks, op[m]) \in SUBSET Nat
    BY <1>0, OutcomeType
  <2>2. /\ view' = [view EXCEPT ![m] = Outcome(tasks, op[m], m)]
        /\ taken' = [taken EXCEPT ![m] = Found(tasks, op[m])]
        /\ pc' = [pc EXCEPT ![m] = "mutated"]
        /\ UNCHANGED <<tasks, handed, lock, old, temp, op, added>>
    BY <1>3 DEF Mutate, boardVars
  <2>3. /\ view' \in [Mates -> Seq(Task)] /\ taken' \in [Mates -> SUBSET Nat]
        /\ pc' \in [Mates -> Places]
    BY <1>0, <2>1, <2>2 DEF Places
  <2> QED
    BY <1>0, <2>2, <2>3
<1>4. ASSUME NEW m \in Mates, WriteTemp(m) PROVE TypeOK'
  <2>1. /\ temp' = <<view[m]>> /\ pc' = [pc EXCEPT ![m] = "written"]
        /\ UNCHANGED <<tasks, handed, lock, old, op, view, taken, added>>
    BY <1>4 DEF WriteTemp, boardVars
  <2>2. view[m] \in Seq(Task)
    BY <1>0
  <2>3. temp' \in Seq(Seq(Task)) /\ Len(temp') = 1
    BY <2>1, <2>2
  <2>4. pc' \in [Mates -> Places]
    BY <1>0, <2>1 DEF Places
  <2> QED
    BY <1>0, <2>1, <2>3, <2>4
<1>5. ASSUME NEW m \in Mates, Rename(m) PROVE TypeOK'
  <2>1. /\ pc' = [pc EXCEPT ![m] = "releasing"]
        /\ UNCHANGED <<lock, old, op, view, taken, added>>
    BY <1>5 DEF Rename
  <2>2. pc' \in [Mates -> Places]
    BY <1>0, <2>1 DEF Places
  <2>3. /\ tasks' \in Seq(Task) /\ handed' \subseteq Nat \X Mates
        /\ temp' \in Seq(Seq(Task)) /\ Len(temp') <= 1
    <3>1. CASE temp = <<>>
      BY <1>0, <1>5, <3>1 DEF Rename, boardVars
    <3>2. CASE temp # <<>>
      <4>1. /\ tasks' = temp[1] /\ temp' = <<>>
            /\ handed' = handed \cup {<<t, m>> : t \in taken[m]}
        BY <1>5, <3>2 DEF Rename
      <4>2. temp[1] \in Seq(Task)
        BY <1>0, <3>2, LenProperties, ElementOfSeq
      <4>3. {<<t, m>> : t \in taken[m]} \subseteq Nat \X Mates
        BY <1>0
      <4>4. temp' \in Seq(Seq(Task)) /\ Len(temp') <= 1
        BY <4>1, EmptySeq
      <4> QED
        BY <1>0, <4>1, <4>2, <4>3, <4>4
    <3> QED
      BY <3>1, <3>2
  <2> QED
    BY <1>0, <2>1, <2>2, <2>3
<1>6. CASE Age
  <2>1. UNCHANGED <<tasks, handed, lock, temp, pc, op, view, taken, added>> /\ old' = TRUE
    BY <1>6 DEF Age, boardVars, mateVars
  <2> QED
    BY <1>0, <2>1
<1>7. ASSUME NEW m \in Mates, Kill(m) PROVE TypeOK'
  <2>1. Leave(m, "dead") /\ UNCHANGED <<tasks, handed, lock, old, temp, added>>
    BY <1>7 DEF Kill, boardVars
  <2>2. /\ pc' \in [Mates -> Places] /\ op' \in [Mates -> Ops]
        /\ view' \in [Mates -> Seq(Task)] /\ taken' \in [Mates -> SUBSET Nat]
    BY <1>l, <2>1 DEF Places
  <2> QED
    BY <1>0, <2>1, <2>2
<1>8. CASE UNCHANGED vars
  BY <1>0, <1>8 DEF vars, boardVars, mateVars
<1> QED
  BY <1>1, <1>2, <1>3, <1>4, <1>5, <1>6, <1>7, <1>8 DEF Next, Work

(* Every step of every process, killed or stalled ones included, leaves    *)
(* the files and the locals of transaction() in the shape they must have.  *)
THEOREM TypeCorrect == Spec => []TypeOK
<1>1. TypeOK /\ [Next]_vars => TypeOK'
  BY TypeStep
<1> QED
  BY InitInv, <1>1, PTL DEF Spec

(* With the lock its holder's or a dead teammate's, nobody else touches    *)
(* what who is inside uses.                                                *)
LEMMA LockStep ==
  ASSUME OneBreaker, TypeOK, LockInv, [Next]_vars
  PROVE  LockInv'
<1>0. /\ pc \in [Mates -> Places] /\ op \in [Mates -> Ops]
      /\ view \in [Mates -> Seq(Task)] /\ taken \in [Mates -> SUBSET Nat]
      /\ NoOne \notin Mates /\ lock \in Mates \cup {NoOne}
      /\ old => lock \in Mates /\ pc[lock] = "dead"
      /\ lock \in Mates => pc[lock] \in Inside \cup {"dead"}
      /\ \A m \in Mates :
           /\ pc[m] = "dead" => m \in Mortal
           /\ pc[m] = "breaking" => old
           /\ pc[m] \in Inside => lock = m
           /\ pc[m] \in {"mutated", "written"} =>
                view[m] = Outcome(tasks, op[m], m) /\ taken[m] = Found(tasks, op[m])
           /\ pc[m] = "written" => temp = <<view[m]>>
  BY TeamAssumption DEF TypeOK, LockInv
<1>1. ASSUME NEW m \in Mates,
             pc[m] \notin Inside \cup {"dead"},
             pc'[m] \in {"idle", "trying", "sleeping", "breaking"},
             pc'[m] = "breaking" => old,
             \A n \in Mates \ {m} : /\ pc'[n] = pc[n] /\ op'[n] = op[n]
                                   /\ view'[n] = view[n] /\ taken'[n] = taken[n],
             UNCHANGED <<boardVars, lock, old, temp>>
      PROVE  LockInv'
  BY <1>0, <1>1 DEF LockInv, Inside, boardVars
<1>2. ASSUME NEW m \in Mates, Call(m) \/ Fail(m) \/ Wake(m) PROVE LockInv'
  <2>1. /\ pc[m] \notin Inside \cup {"dead"}
        /\ pc'[m] \in {"idle", "trying", "sleeping", "breaking"}
        /\ pc'[m] = "breaking" => old
        /\ UNCHANGED <<boardVars, lock, old, temp>>
    BY <1>0, <1>2 DEF Call, Fail, Wake, Goto, Leave, Inside
  <2>2. \A n \in Mates \ {m} : /\ pc'[n] = pc[n] /\ op'[n] = op[n]
                               /\ view'[n] = view[n] /\ taken'[n] = taken[n]
    BY <1>0, <1>2 DEF Call, Fail, Wake, Goto, Leave
  <2> QED
    BY <1>1, <2>1, <2>2
<1>3. ASSUME NEW m \in Mates, Acquire(m) PROVE LockInv'
  <2>1. /\ pc' = [pc EXCEPT ![m] = "holding"] /\ lock = NoOne /\ lock' = m /\ ~old'
        /\ UNCHANGED <<tasks, handed, temp, op, view, taken>>
    BY <1>3 DEF Acquire, Goto, boardVars
  <2>2. ~old /\ \A n \in Mates : pc[n] \notin Inside \cup {"breaking"}
    BY <1>0, <2>1
  <2>3. pc'[m] = "holding" /\ \A n \in Mates \ {m} : pc'[n] = pc[n]
    BY <1>0, <2>1
  <2> QED
    BY <1>0, <2>1, <2>2, <2>3 DEF LockInv, Inside
<1>4. ASSUME NEW m \in Mates, Break(m) PROVE LockInv'
  <2>1. /\ pc[m] = "breaking" /\ pc' = [pc EXCEPT ![m] = "trying"]
        /\ lock' = NoOne /\ ~old' /\ UNCHANGED <<tasks, handed, temp, op, view, taken>>
    BY <1>4 DEF Break, Goto, boardVars
  <2>2. old /\ lock \in Mates /\ lock # m /\ pc[lock] = "dead" /\ lock \in Mortal
    BY <1>0, <2>1
  <2>3. \A n \in Mates : n = m \/ n = lock
    BY <2>2 DEF OneBreaker
  <2>4. pc'[m] = "trying" /\ pc'[lock] = "dead"
    BY <1>0, <2>1, <2>2
  <2>5. \A n \in Mates : pc'[n] \in {"trying", "dead"} /\ (pc'[n] = "dead" => n \in Mortal)
    BY <2>2, <2>3, <2>4
  <2> QED
    BY <1>0, <2>1, <2>5 DEF LockInv, Inside
<1>5. ASSUME NEW m \in Mates, pc[m] \in Inside
      PROVE  /\ lock = m /\ ~old
             /\ \A n \in Mates \ {m} : pc[n] \notin Inside \cup {"breaking"}
  BY <1>0, <1>5 DEF Inside
<1>6. ASSUME NEW m \in Mates, Mutate(m) PROVE LockInv'
  <2>1. /\ pc[m] = "holding" /\ pc' = [pc EXCEPT ![m] = "mutated"]
        /\ view' = [view EXCEPT ![m] = Outcome(tasks, op[m], m)]
        /\ taken' = [taken EXCEPT ![m] = Found(tasks, op[m])]
        /\ UNCHANGED <<tasks, handed, lock, old, temp, op>>
    BY <1>6 DEF Mutate, Goto, boardVars
  <2>2. lock = m /\ ~old /\ \A n \in Mates \ {m} : pc[n] \notin Inside \cup {"breaking"}
    BY <1>5, <2>1 DEF Inside
  <2>3. /\ pc'[m] = "mutated" /\ view'[m] = Outcome(tasks, op[m], m)
        /\ taken'[m] = Found(tasks, op[m])
        /\ \A n \in Mates \ {m} : pc'[n] = pc[n]
    BY <1>0, <2>1
  <2> QED
    BY <1>0, <2>1, <2>2, <2>3 DEF LockInv, Inside
<1>7. ASSUME NEW m \in Mates, WriteTemp(m) PROVE LockInv'
  <2>1. /\ pc[m] = "mutated" /\ pc' = [pc EXCEPT ![m] = "written"]
        /\ temp' = <<view[m]>>
        /\ UNCHANGED <<tasks, handed, lock, old, op, view, taken>>
    BY <1>7 DEF WriteTemp, Goto, boardVars
  <2>2. lock = m /\ ~old /\ \A n \in Mates \ {m} : pc[n] \notin Inside \cup {"breaking"}
    BY <1>5, <2>1 DEF Inside
  <2>3. pc'[m] = "written" /\ \A n \in Mates \ {m} : pc'[n] = pc[n]
    BY <1>0, <2>1
  <2> QED
    BY <1>0, <2>1, <2>2, <2>3 DEF LockInv, Inside
<1>8. ASSUME NEW m \in Mates, Rename(m) PROVE LockInv'
  <2>1. /\ pc[m] = "written" /\ pc' = [pc EXCEPT ![m] = "releasing"]
        /\ UNCHANGED <<lock, old, op, view, taken>>
    BY <1>8 DEF Rename, Goto
  <2>2. lock = m /\ ~old /\ \A n \in Mates \ {m} : pc[n] \notin Inside \cup {"breaking"}
    BY <1>5, <2>1 DEF Inside
  <2>3. pc'[m] = "releasing" /\ \A n \in Mates \ {m} : pc'[n] = pc[n]
    BY <1>0, <2>1
  <2> QED
    BY <1>0, <2>1, <2>2, <2>3 DEF LockInv, Inside
<1>9. ASSUME NEW m \in Mates, Release(m) PROVE LockInv'
  <2>1. /\ pc[m] = "releasing" /\ pc' = [pc EXCEPT ![m] = "idle"]
        /\ lock' = NoOne /\ ~old' /\ UNCHANGED temp
    BY <1>9 DEF Release, Leave, Goto
  <2>2. lock = m /\ ~old /\ \A n \in Mates \ {m} : pc[n] \notin Inside \cup {"breaking"}
    BY <1>5, <2>1 DEF Inside
  <2>3. pc'[m] = "idle" /\ \A n \in Mates \ {m} : pc'[n] = pc[n]
    BY <1>0, <2>1
  <2> QED
    BY <1>0, <2>1, <2>2, <2>3 DEF LockInv, Inside
<1>10. CASE Age
  <2>1. /\ lock \in Mates /\ pc[lock] = "dead" /\ old'
        /\ UNCHANGED <<tasks, handed, lock, temp, pc, op, view, taken>>
    BY <1>10 DEF Age, TypeOK, OneBreaker, boardVars, mateVars
  <2>2. \A m \in Mates : pc[m] \notin Inside
    BY <1>0, <2>1 DEF Inside
  <2> QED
    BY <1>0, <2>1, <2>2 DEF LockInv
<1>11. CASE UNCHANGED vars
  BY <1>0, <1>11 DEF vars, boardVars, mateVars, LockInv
<1>12. ASSUME NEW m \in Mates, Kill(m) PROVE LockInv'
  <2>1. /\ m \in Mortal /\ pc[m] # "dead"
        /\ UNCHANGED <<tasks, handed, lock, old, temp>>
    BY <1>12 DEF Kill, boardVars
  <2>2. /\ pc'[m] = "dead"
        /\ \A n \in Mates \ {m} : /\ pc'[n] = pc[n] /\ op'[n] = op[n]
                                 /\ view'[n] = view[n] /\ taken'[n] = taken[n]
    BY <1>0, <1>12 DEF Kill, Leave, Goto
  <2>3. /\ old' => lock' \in Mates /\ pc'[lock'] = "dead"
        /\ lock' \in Mates => pc'[lock'] \in Inside \cup {"dead"}
    BY <1>0, <2>1, <2>2
  <2> QED
    BY <1>0, <2>1, <2>2, <2>3 DEF LockInv, Inside
<1> QED
  BY <1>2, <1>3, <1>4, <1>6, <1>7, <1>8, <1>9, <1>10, <1>11, <1>12 DEF Next, Work

LEMMA LockInvariant ==
  ASSUME OneBreaker
  PROVE  Spec => [](TypeOK /\ LockInv)
<1>1. TypeOK /\ LockInv /\ [Next]_vars => TypeOK' /\ LockInv'
  BY TypeStep, LockStep
<1> QED
  BY InitInv, <1>1, PTL DEF Spec

(* FileLock: at most one teammate is in transaction() at a time: however   *)
(* many there are while none dies, and of two though either may die        *)
(* anywhere in it and leave its lock to the other.                         *)
THEOREM LockExcludes ==
  ASSUME OneBreaker
  PROVE  Spec => []MutualExclusion
<1>1. LockInv => MutualExclusion
  BY DEF LockInv, MutualExclusion
<1> QED
  BY LockInvariant, <1>1, PTL

-----------------------------------------------------------------------------
(* Refinement: the rename is where a transaction takes effect. *)

LEMMA RenameIsBoardStep ==
  ASSUME TypeOK, LockInv, NEW m \in Mates, Rename(m)
  PROVE  [BoardNext]_boardVars
<1>1. /\ temp = <<view[m]>>
      /\ view[m] = Outcome(tasks, op[m], m) /\ taken[m] = Found(tasks, op[m])
  BY DEF Rename, LockInv
<1>2. /\ tasks' = Outcome(tasks, op[m], m)
      /\ handed' = handed \cup {<<t, m>> : t \in Found(tasks, op[m])}
  BY <1>1 DEF Rename
<1>3. op[m] \in Ops
  BY DEF TypeOK
<1>4. CASE op[m].kind = "add"
  <2>1. /\ op[m].deps \in SUBSET (1..MaxTasks) /\ op[m].files \in SUBSET Files
        /\ tasks' = Added(tasks, op[m].deps, op[m].files) /\ handed' = handed
    BY <1>2, <1>3, <1>4, OpCases DEF Outcome, Found
  <2>2. Add
    BY <2>1 DEF Add
  <2> QED
    BY <2>2 DEF BoardNext
<1>5. CASE op[m].kind = "claim" /\ Claimable(tasks) = {}
  BY <1>2, <1>5 DEF Outcome, Found, boardVars
<1>6. CASE op[m].kind = "claim" /\ Claimable(tasks) # {}
  <2>1. Claim(m)
    BY <1>2, <1>6 DEF Claim, Outcome, Found
  <2> QED
    BY <2>1 DEF BoardNext
<1>7. CASE op[m].kind = "complete" /\ op[m].task \in DOMAIN tasks
  <2>1. Complete(op[m].task)
    BY <1>2, <1>7 DEF Complete, Outcome, Found
  <2> QED
    BY <1>7, <2>1 DEF BoardNext
<1>8. CASE op[m].kind = "complete" /\ op[m].task \notin DOMAIN tasks
  BY <1>2, <1>8 DEF Outcome, Found, boardVars
<1> QED
  BY <1>3, <1>4, <1>5, <1>6, <1>7, <1>8, OpCases

LEMMA BoardRefined == TypeOK /\ LockInv /\ [Next]_vars => [BoardNext]_boardVars
<1> SUFFICES ASSUME TypeOK, LockInv, [Next]_vars PROVE [BoardNext]_boardVars
  OBVIOUS
<1>1. CASE \E m \in Mates : Rename(m)
  BY <1>1, RenameIsBoardStep
<1>2. CASE \E m \in Mates : \/ Call(m) \/ Acquire(m) \/ Fail(m) \/ Wake(m) \/ Break(m)
                            \/ Mutate(m) \/ WriteTemp(m) \/ Release(m) \/ Kill(m)
  BY <1>2 DEF Call, Acquire, Fail, Wake, Break, Mutate, WriteTemp, Release, Kill
<1>3. CASE Age \/ UNCHANGED vars
  BY <1>3 DEF Age, vars
<1> QED
  BY <1>1, <1>2, <1>3 DEF Next, Work

(* TaskList.transaction: the lock file, the temporary file and the rename  *)
(* make every add, claim and complete one step on the list, and a process  *)
(* killed before its rename leaves the list as it was (IsBoard).           *)
THEOREM FilesImplementBoard ==
  ASSUME OneBreaker
  PROVE  Spec => IsBoard
<1>1. Init => BoardInit
  BY DEF Init
<1> QED
  BY LockInvariant, <1>1, BoardRefined, PTL DEF Spec, IsBoard, BoardSpec

(* TaskList.claim: then no task is handed to two teammates, or twice.      *)
THEOREM TasksClaimedOnce ==
  ASSUME OneBreaker
  PROVE  Spec => []ClaimedOnce
<1>1. BoardSpec => []ClaimedOnce
  BY BoardInvariant, HandedOnce, PTL
<1> QED
  BY <1>1, FilesImplementBoard DEF IsBoard

(* TaskList.claim: and no two tasks in progress own the same file, nor is  *)
(* one in progress before those it depends on are done.                    *)
THEOREM TasksNeverOverlap ==
  ASSUME OneBreaker
  PROVE  Spec => []NoOverlap
<1>1. BoardSpec => []NoOverlap
  BY BoardInvariant, PTL
<1> QED
  BY <1>1, FilesImplementBoard DEF IsBoard

-----------------------------------------------------------------------------
(* The mailbox, whatever the number of teammates and messages, wherever    *)
(* they are killed, while the lock excludes.                               *)

Mail == [to : Recipients \cup {"*"}, read : BOOLEAN]

MailType ==
  /\ messages \in Seq(Mail) /\ got \in [Recipients -> Seq(Nat)]
  /\ doing \in [Recipients -> {"out", "send", "inbox", "dead"}]
  /\ copy \in [Recipients -> Seq(Mail)]
  /\ to \in [Recipients -> Recipients \cup {"*"}]

(* What the one inside has read is still what the file holds. *)
ListInv == \A m \in Callers : copy[m] = messages

(* What a teammate was given is read and was for it, and so is whatever    *)
(* came before and was for it.                                             *)
GivenInv ==
  \A m \in Recipients : \A i \in 1..Len(got[m]) :
    /\ got[m][i] \in 1..Len(messages)
    /\ messages[got[m][i]].read /\ messages[got[m][i]].to \in {m, "*"}
    /\ \A k \in 1..got[m][i] : messages[k].to \in {m, "*"} => messages[k].read

GivenOnce ==
  \A m \in Recipients :
    /\ \A i, j \in 1..Len(got[m]) : i < j => got[m][i] < got[m][j]
    /\ \A n \in Recipients \ {m} : \A i \in 1..Len(got[m]), j \in 1..Len(got[n]) :
         got[m][i] # got[n][j]

MailInv == MailType /\ ListInv /\ GivenInv /\ GivenOnce

(* A function on 1..n is a sequence of n elements. *)
LEMMA AsSeq ==
  ASSUME NEW n \in Nat, NEW S, NEW f \in [1..n -> S]
  PROVE  f \in Seq(S) /\ Len(f) = n
OBVIOUS

LEMMA MailInit == MailboxInit => MailInv
<1> SUFFICES ASSUME MailboxInit PROVE MailInv
  OBVIOUS
<1>1. messages \in Seq(Mail) /\ got = [m \in Recipients |-> <<>>] /\ <<>> \in Seq(Nat)
  BY EmptySeq DEF MailboxInit
<1>2. \A m \in Recipients : 1..Len(got[m]) = {}
  BY <1>1, EmptySeq
<1>3. MailType
  BY <1>1, EmptySeq DEF MailboxInit, MailType
<1>4. ListInv
  BY DEF MailboxInit, ListInv, Callers
<1> QED
  BY <1>2, <1>3, <1>4 DEF MailInv, GivenInv, GivenOnce

(* send puts a message behind the others. *)
LEMMA MailSent ==
  ASSUME MailInv, NEW s \in Recipients, PutSent(s), got' = got
  PROVE  messages' \in Seq(Mail) /\ GivenInv' /\ GivenOnce'
<1> DEFINE e == [to |-> to[s], read |-> FALSE]
           l == Len(messages)
<1>1. messages \in Seq(Mail) /\ l \in Nat /\ e \in Mail
  BY LenProperties DEF MailInv, MailType, Mail
<1>2. messages' = Append(messages, e) /\ got' = got
  BY DEF PutSent, MailInv, ListInv, Callers
<1> HIDE DEF e
<1>3. /\ messages' \in Seq(Mail) /\ Len(messages') = l + 1
      /\ \A i \in 1..l : messages'[i] = messages[i]
  BY <1>1, <1>2, AppendProperties
<1>5. GivenInv'
  <2>1. ASSUME NEW m \in Recipients, NEW i \in 1..Len(got[m])
        PROVE  /\ got[m][i] \in 1..(l + 1)
               /\ messages'[got[m][i]].read /\ messages'[got[m][i]].to \in {m, "*"}
               /\ \A k \in 1..got[m][i] : messages'[k].to \in {m, "*"} => messages'[k].read
    <3>1. /\ got[m][i] \in 1..l
          /\ messages[got[m][i]].read /\ messages[got[m][i]].to \in {m, "*"}
          /\ \A k \in 1..got[m][i] : messages[k].to \in {m, "*"} => messages[k].read
      BY DEF MailInv, GivenInv
    <3>2. 1..got[m][i] \subseteq 1..l /\ got[m][i] \in 1..(l + 1)
      BY <1>1, <3>1
    <3> QED
      BY <1>3, <3>1, <3>2
  <2> QED
    BY <1>2, <1>3, <2>1 DEF GivenInv
<1>6. GivenOnce'
  BY <1>2 DEF MailInv, GivenOnce
<1> QED
  BY <1>3, <1>5, <1>6

(* inbox marks what it hands over. *)
LEMMA MailMarked ==
  ASSUME MailInv, NEW m \in Recipients, PutRead(m)
  PROVE  /\ For(m) = {i \in 1..Len(messages) : ~messages[i].read /\ messages[i].to \in {m, "*"}}
         /\ messages' \in Seq(Mail) /\ Len(messages') = Len(messages)
         /\ \A i \in 1..Len(messages) :
              /\ messages'[i].to = messages[i].to
              /\ messages'[i].read <=> messages[i].read \/ i \in For(m)
<1> DEFINE l == Len(messages)
           new(i) == [messages[i] EXCEPT !.read = messages[i].read \/ i \in For(m)]
<1>1. /\ messages \in Seq(Mail) /\ l \in Nat /\ DOMAIN messages = 1..l
      /\ \A i \in 1..l : messages[i] \in Mail
  BY LenProperties, ElementOfSeq DEF MailInv, MailType
<1>2. copy[m] = messages
  BY DEF PutRead, MailInv, ListInv, Callers
<1>3. messages' = [i \in 1..l |-> new(i)]
  BY <1>1, <1>2 DEF PutRead
<1>4. ASSUME NEW i \in 1..l
      PROVE  /\ new(i) \in Mail /\ new(i).to = messages[i].to
             /\ new(i).read = (messages[i].read \/ i \in For(m))
  <2> DEFINE b == messages[i].read \/ i \in For(m)
  <2>1. b \in BOOLEAN
    OBVIOUS
  <2> HIDE DEF b
  <2> QED
    BY <1>1, <2>1 DEF Mail, b
<1>5. For(m) = {i \in 1..l : ~messages[i].read /\ messages[i].to \in {m, "*"}}
  BY <1>1, <1>2 DEF For
<1> HIDE DEF new
<1>6. messages' \in [1..l -> Mail]
  BY <1>3, <1>4
<1> HIDE DEF l
<1>7. messages' \in Seq(Mail) /\ Len(messages') = l
  BY <1>1, <1>6, AsSeq
<1> QED
  BY <1>3, <1>4, <1>5, <1>7 DEF l

(* What was given is as it was, and marks are only added. *)
LEMMA MailStays ==
  ASSUME MailInv, NEW m \in Recipients, PutRead(m),
         NEW p \in Recipients, NEW i \in 1..Len(got[p])
  PROVE  /\ got[p][i] \in 1..Len(messages)
         /\ messages'[got[p][i]].read /\ messages'[got[p][i]].to \in {p, "*"}
         /\ \A k \in 1..got[p][i] : messages'[k].to \in {p, "*"} => messages'[k].read
<1> DEFINE x == got[p][i]
           l == Len(messages)
<1>1. /\ x \in 1..l /\ messages[x].read /\ messages[x].to \in {p, "*"}
      /\ \A k \in 1..x : messages[k].to \in {p, "*"} => messages[k].read
  BY DEF MailInv, GivenInv
<1>2. l \in Nat
  BY LenProperties DEF MailInv, MailType
<1>3. \A k \in 1..l : /\ messages'[k].to = messages[k].to
                      /\ messages[k].read => messages'[k].read
  BY MailMarked
<1> HIDE DEF x, l
<1>4. 1..x \subseteq 1..l
  BY <1>1, <1>2
<1>5. /\ x \in 1..l /\ messages'[x].read /\ messages'[x].to \in {p, "*"}
      /\ \A k \in 1..x : messages'[k].to \in {p, "*"} => messages'[k].read
  BY <1>1, <1>3, <1>4
<1> QED
  BY <1>5 DEF x, l

(* A teammate is killed before it is given what it has marked. *)
LEMMA MailLost ==
  ASSUME MailInv, NEW m \in Recipients, PutRead(m), got' = got
  PROVE  messages' \in Seq(Mail) /\ GivenInv' /\ GivenOnce'
<1>1. messages' \in Seq(Mail) /\ Len(messages') = Len(messages)
  BY MailMarked
<1>2. GivenInv'
  BY <1>1, MailStays DEF GivenInv
<1>3. GivenOnce'
  BY DEF MailInv, GivenOnce
<1> QED
  BY <1>1, <1>2, <1>3

LEMMA MailTaken ==
  ASSUME MailInv, NEW m \in Recipients, Inbox(m)
  PROVE  /\ messages' \in Seq(Mail) /\ got' \in [Recipients -> Seq(Nat)]
         /\ GivenInv' /\ GivenOnce'
<1> DEFINE l == Len(messages)
           q == got[m]
           n == Len(q)
<1>0. PutRead(m)
  BY DEF Inbox
<1>1. messages \in Seq(Mail) /\ got \in [Recipients -> Seq(Nat)] /\ l \in Nat
  BY LenProperties DEF MailInv, MailType
<1>2. q \in Seq(Nat) /\ n \in Nat
  BY <1>1, LenProperties
<1>3. For(m) \subseteq 1..l /\ Cardinality(For(m)) \in Nat
  <2>1. For(m) \subseteq 1..l /\ IsFiniteSet(1..l)
    BY <1>0, <1>1, MailMarked, FS_Interval
  <2> QED
    BY <2>1, FS_Subset, FS_CardinalityType
<1>4. PICK g \in InOrder(For(m)) : got' = [got EXCEPT ![m] = q \o g]
  BY DEF Inbox
<1> DEFINE c == Cardinality(For(m))
<1>5. /\ g \in [1..c -> For(m)] /\ \A i, j \in 1..c : i < j => g[i] < g[j]
  BY <1>4 DEF InOrder
<1>6. g \in Seq(Nat) /\ Len(g) = c
  BY <1>3, <1>5
<1>7. \A i \in 1..c : /\ g[i] \in 1..l /\ ~messages[g[i]].read
                      /\ messages[g[i]].to \in {m, "*"}
  BY <1>0, <1>5, MailMarked
<1>8. /\ messages' \in Seq(Mail) /\ Len(messages') = l
      /\ \A i \in 1..l : /\ messages'[i].to = messages[i].to
                         /\ messages'[i].read <=> messages[i].read \/ i \in For(m)
  BY <1>0, MailMarked
<1> DEFINE r == q \o g
<1>9. /\ r \in Seq(Nat) /\ Len(r) = n + c
      /\ \A i \in 1..(n + c) : r[i] = IF i <= n THEN q[i] ELSE g[i - n]
  <2> HIDE DEF c
  <2>1. n = Len(q) /\ g \in Seq(Nat) /\ Len(g) = c
    BY <1>6
  <2> HIDE DEF n, q
  <2>2. /\ q \o g \in Seq(Nat) /\ Len(q \o g) = Len(q) + Len(g)
        /\ \A i \in 1..(Len(q) + Len(g)) :
             (q \o g)[i] = IF i <= Len(q) THEN q[i] ELSE g[i - Len(q)]
    BY <1>2, <2>1, ConcatProperties
  <2> QED
    BY <2>1, <2>2
<1>10. got'[m] = r /\ \A p \in Recipients \ {m} : got'[p] = got[p]
  BY <1>1, <1>4
<1>11. got' \in [Recipients -> Seq(Nat)]
  BY <1>1, <1>4, <1>9
<1>12. /\ c \in Nat
       /\ \A i \in 1..(n + c) : \/ i \in 1..n /\ r[i] = q[i]
                                \/ i - n \in 1..c /\ ~(i <= n) /\ r[i] = g[i - n]
  <2> HIDE DEF c, n, r
  <2>1. c \in Nat /\ n \in Nat
    BY <1>2, <1>3 DEF c
  <2>2. ASSUME NEW i \in 1..(n + c)
        PROVE  i \in 1..n \/ (i - n \in 1..c /\ ~(i <= n))
    BY <2>1
  <2> QED
    BY <1>9, <2>1, <2>2
<1>13. \A p \in Recipients : \A i \in 1..Len(got[p]) :
         /\ got[p][i] \in 1..l
         /\ messages[got[p][i]].read /\ messages[got[p][i]].to \in {p, "*"}
         /\ \A k \in 1..got[p][i] : messages[k].to \in {p, "*"} => messages[k].read
  BY DEF MailInv, GivenInv
<1> HIDE DEF c, r, l
<1>14. ASSUME NEW p \in Recipients, NEW i \in 1..Len(got[p])
       PROVE  /\ got[p][i] \in 1..l
              /\ messages'[got[p][i]].read /\ messages'[got[p][i]].to \in {p, "*"}
              /\ \A k \in 1..got[p][i] : messages'[k].to \in {p, "*"} => messages'[k].read
  BY <1>0, MailStays DEF l
<1>15. ASSUME NEW i \in 1..c
       PROVE  /\ messages'[g[i]].read /\ messages'[g[i]].to \in {m, "*"}
              /\ \A k \in 1..g[i] : messages'[k].to \in {m, "*"} => messages'[k].read
  <2>1. g[i] \in 1..l /\ 1..g[i] \subseteq 1..l
    BY <1>1, <1>7 DEF l
  <2>2. \A k \in 1..l : messages[k].to \in {m, "*"} => messages[k].read \/ k \in For(m)
    BY <1>0, MailMarked DEF l
  <2> QED
    BY <1>7, <1>8, <2>1, <2>2
<1>16. GivenInv'
  <2>1. ASSUME NEW p \in Recipients, NEW i \in 1..Len(got'[p])
        PROVE  /\ got'[p][i] \in 1..l
               /\ messages'[got'[p][i]].read /\ messages'[got'[p][i]].to \in {p, "*"}
               /\ \A k \in 1..got'[p][i] : messages'[k].to \in {p, "*"} => messages'[k].read
    <3>1. CASE p = m
      <4>1. \/ i \in 1..n /\ got'[p][i] = got[p][i]
            \/ i - n \in 1..c /\ got'[p][i] = g[i - n]
        BY <1>9, <1>10, <1>12, <3>1
      <4>2. CASE i \in 1..n /\ got'[p][i] = got[p][i]
        BY <1>14, <3>1, <4>2
      <4>3. CASE i - n \in 1..c /\ got'[p][i] = g[i - n]
        <5> DEFINE x == i - n
        <5> HIDE DEF x
        <5>1. x \in 1..c /\ got'[p][i] = g[x]
          BY <4>3 DEF x
        <5> QED
          BY <1>7, <1>15, <3>1, <5>1 DEF l
      <4> QED
        BY <4>1, <4>2, <4>3
    <3>2. CASE p # m
      BY <1>10, <1>14, <3>2
    <3> QED
      BY <3>1, <3>2
  <2> QED
    BY <1>8, <2>1 DEF GivenInv
<1>17. \A p \in Recipients :
         /\ \A i, j \in 1..Len(got[p]) : i < j => got[p][i] < got[p][j]
         /\ \A o \in Recipients \ {p} : \A i \in 1..Len(got[p]), j \in 1..Len(got[o]) :
              got[p][i] # got[o][j]
  BY DEF MailInv, GivenOnce
<1>18. ASSUME NEW i \in 1..(n + c), NEW j \in 1..(n + c), i < j PROVE r[i] < r[j]
  <2>1. CASE i \in 1..n /\ j \in 1..n /\ r[i] = q[i] /\ r[j] = q[j]
    BY <1>17, <1>18, <2>1
  <2>2. CASE i \in 1..n /\ r[i] = q[i] /\ j - n \in 1..c /\ r[j] = g[j - n]
    <3> DEFINE x == g[j - n]
    <3>1. x \in 1..l /\ ~messages[x].read /\ messages[x].to \in {m, "*"}
      BY <1>7, <2>2 DEF l
    <3>2. /\ q[i] \in 1..l
          /\ \A k \in 1..q[i] : messages[k].to \in {m, "*"} => messages[k].read
      BY <1>13, <2>2
    <3> HIDE DEF x
    <3>3. x \notin 1..q[i]
      BY <3>1, <3>2
    <3>4. q[i] < x
      BY <1>1, <3>1, <3>2, <3>3 DEF l
    <3> QED
      BY <2>2, <3>4 DEF x
  <2>3. CASE i - n \in 1..c /\ r[i] = g[i - n] /\ j - n \in 1..c /\ r[j] = g[j - n]
    <3>1. i - n < j - n
      BY <1>2, <1>12, <1>18
    <3> DEFINE x == i - n
               y == j - n
    <3> HIDE DEF x, y
    <3>2. x \in 1..c /\ y \in 1..c /\ x < y /\ r[i] = g[x] /\ r[j] = g[y]
      BY <2>3, <3>1 DEF x, y
    <3> QED
      BY <1>5, <3>2 DEF c
  <2>4. ~(i - n \in 1..c /\ ~(i <= n) /\ j \in 1..n)
    BY <1>2, <1>12, <1>18
  <2> QED
    BY <1>12, <2>1, <2>2, <2>3, <2>4
<1>19. ASSUME NEW o \in Recipients \ {m}, NEW i \in 1..(n + c), NEW j \in 1..Len(got[o])
       PROVE  r[i] # got[o][j]
  <2>1. messages[got[o][j]].read
    BY <1>13
  <2>2. CASE i \in 1..n /\ r[i] = q[i]
    BY <1>17, <2>2
  <2>3. CASE i - n \in 1..c /\ r[i] = g[i - n]
    <3>1. ~messages[g[i - n]].read
      BY <1>7, <2>3 DEF c
    <3> QED
      BY <2>1, <2>3, <3>1
  <2> QED
    BY <1>12, <2>2, <2>3
<1>20. GivenOnce'
  <2>1. ASSUME NEW p \in Recipients, NEW i \in 1..Len(got'[p]), NEW j \in 1..Len(got'[p]), i < j
        PROVE  got'[p][i] < got'[p][j]
    BY <1>9, <1>10, <1>17, <1>18, <2>1
  <2>2. ASSUME NEW p \in Recipients, NEW o \in Recipients \ {p},
               NEW i \in 1..Len(got'[p]), NEW j \in 1..Len(got'[o])
        PROVE  got'[p][i] # got'[o][j]
    <3>1. CASE p = m
      BY <1>9, <1>10, <1>19, <3>1, SMTT(30)
    <3>2. CASE o = m
      BY <1>9, <1>10, <1>19, <3>2
    <3>3. CASE p # m /\ o # m
      BY <1>10, <1>17, <3>3
    <3> QED
      BY <3>1, <3>2, <3>3
  <2> QED
    BY <2>1, <2>2 DEF GivenOnce
<1> QED
  BY <1>8, <1>11, <1>16, <1>20

LEMMA MailStep == MailInv /\ Exclusive /\ [MailboxNext]_mailboxVars => MailInv'
<1> SUFFICES ASSUME MailInv, Exclusive, [MailboxNext]_mailboxVars PROVE MailInv'
  OBVIOUS
<1>0. /\ messages \in Seq(Mail) /\ got \in [Recipients -> Seq(Nat)]
      /\ doing \in [Recipients -> {"out", "send", "inbox", "dead"}]
      /\ copy \in [Recipients -> Seq(Mail)]
      /\ to \in [Recipients -> Recipients \cup {"*"}]
      /\ ListInv /\ GivenInv /\ GivenOnce
  BY DEF MailInv, MailType
<1>1. ASSUME NEW m \in Recipients, NEW call \in {"send", "inbox"}, Enter(m, call),
             to' \in [Recipients -> Recipients \cup {"*"}], UNCHANGED <<messages, got>>
      PROVE  MailInv'
  <2>1. MailType'
    BY <1>0, <1>1 DEF Enter, MailType
  <2>2. ListInv'
    BY <1>0, <1>1 DEF Enter, ListInv, Callers
  <2>3. GivenInv' /\ GivenOnce'
    BY <1>0, <1>1 DEF GivenInv, GivenOnce
  <2> QED
    BY <2>1, <2>2, <2>3 DEF MailInv
(* Whoever leaves was alone inside. *)
<1>2. ASSUME NEW m \in Recipients, NEW where \in {"out", "dead"}, Return(m, where),
             m \in Callers \/ messages' = messages,
             messages' \in Seq(Mail), got' \in [Recipients -> Seq(Nat)], GivenInv', GivenOnce'
      PROVE  MailInv'
  <2>1. MailType'
    BY <1>0, <1>2, EmptySeq DEF Return, MailType
  <2>2. ASSUME NEW n \in Callers' PROVE copy'[n] = messages'
    <3>1. n # m /\ n \in Callers /\ copy'[n] = copy[n]
      BY <1>0, <1>2, <2>2 DEF Return, Callers
    <3>2. messages' = messages
      BY <1>2, <3>1 DEF Exclusive
    <3> QED
      BY <1>0, <3>1, <3>2 DEF ListInv
  <2> QED
    BY <1>2, <2>1, <2>2 DEF MailInv, ListInv
<1>3. ASSUME NEW m \in Recipients, CallSend(m) PROVE MailInv'
  BY <1>0, <1>1, <1>3 DEF CallSend
<1>4. ASSUME NEW m \in Recipients, CallInbox(m) PROVE MailInv'
  BY <1>0, <1>1, <1>4 DEF CallInbox
<1>5. ASSUME NEW m \in Recipients, Send(m) PROVE MailInv'
  <2>1. messages' \in Seq(Mail) /\ GivenInv' /\ GivenOnce'
    BY <1>5, MailSent DEF Send
  <2> QED
    BY <1>0, <1>2, <1>5, <2>1 DEF Send, PutSent, Callers
<1>6. ASSUME NEW m \in Recipients, Inbox(m) PROVE MailInv'
  <2>1. /\ messages' \in Seq(Mail) /\ got' \in [Recipients -> Seq(Nat)]
        /\ GivenInv' /\ GivenOnce'
    BY <1>6, MailTaken
  <2> QED
    BY <1>2, <1>6, <2>1 DEF Inbox, PutRead, Callers
<1>7. ASSUME NEW m \in Recipients, Die(m) PROVE MailInv'
  <2>1. got' = got /\ Return(m, "dead")
    BY <1>7 DEF Die
  <2>2. CASE PutSent(m)
    BY <1>0, <1>2, <2>1, <2>2, MailSent DEF PutSent, Callers
  <2>3. CASE PutRead(m)
    BY <1>0, <1>2, <2>1, <2>3, MailLost DEF PutRead, Callers
  <2>4. CASE messages' = messages
    <3>1. GivenInv' /\ GivenOnce'
      BY <1>0, <2>1, <2>4 DEF GivenInv, GivenOnce
    <3> QED
      BY <1>0, <1>2, <2>1, <2>4, <3>1
  <2> QED
    BY <1>7, <2>2, <2>3, <2>4 DEF Die
<1>8. CASE UNCHANGED mailboxVars
  BY <1>8 DEF mailboxVars, MailInv, MailType, ListInv, Callers, GivenInv, GivenOnce
<1> QED
  BY <1>3, <1>4, <1>5, <1>6, <1>7, <1>8 DEF MailboxNext

(* Mailbox: as long as the lock keeps the others out - which it does not   *)
(* always (OneBreaker) - and wherever teammates are killed: whatever is    *)
(* sent to whom and however often whoever looks, a teammate is given what  *)
(* was for it once, in the order it was sent, and no message is given to   *)
(* two.                                                                    *)
THEOREM MailInOrderOnce == MailboxSpec /\ []Exclusive => []InOrderOnce
<1>1. ASSUME MailInv PROVE InOrderOnce
  <2>1. \A m \in Recipients : DOMAIN got[m] = 1..Len(got[m])
    BY <1>1, LenProperties DEF MailInv, MailType
  <2> QED
    BY <1>1, <2>1, ZenonT(30) DEF MailInv, GivenInv, GivenOnce, InOrderOnce
<1>2. MailInv => InOrderOnce
  BY <1>1
<1> QED
  BY MailInit, MailStep, <1>2, PTL DEF MailboxSpec

-----------------------------------------------------------------------------
(* Worktrees: the merges of sub-agents, whatever the number of sub-agents, *)
(* files and contents.  What carries all of them: who plans or writes is at*)
(* the head of the queue, so nobody else's merge writes meanwhile.         *)

Merging(a) == stage[a] \in {"planning", "writing"}

(* Only the head of the queue merges. *)
HeadMerges == \A a \in Agents : Merging(a) => Turn(a)

LEMMA HeadUnique ==
  ASSUME NEW a, NEW b, Turn(a), Turn(b)
  PROVE  a = b
BY DEF Turn

-----------------------------------------------------------------------------
(* The shape of the state. *)

TypeHead == WorktreesTypeOK /\ HeadMerges

LEMMA QueueSteps ==
  ASSUME NEW q \in Seq(Agents), NEW a \in Agents
  PROVE  /\ Append(q, a) \in Seq(Agents)
         /\ q # <<>> => Append(q, a) # <<>> /\ Head(Append(q, a)) = Head(q)
         /\ q # <<>> => Tail(q) \in Seq(Agents)
<1>1. Append(q, a) \in Seq(Agents)
  BY AppendProperties
<1>2. q # <<>> => Append(q, a) # <<>> /\ Head(Append(q, a)) = Head(q)
  BY AppendProperties, EmptySeq, LenProperties
<1>3. q # <<>> => Tail(q) \in Seq(Agents)
  BY HeadTailProperties
<1> QED
  BY <1>1, <1>2, <1>3

(* A git command, whether it fails or not. *)
LEMMA GitStep ==
  ASSUME NEW fails, Git(fails), faults \in 0..MaxFaults
  PROVE  faults' \in 0..MaxFaults /\ edits' = edits
BY WorktreesAssumption DEF Git

LEMMA MergeTypeInit == WorktreesInit => TypeHead
<1> SUFFICES ASSUME WorktreesInit PROVE TypeHead
  OBVIOUS
<1>1. mergeQueue \in Seq(Agents)
  BY DEF WorktreesInit
<1>2. WorktreesTypeOK
  BY <1>1, WorktreesAssumption DEF WorktreesInit, WorktreesTypeOK, Trees, Stages, Outcomes
<1>3. HeadMerges
  BY DEF WorktreesInit, HeadMerges, Merging
<1> QED
  BY <1>2, <1>3 DEF TypeHead

LEMMA MergeTypeStep == TypeHead /\ [WorktreesNext]_worktreesVars => TypeHead'
<1> SUFFICES ASSUME TypeHead, [WorktreesNext]_worktreesVars PROVE TypeHead'
  OBVIOUS
<1> USE WorktreesAssumption
<1> USE DEF TypeHead
<1>0. /\ main \in Trees /\ author \in [Paths -> Agents \cup {Main}]
      /\ base \in [Agents -> Trees] /\ work \in [Agents -> Trees]
      /\ stage \in [Agents -> Stages] /\ outcome \in [Agents -> Outcomes]
      /\ branch \in [Agents -> SUBSET Paths] /\ broken \in [Agents -> BOOLEAN]
      /\ mergeQueue \in Seq(Agents)
      /\ todo \in [Agents -> SUBSET Paths] /\ writes \in [Agents -> SUBSET Paths]
      /\ conflicts \in [Agents -> SUBSET Paths] /\ wrote \in [Agents -> SUBSET Paths]
      /\ edits \in 0..MaxEdits /\ faults \in 0..MaxFaults
  BY DEF WorktreesTypeOK
<1>1. ASSUME NEW a \in Agents, Spawn(a) PROVE TypeHead'
  <2>1. PICK tree \in {main, LastCommit} : base' = [base EXCEPT ![a] = tree] /\ Git(tree # main)
    BY <1>1 DEF Spawn
  <2>2. tree \in Trees
    BY <1>0 DEF Trees
  <2>3. base' \in [Agents -> Trees] /\ faults' \in 0..MaxFaults /\ edits' = edits
    BY <1>0, <2>1, <2>2, GitStep
  <2>4. WorktreesTypeOK'
    BY <1>0, <1>1, <2>3 DEF Spawn, To, WorktreesTypeOK, Stages, treeVars, planVars
  <2>5. HeadMerges'
    BY <1>0, <1>1 DEF Spawn, To, HeadMerges, Merging, Turn, Stages
  <2> QED
    BY <2>4, <2>5
<1>9. ASSUME NEW a \in Agents, RunInPlace(a) PROVE TypeHead'
  <2>1. WorktreesTypeOK'
    BY <1>0, <1>9 DEF RunInPlace, To, WorktreesTypeOK, Stages, Outcomes, treeVars, planVars, countVars
  <2>2. HeadMerges'
    BY <1>0, <1>9 DEF RunInPlace, To, HeadMerges, Merging, Turn, Stages
  <2> QED
    BY <2>1, <2>2
<1>2. ASSUME NEW a \in Agents, CopyUntracked(a) PROVE TypeHead'
  <2> DEFINE with(files) ==
               [p \in Paths |-> IF p \in Tracked THEN base[a][p]
                                ELSE IF p \in files THEN main[p] ELSE Absent]
  <2>1. \A files : with(files) \in Trees
    BY <1>0 DEF Trees
  <2>2. PICK copied \in SUBSET (Paths \ Tracked) : \E committed \in {copied, {}} :
          /\ work' = [work EXCEPT ![a] = with(copied)]
          /\ base' = [base EXCEPT ![a] = with(committed)]
          /\ Git(with(committed) # with(Paths))
    BY <1>2 DEF CopyUntracked
  <2>3. PICK committed \in {copied, {}} :
          /\ work' = [work EXCEPT ![a] = with(copied)]
          /\ base' = [base EXCEPT ![a] = with(committed)]
          /\ Git(with(committed) # with(Paths))
    BY <2>2
  <2> HIDE DEF with
  <2>4. base' \in [Agents -> Trees] /\ work' \in [Agents -> Trees]
    BY <1>0, <2>1, <2>3
  <2>5. faults' \in 0..MaxFaults /\ edits' = edits
    BY <1>0, <2>3, GitStep
  <2>6. WorktreesTypeOK'
    BY <1>0, <1>2, <2>4, <2>5 DEF CopyUntracked, To, WorktreesTypeOK, Stages, treeVars, planVars
  <2>7. HeadMerges'
    BY <1>0, <1>2 DEF CopyUntracked, To, HeadMerges, Merging, Turn, Stages
  <2> QED
    BY <2>6, <2>7
<1>3. ASSUME NEW a \in Agents, Stop(a) PROVE TypeHead'
  <2>1. WorktreesTypeOK'
    BY <1>0, <1>3, QueueSteps DEF Stop, To, WorktreesTypeOK, Stages, treeVars, planVars, countVars
  <2>2. ASSUME NEW b \in Agents, Merging(b)' PROVE Turn(b)'
    <3>1. b # a /\ Merging(b)
      BY <1>0, <1>3, <2>2 DEF Stop, To, Merging
    <3>2. mergeQueue # <<>> /\ Head(mergeQueue) = b
      BY <3>1 DEF HeadMerges, Turn
    <3> QED
      BY <1>0, <1>3, <3>2, QueueSteps DEF Stop, Turn
  <2> QED
    BY <2>1, <2>2 DEF HeadMerges
<1>4. ASSUME NEW a \in Agents, Throw(a) PROVE TypeHead'
  <2>1. WorktreesTypeOK'
    BY <1>0, <1>4 DEF Throw, Cleanup, To, WorktreesTypeOK, Stages, Outcomes, treeVars, planVars, countVars
  <2>2. HeadMerges'
    BY <1>0, <1>4 DEF Throw, Cleanup, To, HeadMerges, Merging, Turn
  <2> QED
    BY <2>1, <2>2
<1>5. ASSUME NEW a \in Agents, Merge(a) PROVE TypeHead'
  (* A step that takes a out of the queue: nobody else was merging. *)
  <2>0. ASSUME Turn(a), NextMerge, stage' = [stage EXCEPT ![a] = "over"]
        PROVE  mergeQueue' \in Seq(Agents) /\ HeadMerges'
    <3>1. mergeQueue' \in Seq(Agents)
      BY <1>0, <2>0, QueueSteps DEF Turn, NextMerge
    <3>2. \A b \in Agents : ~Merging(b)'
      BY <1>0, <2>0, HeadUnique DEF HeadMerges, Merging
    <3> QED
      BY <3>1, <3>2 DEF HeadMerges
  <2>1. CASE Discard(a)
    BY <1>0, <2>0, <2>1 DEF Discard, Cleanup, To, WorktreesTypeOK, Stages, Outcomes, treeVars, planVars, countVars
  <2>2. CASE NothingChanged(a)
    <3>1. faults' \in 0..MaxFaults /\ edits' = edits
      BY <1>0, <2>2, GitStep DEF NothingChanged
    <3>2. broken' \in [Agents -> BOOLEAN]
      BY <1>0, <2>2 DEF NothingChanged
    <3> QED
      BY <1>0, <2>0, <2>2, <3>1, <3>2
         DEF NothingChanged, Cleanup, To, WorktreesTypeOK, Stages, Outcomes, treeVars, planVars
  <2>3. CASE Commit(a)
    <3>1. PICK staged \in SUBSET Changed(a) \ {{}} : \E committed \in {staged, {}} :
            /\ branch' = [branch EXCEPT ![a] = committed]
            /\ todo' = [todo EXCEPT ![a] = staged]
            /\ broken' = [broken EXCEPT ![a] = committed # Changed(a)]
            /\ Git(committed # Changed(a))
      BY <2>3 DEF Commit
    <3>2. PICK committed \in {staged, {}} :
            /\ branch' = [branch EXCEPT ![a] = committed]
            /\ todo' = [todo EXCEPT ![a] = staged]
            /\ broken' = [broken EXCEPT ![a] = committed # Changed(a)]
            /\ Git(committed # Changed(a))
      BY <3>1
    <3>3. staged \in SUBSET Paths /\ committed \in SUBSET Paths
      BY DEF Changed
    <3>4. faults' \in 0..MaxFaults /\ edits' = edits
      BY <1>0, <3>2, GitStep
    <3>5. /\ branch' \in [Agents -> SUBSET Paths] /\ todo' \in [Agents -> SUBSET Paths]
          /\ broken' \in [Agents -> BOOLEAN]
      BY <1>0, <3>2, <3>3
    <3>6. WorktreesTypeOK'
      BY <1>0, <2>3, <3>4, <3>5 DEF Commit, To, WorktreesTypeOK, Stages, treeVars
    <3>7. HeadMerges'
      BY <1>0, <2>3 DEF Commit, To, HeadMerges, Merging, Turn
    <3> QED
      BY <3>6, <3>7
  <2>4. ASSUME NEW p \in Paths, PlanFile(a, p) PROVE TypeHead'
    <3>1. /\ conflicts' \in [Agents -> SUBSET Paths]
          /\ writes' \in [Agents -> SUBSET Paths]
          /\ todo' \in [Agents -> SUBSET Paths]
      <4>1. /\ conflicts' \in {conflicts, [conflicts EXCEPT ![a] = @ \cup {p}]}
            /\ writes' \in {writes, [writes EXCEPT ![a] = @ \cup {p}]}
            /\ todo' = [todo EXCEPT ![a] = @ \ {p}]
        BY <2>4 DEF PlanFile
      <4> QED
        BY <1>0, <4>1
    <3>2. PICK original \in {base[a][p], Absent} :
            /\ broken' = [broken EXCEPT ![a] = @ \/ original # base[a][p]]
            /\ Git(original # base[a][p])
      BY <2>4 DEF PlanFile
    <3>3. broken' \in [Agents -> BOOLEAN]
      BY <1>0, <3>2
    <3>4. faults' \in 0..MaxFaults /\ edits' = edits
      BY <1>0, <3>2, GitStep
    <3>5. WorktreesTypeOK'
      BY <1>0, <2>4, <3>1, <3>3, <3>4 DEF PlanFile, WorktreesTypeOK, treeVars
    <3>6. HeadMerges'
      BY <2>4 DEF PlanFile, HeadMerges, Merging, Turn
    <3> QED
      BY <3>5, <3>6
  <2>5. CASE Planned(a)
    <3>1. Turn(a)
      BY <2>5 DEF Planned, Refuse, HeadMerges, Merging
    <3>2. CASE conflicts[a] = {}
      <4>1. WorktreesTypeOK'
        BY <1>0, <2>5, <3>2 DEF Planned, Refuse, To, WorktreesTypeOK, Stages, treeVars, planVars, countVars
      <4>2. HeadMerges'
        BY <1>0, <2>5, <3>1, <3>2 DEF Planned, Refuse, To, HeadMerges, Merging, Turn
      <4> QED
        BY <4>1, <4>2
    <3>3. CASE conflicts[a] # {}
      BY <1>0, <2>0, <2>5, <3>1, <3>3
         DEF Planned, Refuse, To, WorktreesTypeOK, Stages, Outcomes, treeVars, planVars, countVars
    <3> QED
      BY <3>2, <3>3
  <2>6. ASSUME NEW files \in SUBSET writes[a], WriteFiles(a, files)
        PROVE  /\ main' \in Trees /\ author' \in [Paths -> Agents \cup {Main}]
               /\ wrote' \in [Agents -> SUBSET Paths]
    <3>1. files \in SUBSET Paths
      BY <1>0
    <3>2. work[a] \in Trees
      BY <1>0
    <3>3. main' \in Trees
      BY <1>0, <2>6, <3>2 DEF WriteFiles, Trees
    <3> QED
      BY <1>0, <2>6, <3>1, <3>3 DEF WriteFiles
  <2>7. CASE Write(a)
    <3>1. Turn(a)
      BY <2>7 DEF Write, HeadMerges, Merging
    <3>2. /\ main' \in Trees /\ author' \in [Paths -> Agents \cup {Main}]
          /\ wrote' \in [Agents -> SUBSET Paths]
      BY <2>6, <2>7 DEF Write
    <3> QED
      BY <1>0, <2>0, <2>7, <3>1, <3>2 DEF Write, Cleanup, To, WorktreesTypeOK, Stages, Outcomes, countVars
  <2>8. CASE WriteFails(a)
    <3>1. Turn(a)
      BY <2>8 DEF WriteFails, HeadMerges, Merging
    <3>2. /\ main' \in Trees /\ author' \in [Paths -> Agents \cup {Main}]
          /\ wrote' \in [Agents -> SUBSET Paths]
      BY <2>6, <2>8 DEF WriteFails
    <3> QED
      BY <1>0, <2>0, <2>8, <3>1, <3>2 DEF WriteFails, Settle, To, WorktreesTypeOK, Stages, Outcomes, countVars
  <2> QED
    BY <1>5, <2>1, <2>2, <2>3, <2>4, <2>5, <2>7, <2>8 DEF Merge
<1>6. ASSUME NEW a \in Agents, NEW p \in Paths, NEW content \in Contents, Edit(a, p, content)
      PROVE TypeHead'
  <2>1. work'[a] \in Trees
    BY <1>0, <1>6 DEF Edit, Trees
  <2>2. work' \in [Agents -> Trees]
    BY <1>0, <1>6, <2>1 DEF Edit
  <2>3. WorktreesTypeOK'
    BY <1>0, <1>6, <2>2 DEF Edit, WorktreesTypeOK, treeVars, planVars, countVars
  <2>4. HeadMerges'
    BY <1>6 DEF Edit, HeadMerges, Merging, Turn
  <2> QED
    BY <2>3, <2>4
<1>7. ASSUME NEW p \in Paths, NEW content \in Contents, EditMain(p, content)
      PROVE TypeHead'
  <2>1. WorktreesTypeOK'
    BY <1>0, <1>7 DEF EditMain, WorktreesTypeOK, Trees, runVars, planVars, countVars
  <2>2. HeadMerges'
    BY <1>7 DEF EditMain, HeadMerges, Merging, Turn, runVars
  <2> QED
    BY <2>1, <2>2
<1>8. CASE UNCHANGED worktreesVars
  BY <1>8 DEF worktreesVars, treeVars, runVars, planVars, countVars, WorktreesTypeOK, HeadMerges, Merging, Turn
<1> QED
  BY <1>1, <1>2, <1>3, <1>4, <1>5, <1>6, <1>7, <1>8, <1>9 DEF WorktreesNext

(* Whatever sub-agents, users and file systems do, every variable keeps    *)
(* its shape, and only the head of mergeQueue (subagent.ts, serializeMerge) *)
(* plans or writes.                                                        *)
THEOREM MergeTypeCorrect == WorktreesSpec => [](WorktreesTypeOK /\ HeadMerges)
<1>1. WorktreesSpec => []TypeHead
  BY MergeTypeInit, MergeTypeStep, PTL DEF WorktreesSpec
<1> QED
  BY <1>1, PTL DEF TypeHead

-----------------------------------------------------------------------------
(* Merges keep each other's files. *)

(* What a plan writes still is as the snapshot had it, or has been changed *)
(* by no other merge, unless git has failed.                               *)
Unmerged ==
  \A a \in Agents : Merging(a) /\ ~broken[a] =>
    \A p \in writes[a] : main[p] = base[a][p] \/ author[p] = Main

(* Before its turn a merge has planned nothing. *)
Unplanned ==
  \A a \in Agents : stage[a] \notin {"planning", "writing", "over"} => writes[a] = {}

MergeInv == TypeHead /\ Unmerged /\ Unplanned

LEMMA MergeInit == WorktreesInit => MergeInv
<1> SUFFICES ASSUME WorktreesInit PROVE MergeInv
  OBVIOUS
<1>1. TypeHead
  BY MergeTypeInit
<1>2. Unmerged /\ Unplanned
  BY DEF WorktreesInit, Unmerged, Unplanned, Merging
<1> QED
  BY <1>1, <1>2 DEF MergeInv

LEMMA MergeStep == MergeInv /\ [WorktreesNext]_worktreesVars => MergeInv'
<1> SUFFICES ASSUME MergeInv, [WorktreesNext]_worktreesVars PROVE (Unmerged /\ Unplanned)'
  BY MergeTypeStep DEF MergeInv
<1>0. /\ stage \in [Agents -> Stages] /\ base \in [Agents -> Trees]
      /\ main \in Trees /\ author \in [Paths -> Agents \cup {Main}]
      /\ writes \in [Agents -> SUBSET Paths] /\ broken \in [Agents -> BOOLEAN]
      /\ Unmerged /\ Unplanned /\ HeadMerges
  BY DEF MergeInv, TypeHead, WorktreesTypeOK
(* Steps outside the merges: of the main tree, or of an agent that is not  *)
(* merging.                                                                *)
<1>1. ASSUME NEW a \in Agents, Spawn(a) \/ RunInPlace(a) \/ CopyUntracked(a) \/ Stop(a) \/ Throw(a)
      PROVE  (Unmerged /\ Unplanned)'
  <2>1. ~Merging(a) /\ ~Merging(a)'
    BY <1>0, <1>1 DEF Spawn, RunInPlace, CopyUntracked, Stop, Throw, Cleanup, To, Merging
  <2>2. /\ \A b \in Agents \ {a} : stage'[b] = stage[b] /\ base'[b] = base[b]
        /\ writes' = writes /\ main' = main /\ author' = author /\ broken' = broken
        /\ stage[a] \notin {"planning", "writing", "over"}
    BY <1>0, <1>1
       DEF Spawn, RunInPlace, CopyUntracked, Stop, Throw, Cleanup, To, treeVars, planVars
  <2>3. Unmerged'
    BY <1>0, <2>1, <2>2 DEF Unmerged, Merging
  <2>4. Unplanned'
    BY <1>0, <2>2 DEF Unplanned
  <2> QED
    BY <2>3, <2>4
<1>2. ASSUME NEW a \in Agents, NEW p \in Paths, NEW content \in Contents, Edit(a, p, content)
      PROVE (Unmerged /\ Unplanned)'
  BY <1>0, <1>2 DEF Edit, Unmerged, Unplanned, Merging, treeVars, planVars, countVars
<1>3. ASSUME NEW p \in Paths, NEW content \in Contents, EditMain(p, content)
      PROVE (Unmerged /\ Unplanned)'
  <2>1. \A q \in Paths : (main'[q] = main[q] /\ author'[q] = author[q]) \/ author'[q] = Main
    BY <1>0, <1>3 DEF EditMain, Trees
  <2> QED
    BY <1>0, <1>3, <2>1 DEF EditMain, Unmerged, Unplanned, Merging, runVars, planVars, countVars
(* Steps of a merge. *)
<1>4. ASSUME NEW a \in Agents, Discard(a) \/ NothingChanged(a)
      PROVE (Unmerged /\ Unplanned)'
  <2>1. /\ stage' = [stage EXCEPT ![a] = "over"]
        /\ UNCHANGED <<main, author, base, writes>>
        /\ \A b \in Agents \ {a} : broken'[b] = broken[b]
    BY <1>0, <1>4 DEF Discard, NothingChanged, Cleanup, To, treeVars, planVars
  <2> QED
    BY <1>0, <2>1 DEF Unmerged, Unplanned, Merging
<1>5. ASSUME NEW a \in Agents, Commit(a) PROVE (Unmerged /\ Unplanned)'
  <2>1. /\ writes[a] = {}
        /\ \A b \in Agents \ {a} : broken'[b] = broken[b]
    BY <1>0, <1>5 DEF Commit, Unplanned
  <2> QED
    BY <1>0, <1>5, <2>1 DEF Commit, To, Unmerged, Unplanned, Merging, treeVars
<1>6. ASSUME NEW a \in Agents, NEW p \in Paths, PlanFile(a, p)
      PROVE (Unmerged /\ Unplanned)'
  <2>1. /\ \/ writes' = writes
           \/ /\ writes' = [writes EXCEPT ![a] = @ \cup {p}]
              /\ broken'[a] \/ main[p] = base[a][p]
        /\ \A b \in Agents : broken[b] => broken'[b]
    BY <1>0, <1>6 DEF PlanFile
  <2> QED
    BY <1>0, <1>6, <2>1 DEF PlanFile, Unmerged, Unplanned, Merging, treeVars
<1>7. ASSUME NEW a \in Agents, Planned(a) PROVE (Unmerged /\ Unplanned)'
  <2>1. stage[a] = "planning" /\ stage' \in {[stage EXCEPT ![a] = "writing"], [stage EXCEPT ![a] = "over"]}
    BY <1>7 DEF Planned, Refuse, To
  <2> QED
    BY <1>0, <1>7, <2>1 DEF Planned, Refuse, Unmerged, Unplanned, Merging, treeVars, planVars, countVars
<1>8. ASSUME NEW a \in Agents, Write(a) \/ WriteFails(a) PROVE (Unmerged /\ Unplanned)'
  <2>1. Turn(a) /\ stage' = [stage EXCEPT ![a] = "over"]
    BY <1>0, <1>8 DEF Write, WriteFails, Cleanup, To, HeadMerges, Merging
  <2>2. \A b \in Agents : ~Merging(b)'
    BY <1>0, <2>1, HeadUnique DEF HeadMerges, Merging
  <2> QED
    BY <1>0, <1>8, <2>1, <2>2 DEF Write, WriteFails, Unmerged, Unplanned
<1>9. CASE UNCHANGED worktreesVars
  BY <1>0, <1>9 DEF worktreesVars, treeVars, runVars, planVars, countVars, Unmerged, Unplanned, Merging
<1> QED
  BY <1>1, <1>2, <1>3, <1>4, <1>5, <1>6, <1>7, <1>8, <1>9 DEF WorktreesNext, Merge

LEMMA WritesKeep ==
  ASSUME MergeInv, [WorktreesNext]_worktreesVars, NEW a \in Agents, NEW p \in Paths,
         author'[p] = a, author[p] \in Agents \ {a}, ~broken[a]
  PROVE  main[p] = base[a][p]
<1>0. /\ author \in [Paths -> Agents \cup {Main}] /\ writes \in [Agents -> SUBSET Paths]
      /\ Unmerged /\ Main \notin Agents
  BY WorktreesAssumption DEF MergeInv, TypeHead, WorktreesTypeOK
<1>1. PICK b \in Agents :
        stage[b] = "writing" /\ \E files \in SUBSET writes[b] : WriteFiles(b, files)
  <2>1. author' # author
    OBVIOUS
  <2>2. CASE \E q \in Paths, content \in Contents : EditMain(q, content)
    BY <1>0, <2>2 DEF EditMain
  <2>3. ASSUME NEW b \in Agents, Write(b) \/ WriteFails(b)
        PROVE  stage[b] = "writing" /\ \E files \in SUBSET writes[b] : WriteFiles(b, files)
    BY <2>3 DEF Write, WriteFails
  <2>4. ASSUME NEW b \in Agents,
               Spawn(b) \/ RunInPlace(b) \/ CopyUntracked(b) \/ Stop(b) \/ Throw(b)
               \/ Discard(b) \/ NothingChanged(b) \/ Commit(b) \/ Planned(b)
        PROVE  author' = author
    BY <2>4 DEF Spawn, RunInPlace, CopyUntracked, Stop, Throw, Discard, NothingChanged, Commit,
                Planned, treeVars
  <2>5. ASSUME NEW b \in Agents, NEW q \in Paths,
               PlanFile(b, q) \/ \E content \in Contents : Edit(b, q, content)
        PROVE  author' = author
    BY <2>5 DEF PlanFile, Edit, treeVars
  <2>6. CASE UNCHANGED worktreesVars
    BY <2>6 DEF worktreesVars, treeVars
  <2> QED
    BY <2>1, <2>2, <2>3, <2>4, <2>5, <2>6 DEF WorktreesNext, Merge
<1>2. PICK files \in SUBSET writes[b] : WriteFiles(b, files)
  BY <1>1
<1>3. p \in files /\ b = a
  BY <1>0, <1>2 DEF WriteFiles
<1>4. author[p] # Main
  BY <1>0
<1> QED
  BY <1>0, <1>1, <1>2, <1>3, <1>4 DEF Unmerged, Merging

(* However many sub-agents end together, and whatever is edited meanwhile, *)
(* a merge (index.ts, finish) replaces what another one left only where    *)
(* its own snapshot had started from that, unless a git command of its own *)
(* has failed.                                                             *)
THEOREM MergesKeepTheorem == WorktreesSpec => MergesKeep
<1>1. MergeInv /\ [WorktreesNext]_worktreesVars =>
        [\A a \in Agents, p \in Paths :
           author'[p] = a /\ author[p] \in Agents \ {a} /\ ~broken[a]
             => main[p] = base[a][p]]_worktreesVars
  BY WritesKeep
<1>2. WorktreesSpec => []MergeInv
  BY MergeInit, MergeStep, PTL DEF WorktreesSpec
<1> QED
  BY <1>1, <1>2, PTL DEF WorktreesSpec, MergesKeep

-----------------------------------------------------------------------------
(* No work is lost. *)

(* Where each sub-agent is, and what that says of its plan and its branch. *)
Progress(a) ==
  /\ stage[a] # "over" => outcome[a] = "none" /\ wrote[a] = {}
  /\ stage[a] \in {"new", "copying", "working", "complete", "stopped"} => conflicts[a] = {}
  /\ Merging(a) /\ ~broken[a] => Changed(a) \subseteq branch[a]
  /\ stage[a] = "writing" => todo[a] = {} /\ conflicts[a] = {}

Kept(a) ==
  /\ ~broken[a] =>
       /\ outcome[a] \in {"conflict", "failed"} => Changed(a) \subseteq branch[a]
       /\ outcome[a] = "merged" => todo[a] = {} /\ conflicts[a] = {} /\ wrote[a] = writes[a]
       /\ outcome[a] = "nothing" => Changed(a) = {}
  /\ conflicts[a] # {} => wrote[a] = {}

KeptInv == TypeHead /\ \A a \in Agents : Progress(a) /\ Kept(a)

(* What a step leaves alone of a sub-agent. *)
Same(a) ==
  /\ stage'[a] = stage[a] /\ outcome'[a] = outcome[a] /\ branch'[a] = branch[a]
  /\ broken'[a] = broken[a]
  /\ base'[a] = base[a] /\ work'[a] = work[a] /\ todo'[a] = todo[a]
  /\ writes'[a] = writes[a] /\ conflicts'[a] = conflicts[a] /\ wrote'[a] = wrote[a]

LEMMA SameKept ==
  ASSUME NEW a \in Agents, Progress(a), Kept(a), Same(a)
  PROVE  Progress(a)' /\ Kept(a)'
BY DEF Progress, Kept, Same, Merging, Changed

LEMMA KeptInit == WorktreesInit => KeptInv
<1> SUFFICES ASSUME WorktreesInit PROVE KeptInv
  OBVIOUS
<1>1. TypeHead
  BY MergeTypeInit
<1>2. \A a \in Agents : Progress(a) /\ Kept(a)
  BY DEF WorktreesInit, Progress, Kept, Merging
<1> QED
  BY <1>1, <1>2 DEF KeptInv

(* A step of one sub-agent is none of another. *)
LEMMA OthersSame ==
  ASSUME WorktreesTypeOK, NEW a \in Agents, NEW b \in Agents \ {a},
         \/ Spawn(a) \/ RunInPlace(a) \/ CopyUntracked(a) \/ Stop(a) \/ Throw(a) \/ Merge(a)
         \/ \E p \in Paths, content \in Contents : Edit(a, p, content)
  PROVE  Same(b)
<1>0. /\ base \in [Agents -> Trees] /\ work \in [Agents -> Trees]
      /\ stage \in [Agents -> Stages] /\ outcome \in [Agents -> Outcomes]
      /\ branch \in [Agents -> SUBSET Paths] /\ broken \in [Agents -> BOOLEAN]
      /\ todo \in [Agents -> SUBSET Paths] /\ writes \in [Agents -> SUBSET Paths]
      /\ conflicts \in [Agents -> SUBSET Paths] /\ wrote \in [Agents -> SUBSET Paths]
  BY DEF WorktreesTypeOK
<1>1. CASE Spawn(a) \/ RunInPlace(a) \/ CopyUntracked(a) \/ Stop(a)
  BY <1>0, <1>1 DEF Spawn, RunInPlace, CopyUntracked, Stop, To, planVars, Same
<1>2. CASE Throw(a) \/ Discard(a) \/ NothingChanged(a)
  BY <1>0, <1>2 DEF Throw, Discard, NothingChanged, Cleanup, To, planVars, countVars, Same
<1>3. CASE Commit(a)
  BY <1>0, <1>3 DEF Commit, To, Same
<1>4. CASE \E p \in Paths : PlanFile(a, p)
  BY <1>0, <1>4 DEF PlanFile, Same
<1>5. CASE Planned(a)
  BY <1>0, <1>5 DEF Planned, Refuse, To, planVars, countVars, Same
<1>6. CASE Write(a) \/ WriteFails(a)
  BY <1>0, <1>6 DEF Write, WriteFails, WriteFiles, Cleanup, To, Same
<1>7. CASE \E p \in Paths, content \in Contents : Edit(a, p, content)
  BY <1>0, <1>7 DEF Edit, planVars, countVars, Same
<1> QED
  BY <1>1, <1>2, <1>3, <1>4, <1>5, <1>6, <1>7 DEF Merge

(* A step of the sub-agent itself. *)
LEMMA OwnStep ==
  ASSUME WorktreesTypeOK, NEW a \in Agents, Progress(a), Kept(a),
         \/ Spawn(a) \/ RunInPlace(a) \/ CopyUntracked(a) \/ Stop(a) \/ Throw(a) \/ Merge(a)
         \/ \E p \in Paths, content \in Contents : Edit(a, p, content)
  PROVE  Progress(a)' /\ Kept(a)'
<1>0. /\ base \in [Agents -> Trees] /\ work \in [Agents -> Trees]
      /\ stage \in [Agents -> Stages] /\ outcome \in [Agents -> Outcomes]
      /\ branch \in [Agents -> SUBSET Paths] /\ broken \in [Agents -> BOOLEAN]
      /\ todo \in [Agents -> SUBSET Paths] /\ writes \in [Agents -> SUBSET Paths]
      /\ conflicts \in [Agents -> SUBSET Paths] /\ wrote \in [Agents -> SUBSET Paths]
  BY DEF WorktreesTypeOK
<1>1. CASE Spawn(a) \/ RunInPlace(a) \/ CopyUntracked(a) \/ Stop(a)
  BY <1>0, <1>1 DEF Spawn, RunInPlace, CopyUntracked, Stop, To, planVars, Progress, Kept, Merging
<1>2. CASE Throw(a) \/ Discard(a)
  BY <1>0, <1>2 DEF Throw, Discard, Cleanup, To, planVars, Progress, Kept, Merging
<1>3. CASE NothingChanged(a)
  BY <1>0, <1>3 DEF NothingChanged, Cleanup, To, planVars, countVars, Progress, Kept, Merging, Changed
<1>4. CASE Commit(a)
  <2>1. /\ stage[a] = "complete" /\ outcome[a] = "none" /\ wrote[a] = {} /\ conflicts[a] = {}
        /\ stage' = [stage EXCEPT ![a] = "planning"]
        /\ UNCHANGED <<base, work, outcome, wrote, conflicts>>
        /\ ~broken'[a] => Changed(a) \subseteq branch'[a]
    BY <1>0, <1>4 DEF Commit, To, Progress
  <2> QED
    BY <1>0, <2>1 DEF Progress, Kept, Merging, Changed
<1>5. CASE \E p \in Paths : PlanFile(a, p)
  <2>1. /\ stage[a] = "planning" /\ outcome[a] = "none" /\ wrote[a] = {}
        /\ UNCHANGED <<base, work, stage, outcome, branch, wrote>>
        /\ broken[a] => broken'[a]
    BY <1>0, <1>5 DEF PlanFile, Progress
  <2> QED
    BY <2>1 DEF Progress, Kept, Merging, Changed
<1>6. CASE Planned(a)
  <2>1. /\ stage[a] = "planning" /\ outcome[a] = "none" /\ wrote[a] = {}
        /\ ~broken[a] => Changed(a) \subseteq branch[a]
    BY <1>6 DEF Planned, Refuse, Progress, Merging
  <2> QED
    BY <1>0, <1>6, <2>1 DEF Planned, Refuse, To, planVars, Progress, Kept, Merging, Changed
<1>7. CASE Write(a) \/ WriteFails(a)
  <2>1. /\ stage[a] = "writing" /\ todo[a] = {} /\ conflicts[a] = {}
        /\ ~broken[a] => Changed(a) \subseteq branch[a]
    BY <1>7 DEF Write, WriteFails, Progress, Merging
  <2> QED
    BY <1>0, <1>7, <2>1 DEF Write, WriteFails, WriteFiles, Cleanup, To, Progress, Kept, Merging, Changed
<1>8. CASE \E p \in Paths, content \in Contents : Edit(a, p, content)
  BY <1>0, <1>8 DEF Edit, planVars, countVars, Progress, Kept, Merging
<1> QED
  BY <1>1, <1>2, <1>3, <1>4, <1>5, <1>6, <1>7, <1>8 DEF Merge

LEMMA KeptStep == KeptInv /\ [WorktreesNext]_worktreesVars => KeptInv'
<1> SUFFICES ASSUME KeptInv, [WorktreesNext]_worktreesVars, NEW b \in Agents PROVE Progress(b)' /\ Kept(b)'
  BY MergeTypeStep DEF KeptInv
<1>0. WorktreesTypeOK /\ \A a \in Agents : Progress(a) /\ Kept(a)
  BY DEF KeptInv, TypeHead
<1>1. ASSUME NEW a \in Agents,
             \/ Spawn(a) \/ RunInPlace(a) \/ CopyUntracked(a) \/ Stop(a) \/ Throw(a) \/ Merge(a)
             \/ \E p \in Paths, content \in Contents : Edit(a, p, content)
      PROVE  Progress(b)' /\ Kept(b)'
  BY <1>0, <1>1, OthersSame, OwnStep, SameKept
<1>2. CASE \E p \in Paths, content \in Contents : EditMain(p, content)
  BY <1>0, <1>2, SameKept DEF EditMain, runVars, planVars, countVars, Same
<1>3. CASE UNCHANGED worktreesVars
  BY <1>0, <1>3, SameKept DEF worktreesVars, runVars, planVars, countVars, Same
<1> QED
  BY <1>1, <1>2, <1>3 DEF WorktreesNext

(* Whatever was edited, could not be written, or was failed by git in the  *)
(* work of another sub-agent: a merge that git has not failed wrote its    *)
(* whole plan if it is reported as done, and has its work on its branch if *)
(* not.  One with a conflict has written nothing, even if git failed.      *)
THEOREM NoWorkLostTheorem == WorktreesSpec => []NoWorkLost
<1>1. KeptInv => NoWorkLost
  BY DEF KeptInv, Kept, NoWorkLost
<1> QED
  BY <1>1, KeptInit, KeptStep, PTL DEF WorktreesSpec
=============================================================================
