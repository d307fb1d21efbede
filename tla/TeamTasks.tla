----------------------------- MODULE TeamTasks ------------------------------
(***************************************************************************)
(* packages/teams/src/index.ts: FileLock and TaskList, used by teammates   *)
(* in separate processes.  Each step is one system call on the files they  *)
(* share: the lock, the list, and the temporary file it is rewritten to.   *)
(* What a task contains beyond status, owner, dependencies and files is    *)
(* left out, and "in_progress" is taken with "claimed".                    *)
(***************************************************************************)
EXTENDS TaskBoard

CONSTANTS
  Mortal,     \* teammates whose process may be killed
  Slow        \* teammates that may stall longer than STALE_MS with the lock

ASSUME TeamAssumption ==
  /\ MaxTasks \in Nat /\ NoOne \notin Mates
  /\ Mortal \subseteq Mates /\ Slow \subseteq Mates

VARIABLES
  lock,      \* tasks.lock: who created it, or NoOne when there is no file
  old,       \* the lock file is older than STALE_MS
  temp,      \* tasks.json.tmp: <<list>>, or <<>> when there is no file
  pc,        \* where each teammate is in transaction()
  op,        \* what it was called for
  view,      \* the list it is about to write
  taken,     \* the task its claim found, if any
  added      \* bound: calls of add

mateVars == <<pc, op, view, taken>>
vars == <<boardVars, lock, old, temp, mateVars, added>>

Places == {"idle", "trying", "sleeping", "breaking",
           "holding", "mutated", "written", "releasing", "dead"}
Inside == {"holding", "mutated", "written", "releasing"}

Ops == [kind : {"add"}, deps : SUBSET (1..MaxTasks), files : SUBSET Files]
         \cup [kind : {"claim"}] \cup [kind : {"complete"}, task : 1..MaxTasks]

(* What a transaction makes of the list. *)
Outcome(list, o, mate) ==
  CASE o.kind = "add"      -> Added(list, o.deps, o.files)
    [] o.kind = "claim"    -> IF Claimable(list) = {} THEN list ELSE Claimed(list, mate)
    [] o.kind = "complete" -> IF o.task \in DOMAIN list THEN Completed(list, o.task)
                              ELSE list

Found(list, o) ==
  IF o.kind = "claim" /\ Claimable(list) # {} THEN {First(Claimable(list))} ELSE {}

Init ==
  /\ BoardInit
  /\ lock = NoOne /\ old = FALSE /\ temp = <<>>
  /\ pc = [m \in Mates |-> "idle"]
  /\ op = [m \in Mates |-> [kind |-> "claim"]]
  /\ view = [m \in Mates |-> <<>>]
  /\ taken = [m \in Mates |-> {}]
  /\ added = 0

Goto(m, place) == pc' = [pc EXCEPT ![m] = place]

(* The call returns, throws or dies: its locals are gone. *)
Leave(m, place) ==
  /\ Goto(m, place)
  /\ op' = [op EXCEPT ![m] = [kind |-> "claim"]]
  /\ view' = [view EXCEPT ![m] = <<>>]
  /\ taken' = [taken EXCEPT ![m] = {}]

Call(m) ==
  /\ pc[m] = "idle"
  /\ \E o \in Ops :
       /\ o.kind = "add" => added < MaxTasks
       /\ added' = IF o.kind = "add" THEN added + 1 ELSE added
       /\ op' = [op EXCEPT ![m] = o]
  /\ Goto(m, "trying")
  /\ UNCHANGED <<boardVars, lock, old, temp, view, taken>>

-----------------------------------------------------------------------------
(* FileLock. *)

(* Mutant: the file is looked for, and made, whether it is there or not.   *)
AcquireUnchecked(m) ==
  /\ pc[m] = "trying"
  /\ lock' = m /\ old' = FALSE
  /\ Goto(m, "holding")
  /\ UNCHANGED <<boardVars, temp, op, view, taken, added>>

(* Exclusive creation. *)
Acquire(m) ==
  /\ pc[m] = "trying" /\ lock = NoOne
  /\ lock' = m /\ old' = FALSE
  /\ Goto(m, "holding")
  /\ UNCHANGED <<boardVars, temp, op, view, taken, added>>

(* It exists.  An old one is to be removed, or the teammate sleeps. *)
Fail(m) ==
  /\ pc[m] = "trying" /\ lock # NoOne
  /\ Goto(m, IF old THEN "breaking" ELSE "sleeping")
  /\ UNCHANGED <<boardVars, lock, old, temp, op, view, taken, added>>

(* After RETRY_MS: once more, or the call throws when its time is up. *)
Wake(m) ==
  /\ pc[m] = "sleeping"
  /\ \/ Goto(m, "trying") /\ UNCHANGED <<op, view, taken>>
     \/ Leave(m, "idle")
  /\ UNCHANGED <<boardVars, lock, old, temp, added>>

(* Mutant: a stale lock is left for the others to wait on. *)
BreakNothing(m) ==
  /\ pc[m] = "breaking"
  /\ Goto(m, "trying")
  /\ UNCHANGED <<boardVars, lock, old, temp, op, view, taken, added>>

(* The lock seen stale is removed: by now it may be another one. *)
Break(m) ==
  /\ pc[m] = "breaking"
  /\ lock' = NoOne /\ old' = FALSE
  /\ Goto(m, "trying")
  /\ UNCHANGED <<boardVars, temp, op, view, taken, added>>

(* Whoever releases removes the lock there is. *)
Release(m) ==
  /\ pc[m] = "releasing"
  /\ lock' = NoOne /\ old' = FALSE
  /\ Leave(m, "idle")
  /\ UNCHANGED <<boardVars, temp, added>>

-----------------------------------------------------------------------------
(* TaskList.transaction, under the lock. *)

Mutate(m) ==
  /\ pc[m] = "holding"
  /\ view' = [view EXCEPT ![m] = Outcome(tasks, op[m], m)]
  /\ taken' = [taken EXCEPT ![m] = Found(tasks, op[m])]
  /\ Goto(m, "mutated")
  /\ UNCHANGED <<boardVars, lock, old, temp, op, added>>

(* Mutant: the lock is released before the list is in place. *)
WriteTempUnlocked(m) ==
  /\ pc[m] = "mutated"
  /\ temp' = <<view[m]>>
  /\ lock' = NoOne /\ old' = FALSE
  /\ Goto(m, "written")
  /\ UNCHANGED <<boardVars, op, view, taken, added>>

WriteTemp(m) ==
  /\ pc[m] = "mutated"
  /\ temp' = <<view[m]>>
  /\ Goto(m, "written")
  /\ UNCHANGED <<boardVars, lock, old, op, view, taken, added>>

(* The list is replaced, and a claim answered with the task it took.  The  *)
(* rename fails when another teammate renamed the temporary file first.    *)
Rename(m) ==
  /\ pc[m] = "written"
  /\ IF temp = <<>> THEN UNCHANGED <<boardVars, temp>>
     ELSE /\ tasks' = temp[1] /\ temp' = <<>>
          /\ handed' = handed \cup {<<t, m>> : t \in taken[m]}
  /\ Goto(m, "releasing")
  /\ UNCHANGED <<lock, old, op, view, taken, added>>

-----------------------------------------------------------------------------
(* Time and failures. *)

(* STALE_MS go by with the lock in place: its holder is dead or stalls.    *)
Age ==
  /\ lock # NoOne /\ ~old
  /\ lock \in Slow \/ pc[lock] = "dead"
  /\ old' = TRUE
  /\ UNCHANGED <<boardVars, lock, temp, mateVars, added>>

Kill(m) ==
  /\ m \in Mortal /\ pc[m] # "dead"
  /\ Leave(m, "dead")
  /\ UNCHANGED <<boardVars, lock, old, temp, added>>

Work(m) == \/ Acquire(m) \/ Fail(m) \/ Wake(m) \/ Break(m)
           \/ Mutate(m) \/ WriteTemp(m) \/ Rename(m) \/ Release(m)

Next ==
  \/ \E m \in Mates : Call(m) \/ Work(m) \/ Kill(m)
  \/ Age

Spec == Init /\ [][Next]_vars

(* A live teammate goes on, and asks again; time passes. *)
FairSpec == Spec /\ WF_vars(Age) /\ \A m \in Mates : WF_vars(Work(m)) /\ WF_vars(Call(m))

-----------------------------------------------------------------------------
(* Properties. *)

(* The state has the shape the code gives it. *)
TypeOK ==
  /\ tasks \in Seq(Task) /\ handed \subseteq (Nat \X Mates)
  /\ lock \in Mates \cup {NoOne} /\ old \in BOOLEAN
  /\ temp \in Seq(Seq(Task)) /\ Len(temp) <= 1
  /\ pc \in [Mates -> Places] /\ op \in [Mates -> Ops] /\ view \in [Mates -> Seq(Task)]
  /\ taken \in [Mates -> SUBSET Nat]
  /\ added \in 0..MaxTasks

(* A lock is removed by nobody but its holder, or by the only one left.    *)
OneBreaker ==
  /\ Slow = {}
  /\ Mortal = {} \/ \A l, m, n \in Mates : l = m \/ l = n \/ m = n

(* Then: a lock taken for stale is a dead teammate's and stays until it is *)
(* removed, who is inside holds the lock, and what it is about to write is *)
(* still what the list calls for.                                          *)
LockInv ==
  /\ old => lock \in Mates /\ pc[lock] = "dead"
  /\ lock \in Mates => pc[lock] \in Inside \cup {"dead"}
  /\ \A m \in Mates :
       /\ pc[m] = "dead" => m \in Mortal
       /\ pc[m] = "breaking" => old
       /\ pc[m] \in Inside => lock = m
       /\ pc[m] \in {"mutated", "written"} =>
            view[m] = Outcome(tasks, op[m], m) /\ taken[m] = Found(tasks, op[m])
       /\ pc[m] = "written" => temp = <<view[m]>>

(* One teammate at a time is in transaction(). *)
MutualExclusion ==
  \A m, n \in Mates : pc[m] \in Inside /\ pc[n] \in Inside => m = n

(* The files do what the abstract list promises: every transaction takes   *)
(* effect at its rename, on the list as it is then (TaskList.transaction). *)
IsBoard == BoardSpec

(* A teammate killed with the lock does not wedge the team.                *)
NeverWedged == \A m \in Mortal : (lock = m /\ pc[m] = "dead") ~> lock # m
=============================================================================
