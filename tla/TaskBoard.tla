----------------------------- MODULE TaskBoard ------------------------------
(***************************************************************************)
(* What a team's shared task list promises (packages/teams/src/index.ts):  *)
(* tasks are added, claimed and completed one at a time, whatever the      *)
(* processes of the teammates do in between.  TeamTasks is shown to        *)
(* implement it with a lock file and a file that is rewritten whole.       *)
(***************************************************************************)
EXTENDS Naturals, Sequences, FiniteSets

CONSTANTS
  Mates,      \* teammates
  Files,      \* files a task may own
  MaxTasks    \* bound: tasks of a team

VARIABLES
  tasks,     \* the list: [status, owner, dependsOn, files], the id is the position
  handed     \* history: <<task, teammate>> for every claim that was answered

boardVars == <<tasks, handed>>

Statuses == {"pending", "claimed", "completed"}
NoOne == "no one"

Task == [status : Statuses, owner : Mates \cup {NoOne},
         dependsOn : SUBSET (1..MaxTasks), files : SUBSET Files]

Done(list) == {i \in DOMAIN list : list[i].status = "completed"}

OwnedFiles(list) ==
  UNION {list[i].files : i \in {j \in DOMAIN list : list[j].status = "claimed"}}

(* Mutant: what a task depends on is not looked at. *)
ClaimableUnordered(list) ==
  {i \in DOMAIN list : /\ list[i].status = "pending"
                       /\ list[i].files \cap OwnedFiles(list) = {}}

(* Mutant: whether another teammate has it is not looked at. *)
ClaimableAgain(list) ==
  {i \in DOMAIN list : /\ list[i].status # "completed"
                       /\ list[i].dependsOn \subseteq Done(list)}

(* TaskList.claim: pending, after what it depends on, and in files no      *)
(* other teammate is in; the first such task is taken.                     *)
Claimable(list) ==
  {i \in DOMAIN list : /\ list[i].status = "pending"
                       /\ list[i].dependsOn \subseteq Done(list)
                       /\ list[i].files \cap OwnedFiles(list) = {}}

First(S) == CHOOSE i \in S : \A j \in S : i <= j

Added(list, deps, fs) ==
  Append(list, [status |-> "pending", owner |-> NoOne, dependsOn |-> deps, files |-> fs])

TakenBy(mate, task) == [task EXCEPT !.status = "claimed", !.owner = mate]

Claimed(list, mate) == [list EXCEPT ![First(Claimable(list))] = TakenBy(mate, @)]

Completed(list, task) == [list EXCEPT ![task].status = "completed"]

-----------------------------------------------------------------------------

BoardInit == tasks = <<>> /\ handed = {}

(* The ids a task depends on are taken as they come. *)
Add == \E deps \in SUBSET (1..MaxTasks), fs \in SUBSET Files :
         tasks' = Added(tasks, deps, fs) /\ UNCHANGED handed

Claim(mate) ==
  /\ Claimable(tasks) # {}
  /\ tasks' = Claimed(tasks, mate)
  /\ handed' = handed \cup {<<First(Claimable(tasks)), mate>>}

Complete(task) == tasks' = Completed(tasks, task) /\ UNCHANGED handed

BoardNext == \/ Add
             \/ \E mate \in Mates : Claim(mate)
             \/ \E task \in DOMAIN tasks : Complete(task)

BoardSpec == BoardInit /\ [][BoardNext]_boardVars

-----------------------------------------------------------------------------
(* Properties. *)

(* What was handed out is never pending again, and belongs to whom it was  *)
(* handed to: what makes the two below inductive.                          *)
BoardInv ==
  /\ tasks \in Seq(Task) /\ handed \subseteq Nat \X Mates
  /\ \A h \in handed : /\ h[1] \in DOMAIN tasks
                       /\ tasks[h[1]].status # "pending" /\ tasks[h[1]].owner = h[2]

(* A task is handed to one teammate, once. *)
ClaimedOnce == \A a, b \in handed : a[1] = b[1] => a = b

(* Two tasks in progress never own the same file, and none is started      *)
(* before those it depends on are done.                                    *)
NoOverlap ==
  \A i, j \in DOMAIN tasks :
    /\ tasks[i].status = "claimed" /\ tasks[j].status = "claimed" /\ i # j
         => tasks[i].files \cap tasks[j].files = {}
    /\ tasks[i].status = "claimed" => tasks[i].dependsOn \subseteq Done(tasks)
=============================================================================
