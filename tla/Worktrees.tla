----------------------------- MODULE Worktrees ------------------------------
(***************************************************************************)
(* packages/subagents/src/index.ts and packages/agent/src/subagent.ts:     *)
(* sub-agents that write get a git worktree each, and what they did comes  *)
(* back into the main tree file by file, one sub-agent after the other.    *)
(* Every git command is awaited: the user, the parent agent and the other  *)
(* sub-agents go on meanwhile.  Any of them may fail, and the code goes on *)
(* with what the command has printed, if anything.                         *)
(***************************************************************************)
EXTENDS Naturals, SequencesExt

CONSTANTS
  Agents,     \* sub-agents spawned with a worktree
  Main,       \* whoever else writes the main tree
  Paths,      \* files
  Tracked,    \* files git tracks
  Contents,   \* what a file may hold
  Absent,     \* the one that says there is no such file
  LastCommit, \* what HEAD holds
  MaxEdits,   \* bound: edits, of a worktree or the main tree
  MaxFaults   \* bound: git commands that fail with something to lose

ASSUME WorktreesAssumption ==
  /\ Tracked \subseteq Paths /\ Main \notin Agents /\ {MaxEdits, MaxFaults} \subseteq Nat
  /\ Absent \in Contents /\ LastCommit \in [Paths -> Contents]

VARIABLES
  main,       \* the main tree: path -> content
  author,     \* path -> the sub-agent whose merge wrote it last, or Main
  base,       \* agent -> its snapshot
  work,       \* agent -> its worktree
  stage,      \* agent -> where its spawnSubagent is
  outcome,    \* agent -> how that ended
  branch,     \* agent -> files of its work that are on its branch
  broken,     \* history: agent -> whether a git command has failed its merge
  mergeQueue, \* agents whose merge has been asked for, the first one's running
  todo,       \* agent -> changed files planMerge has yet to look at
  writes,     \* agent -> files its plan writes
  conflicts,  \* agent -> files its plan cannot
  wrote,      \* agent -> files its merge has written
  edits,      \* edits made so far
  faults      \* git commands that have failed so far

treeVars == <<main, author>>
runVars  == <<base, work, stage, outcome, branch, broken, mergeQueue>>
planVars == <<todo, writes, conflicts, wrote>>
countVars == <<edits, faults>>
worktreesVars == <<treeVars, runVars, planVars, countVars>>

Stages == {"new", "copying", "working", "complete", "stopped",
           "planning", "writing", "over"}
Outcomes == {"none", "in place", "merged", "conflict", "nothing", "discarded", "failed"}
Trees == [Paths -> Contents]

WorktreesInit ==
  /\ main \in {tree \in Trees : \A p \in Tracked : tree[p] = LastCommit[p]}
  /\ author = [p \in Paths |-> Main]
  /\ base = [a \in Agents |-> LastCommit] /\ work = base
  /\ stage = [a \in Agents |-> "new"]
  /\ outcome = [a \in Agents |-> "none"]
  /\ branch = [a \in Agents |-> {}] /\ broken = [a \in Agents |-> FALSE]
  /\ mergeQueue = <<>>
  /\ todo = [a \in Agents |-> {}] /\ writes = todo
  /\ conflicts = todo /\ wrote = todo
  /\ edits = 0 /\ faults = 0

To(a, s) == stage' = [stage EXCEPT ![a] = s]

(* The helper git: the caller is not told whether the command has failed. *)
Git(fails) ==
  /\ fails => faults < MaxFaults
  /\ faults' = IF fails THEN faults + 1 ELSE faults
  /\ UNCHANGED edits

-----------------------------------------------------------------------------
(* The snapshot and the work. *)

(* createWorktree: `git stash create` takes the tracked files; if it fails *)
(* they are those of the last commit...                                    *)
Spawn(a) ==
  /\ stage[a] = "new"
  /\ \E tree \in {main, LastCommit} :
       base' = [base EXCEPT ![a] = tree] /\ Git(tree # main)
  /\ To(a, "copying")
  /\ UNCHANGED <<treeVars, work, outcome, branch, broken, mergeQueue, planVars>>

(* `git worktree add` fails: the sub-agent works in the main tree. *)
RunInPlace(a) ==
  /\ stage[a] = "new"
  /\ To(a, "over")
  /\ outcome' = [outcome EXCEPT ![a] = "in place"]
  /\ UNCHANGED <<treeVars, base, work, branch, broken, mergeQueue, planVars, countVars>>

(* ...and copyUntracked, when a worktree of them is made, the others: as   *)
(* many as git lists and can be copied.  The snapshot is what has been     *)
(* committed of that: without a commit, the tracked files.                 *)
CopyUntracked(a) ==
  /\ stage[a] = "copying"
  /\ \E copied \in SUBSET (Paths \ Tracked) : \E committed \in {copied, {}} :
       LET with(files) ==
             [p \in Paths |-> IF p \in Tracked THEN base[a][p]
                              ELSE IF p \in files THEN main[p] ELSE Absent]
       IN  /\ work' = [work EXCEPT ![a] = with(copied)]
           /\ base' = [base EXCEPT ![a] = with(committed)]
           /\ Git(with(committed) # with(Paths))
  /\ To(a, "working")
  /\ UNCHANGED <<treeVars, outcome, branch, broken, mergeQueue, planVars>>

(* A tool of the sub-agent writes or removes a file of its worktree. *)
Edit(a, p, content) ==
  /\ stage[a] = "working" /\ edits < MaxEdits
  /\ work' = [work EXCEPT ![a][p] = content]
  /\ edits' = edits + 1 /\ UNCHANGED faults
  /\ UNCHANGED <<treeVars, base, stage, outcome, branch, broken, mergeQueue, planVars>>

(* The user, the parent, or a sub-agent without a worktree: a resumed one. *)
EditMain(p, content) ==
  /\ edits < MaxEdits
  /\ main' = [main EXCEPT ![p] = content]
  /\ author' = [author EXCEPT ![p] = Main]
  /\ edits' = edits + 1 /\ UNCHANGED faults
  /\ UNCHANGED <<runVars, planVars>>

(* runLoop returns: serializeMerge puts the merge behind the others.       *)
Stop(a) ==
  /\ stage[a] = "working"
  /\ \E reason \in {"complete", "stopped"} : To(a, reason)
  /\ mergeQueue' = Append(mergeQueue, a)
  /\ UNCHANGED <<treeVars, base, work, outcome, branch, broken, planVars, countVars>>

(* cleanup: the worktree is removed, and its branch with it.  (A branch    *)
(* that git cannot delete stays.)                                          *)
Cleanup(a, end) ==
  /\ To(a, "over")
  /\ outcome' = [outcome EXCEPT ![a] = end]
  /\ branch' = [branch EXCEPT ![a] = {}]

(* runLoop throws: the worktree goes at once. *)
Throw(a) ==
  /\ stage[a] = "working"
  /\ Cleanup(a, "discarded")
  /\ UNCHANGED <<treeVars, base, work, broken, mergeQueue, planVars, countVars>>

-----------------------------------------------------------------------------
(* serializeMerge, finishWorktree and finish. *)

(* Mutant: merges of sub-agents that end together run together. *)
TurnTogether(a) == a \in ToSet(mergeQueue)

(* It is a's turn in the queue. *)
Turn(a) == mergeQueue # <<>> /\ Head(mergeQueue) = a

NextMerge == mergeQueue' = Tail(mergeQueue)

Changed(a) == {p \in Paths : work[a][p] # base[a][p]}

(* A run that did not complete is not worth merging. *)
Discard(a) ==
  /\ stage[a] = "stopped" /\ Turn(a)
  /\ Cleanup(a, "discarded") /\ NextMerge
  /\ UNCHANGED <<treeVars, base, work, broken, planVars, countVars>>

(* Nothing is listed: there is nothing, or `git add` or `git diff` failed. *)
NothingChanged(a) ==
  /\ stage[a] = "complete" /\ Turn(a)
  /\ broken' = [broken EXCEPT ![a] = Changed(a) # {}]
  /\ Git(Changed(a) # {})
  /\ Cleanup(a, "nothing") /\ NextMerge
  /\ UNCHANGED <<treeVars, base, work, planVars>>

(* The work is committed on the branch, "whatever happens next" - if git   *)
(* does, and what has been staged of it: without the `git add`, what the   *)
(* sub-agent itself had staged, and only that is listed.                   *)
Commit(a) ==
  /\ stage[a] = "complete" /\ Turn(a)
  /\ \E staged \in SUBSET Changed(a) \ {{}} : \E committed \in {staged, {}} :
       /\ branch' = [branch EXCEPT ![a] = committed]
       /\ todo' = [todo EXCEPT ![a] = staged]
       /\ broken' = [broken EXCEPT ![a] = committed # Changed(a)]
       /\ Git(committed # Changed(a))
  /\ To(a, "planning")
  /\ UNCHANGED <<treeVars, base, work, outcome, mergeQueue, writes, conflicts, wrote>>

(* planMerge, one file: written if the main tree has what the snapshot has *)
(* - in conflict if it has neither that nor what the sub-agent made of it. *)
(* A file that `git show` fails on is taken for one the snapshot has not.  *)
PlanFile(a, p) ==
  /\ stage[a] = "planning" /\ p \in todo[a]
  /\ todo' = [todo EXCEPT ![a] = @ \ {p}]
  /\ \E original \in {base[a][p], Absent} :
       /\ broken' = [broken EXCEPT ![a] = @ \/ original # base[a][p]]
       /\ Git(original # base[a][p])
       /\ \/ main[p] = original
             /\ writes' = [writes EXCEPT ![a] = @ \cup {p}] /\ UNCHANGED conflicts
          \/ main[p] \notin {original, work[a][p]}
             /\ conflicts' = [conflicts EXCEPT ![a] = @ \cup {p}] /\ UNCHANGED writes
          \/ main[p] # original /\ main[p] = work[a][p] /\ UNCHANGED <<writes, conflicts>>
  /\ UNCHANGED <<treeVars, base, work, stage, outcome, branch, mergeQueue, wrote>>

(* Mutant: what is not in conflict is merged. *)
RefuseNever(a) ==
  /\ stage[a] = "planning" /\ todo[a] = {}
  /\ To(a, "writing")
  /\ UNCHANGED <<base, work, outcome, branch, broken, mergeQueue>>

(* Any conflict, and the worktree goes, its branch stays, nothing is       *)
(* written.                                                                *)
Refuse(a) ==
  /\ stage[a] = "planning" /\ todo[a] = {}
  /\ \/ conflicts[a] = {} /\ To(a, "writing") /\ UNCHANGED <<outcome, mergeQueue>>
     \/ conflicts[a] # {} /\ To(a, "over") /\ NextMerge
        /\ outcome' = [outcome EXCEPT ![a] = "conflict"]
  /\ UNCHANGED <<base, work, branch, broken>>

Planned(a) == Refuse(a) /\ UNCHANGED <<treeVars, planVars, countVars>>

WriteFiles(a, files) ==
  /\ main' = [p \in Paths |-> IF p \in files THEN work[a][p] ELSE main[p]]
  /\ author' = [p \in Paths |-> IF p \in files THEN a ELSE author[p]]
  /\ wrote' = [wrote EXCEPT ![a] = files]

(* The files of the plan are written, in one go. *)
Write(a) ==
  /\ stage[a] = "writing"
  /\ WriteFiles(a, writes[a])
  /\ Cleanup(a, "merged") /\ NextMerge
  /\ UNCHANGED <<base, work, broken, todo, writes, conflicts, countVars>>

(* Mutant: a failure ends the chain of merges. *)
SettleBroken == UNCHANGED mergeQueue

(* The queue survives a merge that failed. *)
Settle == NextMerge

(* One of them cannot be, or the worktree cannot be removed after them:    *)
(* finish rejects.                                                         *)
WriteFails(a) ==
  /\ stage[a] = "writing"
  /\ \E files \in SUBSET writes[a] : WriteFiles(a, files)
  /\ To(a, "over")
  /\ outcome' = [outcome EXCEPT ![a] = "failed"]
  /\ Settle
  /\ UNCHANGED <<base, work, branch, broken, todo, writes, conflicts, countVars>>

Merge(a) ==
  \/ Discard(a) \/ NothingChanged(a) \/ Commit(a)
  \/ \E p \in Paths : PlanFile(a, p)
  \/ Planned(a) \/ Write(a) \/ WriteFails(a)

WorktreesNext ==
  \/ \E a \in Agents :
       Spawn(a) \/ RunInPlace(a) \/ CopyUntracked(a) \/ Stop(a) \/ Throw(a) \/ Merge(a)
  \/ \E a \in Agents, p \in Paths, content \in Contents : Edit(a, p, content)
  \/ \E p \in Paths, content \in Contents : EditMain(p, content)

WorktreesSpec == WorktreesInit /\ [][WorktreesNext]_worktreesVars

(* Git commands return, if only to fail, and the promise chain goes on     *)
(* when they do.                                                           *)
WorktreesFairSpec == WorktreesSpec /\ \A a \in Agents : WF_worktreesVars(Merge(a))

-----------------------------------------------------------------------------
(* Properties. *)

(* The state has the shape the code gives it. *)
WorktreesTypeOK ==
  /\ main \in Trees /\ author \in [Paths -> Agents \cup {Main}]
  /\ base \in [Agents -> Trees] /\ work \in [Agents -> Trees]
  /\ stage \in [Agents -> Stages] /\ outcome \in [Agents -> Outcomes]
  /\ branch \in [Agents -> SUBSET Paths] /\ broken \in [Agents -> BOOLEAN]
  /\ mergeQueue \in Seq(Agents)
  /\ todo \in [Agents -> SUBSET Paths] /\ writes \in [Agents -> SUBSET Paths]
  /\ conflicts \in [Agents -> SUBSET Paths] /\ wrote \in [Agents -> SUBSET Paths]
  /\ edits \in 0..MaxEdits /\ faults \in 0..MaxFaults

(* A merge that git has not failed never undoes another one: where it      *)
(* replaces what the merge of another sub-agent left, that is what its own *)
(* snapshot started from.                                                  *)
MergesKeep ==
  [][\A a \in Agents, p \in Paths :
       author'[p] = a /\ author[p] \in Agents \ {a} /\ ~broken[a]
         => main[p] = base[a][p]]_worktreesVars

(* Of a run that completed and that git has not failed, whatever it did to *)
(* the others: all that was changed is looked at and in the main tree when *)
(* its merge is reported as done, and otherwise on its branch, which the   *)
(* report names.  And whatever failed, a merge with a conflict has written *)
(* nothing.                                                                *)
NoWorkLost ==
  \A a \in Agents :
    /\ ~broken[a] =>
         /\ outcome[a] \in {"conflict", "failed"} => Changed(a) \subseteq branch[a]
         /\ outcome[a] = "merged" => todo[a] = {} /\ conflicts[a] = {} /\ wrote[a] = writes[a]
         /\ outcome[a] = "nothing" => Changed(a) = {}
    /\ conflicts[a] # {} => wrote[a] = {}

(* Every sub-agent that stopped is merged, refused or dropped in the end,  *)
(* whatever became of the merges before it.                                *)
MergesEnd ==
  \A a \in Agents : stage[a] \in {"complete", "stopped"} ~> stage[a] = "over"

-----------------------------------------------------------------------------
(* What does not hold (see the README). *)

(* Whatever git fails at, a refused merge loses nothing... *)
RefusedIsKept ==
  \A a \in Agents : outcome[a] = "conflict" => Changed(a) \subseteq branch[a]

(* ...and a sub-agent that is said to have changed nothing has not.        *)
NothingIsNothing ==
  \A a \in Agents : outcome[a] = "nothing" => Changed(a) = {}

(* Whatever git fails at, no merge undoes another. *)
NeverUndone ==
  [][\A a \in Agents, p \in Paths :
       author'[p] = a /\ author[p] \in Agents \ {a} => main[p] = base[a][p]]_worktreesVars

(* A merge overwrites nobody's edit: not one made since the plan saw it.   *)
EditsKeep ==
  [][\A a \in Agents, p \in Paths :
       author'[p] = a /\ author[p] # a => main[p] = base[a][p]]_worktreesVars

(* A snapshot is the main tree at one moment. *)
SnapshotWhole ==
  [][\A a \in Agents :
       stage'[a] = "working" /\ stage[a] = "copying" => base'[a] = main]_worktreesVars
=============================================================================
