----------------------------- MODULE Scheduler ------------------------------
(***************************************************************************)
(* packages/scheduler: ScheduleStore and Daemon.  The daemon holds the     *)
(* store's file in memory from its construction on, looks every tick for   *)
(* what is due, and marks a schedule when its run is over; the command     *)
(* line (cli/src/commands/extras.ts) changes the same file in processes of *)
(* its own: each loads all of it, and later writes all of its copy, changed *)
(* in one place, over whatever the file has become.  Runs are awaited, and *)
(* time passes.                                                            *)
(***************************************************************************)
EXTENDS Naturals, FiniteSetsExt

CONSTANTS
  Crons,      \* schedules of kind cron
  Onces,      \* of kind once
  Services,   \* of kind always-on
  Triggers,   \* of kind trigger
  Fires,      \* minutes the cron expressions match
  Moment,     \* the time of the once schedules
  Horizon,    \* bound: the last minute
  MaxKills,   \* bound: times the daemon's process is killed
  MaxEdits    \* bound: edits of the schedules once the daemon is there, by
              \* itself or begun at the command line

ASSUME SchedulerAssumption ==
  /\ {Moment, Horizon, MaxKills, MaxEdits} \subseteq Nat /\ Horizon # 0
  /\ Fires \subseteq Nat
  /\ Crons \cap Onces = {}
  /\ (Services \cup Triggers) \cap (Crons \cup Onces) = {}

Schedules == Crons \cup Onces \cup Services \cup Triggers

VARIABLES
  now,      \* the time
  file,     \* the store's file: schedule -> its entry
  copies,   \* what commands have loaded and are about to change and write
  data,     \* what the daemon's store holds, nothing while it is down
  up,       \* whether the daemon's process is there
  stopped,  \* Daemon.stopped
  running,  \* Daemon.running
  active,   \* schedule -> calls of options.run in flight
  kills,    \* kills so far
  edits,    \* edits so far
  added,    \* history: schedules added, by whom ever
  ended,    \* history: cron and once schedule -> when a run of it was last
            \* marked, 0 for never
  unsaved,  \* history: schedules whose run ended in a save that failed
  outdated, \* history: cron and once schedules whose entry in the file is older than one
            \* that was there, because a command wrote its copy over that
  forgot    \* history: those among them the daemon has loaded so

daemonVars == <<data, up, stopped, running, active>>
doneVars == <<added, ended, unsaved, outdated, forgot>>
vars == <<now, file, copies, daemonVars, kills, edits, doneVars>>

Never == Horizon + 1
Entries == [there : BOOLEAN, enabled : BOOLEAN, fired : BOOLEAN, next : 0..Never]
Absent == [there |-> FALSE, enabled |-> FALSE, fired |-> FALSE, next |-> Never]
Empty == [s \in Schedules |-> Absent]

-----------------------------------------------------------------------------
(* ScheduleStore: what each method makes of the entries.                   *)

(* nextRun: the first match after this minute. *)
NextRun ==
  LET later == {t \in Fires : now < t /\ t <= Horizon} \cup {Never}
  IN  CHOOSE t \in later : \A u \in later : t <= u

(* Mutant: a cron schedule is not armed again when its run is over. *)
MarkUnarmed(entries, s) ==
  [entries EXCEPT ![s].fired = @ \/ s \in Onces, ![s].enabled = @ /\ s \notin Onces]

(* markFired, for a schedule that is still there: cron is armed again from *)
(* now, and once is over.  fired is lastRunAt, which only the due of a     *)
(* once schedule asks for, and is kept for those.                          *)
Mark(entries, s) ==
  [entries EXCEPT ![s].fired   = @ \/ s \in Onces,
                  ![s].next    = IF s \in Crons THEN NextRun ELSE @,
                  ![s].enabled = @ /\ s \notin Onces]

MarkFired(entries, s) == IF entries[s].there THEN Mark(entries, s) ELSE entries

Added(s) == [there |-> TRUE, enabled |-> TRUE, fired |-> FALSE,
             next |-> IF s \in Crons THEN NextRun ELSE Never]

AddTo(entries, s) == [entries EXCEPT ![s] = Added(s)]

RemoveFrom(entries, s) == [entries EXCEPT ![s] = Absent]

(* setEnabled: what is enabled again is armed from now, not from when it   *)
(* was disabled.                                                           *)
Switch(entries, s, on) ==
  [entries EXCEPT ![s].enabled = on,
                  ![s].next = IF on /\ s \in Crons THEN NextRun ELSE @]

(* One edit, by `jean schedule` or by whoever embeds the store. *)
Edited(entries, s) ==
  IF s \notin added THEN {AddTo(entries, s)}
  ELSE IF entries[s].there
  THEN {RemoveFrom(entries, s)} \cup {Switch(entries, s, on) : on \in BOOLEAN}
  ELSE {}

(* Mutant: what is due is what comes this very minute. *)
DueNow(entries, s) ==
  /\ entries[s].there /\ entries[s].enabled
  /\ \/ s \in Crons /\ entries[s].next = now
     \/ s \in Onces /\ Moment = now /\ ~entries[s].fired
     \/ s \in Services

Due(entries, s) ==
  /\ entries[s].there /\ entries[s].enabled
  /\ \/ s \in Crons /\ entries[s].next <= now
     \/ s \in Onces /\ Moment <= now /\ ~entries[s].fired
     \/ s \in Services

-----------------------------------------------------------------------------
(* A daemon has loaded a file that `jean schedule add` has made. *)
Init ==
  /\ now = 1
  /\ added \in SUBSET Schedules
  /\ file = [s \in Schedules |-> IF s \in added THEN Added(s) ELSE Absent]
  /\ data = file /\ copies = {}
  /\ up = TRUE /\ stopped = TRUE
  /\ running = {} /\ active = [s \in Schedules |-> 0]
  /\ kills = 0 /\ edits = 0 /\ unsaved = {} /\ outdated = {} /\ forgot = {}
  /\ ended = [s \in Schedules |-> 0]

-----------------------------------------------------------------------------
(* Edits. *)

Begun == edits < MaxEdits /\ edits' = edits + 1

(* `jean schedule` makes its store, which loads the file ...               *)
CliLoad ==
  /\ Begun
  /\ copies' = copies \cup {file}
  /\ UNCHANGED <<now, file, daemonVars, kills, doneVars>>

(* ... and saves the whole of what it loaded, with its change.  What the   *)
(* file has come to hold meanwhile is gone.                                *)
CliSave(s) ==
  \E copy \in copies :
    /\ copies' = copies \ {copy}
    /\ file' \in Edited(copy, s)
    /\ added' = added \cup {s}
    /\ outdated' = outdated \cup {r \in Crons \cup Onces : copy[r] # file[r]}
    /\ UNCHANGED <<now, daemonVars, kills, edits, ended, unsaved, forgot>>

(* The daemon writes the whole of its own memory, whatever it has forgotten *)
(* with it.                                                                *)
Save(entries, forgetting) ==
  /\ data' = entries /\ file' = entries
  /\ forgot' = forgetting /\ outdated' = forgetting

DaemonEdit(s) ==
  /\ up /\ Begun
  /\ \E entries \in Edited(data, s) : Save(entries, forgot)
  /\ added' = added \cup {s}
  /\ UNCHANGED <<now, copies, up, stopped, running, active, kills, ended, unsaved>>

-----------------------------------------------------------------------------
(* Daemon. *)

(* execute, up to the await of the run. *)
Execute(starting) ==
  /\ running' = running \cup starting
  /\ active' = [s \in Schedules |-> IF s \in starting THEN active[s] + 1 ELSE active[s]]

(* Mutant: a tick starts all that is due. *)
StartableAgain(entries) == {s \in Schedules : Due(entries, s)}

(* What a tick starts: a slow run is not started twice. *)
Startable(entries) == {s \in Schedules : Due(entries, s)} \ running

Tick ==
  /\ up /\ ~stopped /\ Startable(data) # {}
  /\ Execute(Startable(data))
  /\ UNCHANGED <<now, file, copies, data, up, stopped, kills, edits, doneVars>>

(* fireTrigger: by whoever sees the event, also when ticks are stopped. *)
FireTrigger ==
  /\ up
  /\ \E name \in SUBSET Triggers :
       Execute({s \in name : data[s].there /\ data[s].enabled} \ running)
  /\ UNCHANGED <<now, file, copies, data, up, stopped, kills, edits, doneVars>>

(* The run is over, well or not: recorded, marked, saved, and then only    *)
(* may it start again.                                                     *)
Finish(s) ==
  /\ active[s] > 0
  /\ Save(MarkFired(data, s), forgot \ {s})
  /\ ended' = IF s \in Crons \cup Onces THEN [ended EXCEPT ![s] = now] ELSE ended
  /\ running' = running \ {s}
  /\ active' = [active EXCEPT ![s] = @ - 1]
  /\ UNCHANGED <<now, copies, up, stopped, kills, edits, added, unsaved>>

(* recordRun or markFired throws out of the finally: running is not        *)
(* cleared, and nobody catches it.                                         *)
FinishUnsaved(s) ==
  /\ active[s] > 0
  /\ data' \in {data, MarkFired(data, s)}
  /\ active' = [active EXCEPT ![s] = @ - 1]
  /\ unsaved' = unsaved \cup {s}
  /\ UNCHANGED <<now, file, copies, up, stopped, running, kills, edits, added, ended,
                 outdated, forgot>>

Stop ==
  /\ up /\ ~stopped /\ stopped' = TRUE
  /\ UNCHANGED <<now, file, copies, data, up, running, active, kills, edits, doneVars>>

(* start: the first tick comes with it. *)
Start ==
  /\ up /\ stopped /\ stopped' = FALSE
  /\ Execute(Startable(data))
  /\ UNCHANGED <<now, file, copies, data, up, kills, edits, doneVars>>

(* The process is killed: in the middle of a save - of an edit, or of the   *)
(* end of a run - the file is left half written, and is no JSON.           *)
Kill ==
  /\ up /\ kills < MaxKills /\ kills' = kills + 1
  /\ up' = FALSE /\ stopped' = TRUE
  /\ running' = {} /\ active' = [s \in Schedules |-> 0]
  /\ data' = Empty /\ file' \in {file, Empty}
  /\ forgot' = {}
  /\ UNCHANGED <<now, copies, edits, added, ended, unsaved, outdated>>

(* A new Daemon loads the file, or begins with nothing when it cannot be   *)
(* read, and starts.                                                       *)
Boot ==
  /\ ~up /\ up' = TRUE /\ stopped' = FALSE
  /\ data' = file /\ forgot' = outdated
  /\ Execute(Startable(data'))
  /\ UNCHANGED <<now, file, copies, kills, edits, added, ended, unsaved, outdated>>

Pass ==
  /\ now < Horizon /\ now' = now + 1
  /\ UNCHANGED <<file, copies, daemonVars, kills, edits, doneVars>>

Next ==
  \/ \E s \in Schedules : CliSave(s) \/ DaemonEdit(s) \/ Finish(s) \/ FinishUnsaved(s)
  \/ CliLoad \/ Tick \/ FireTrigger \/ Stop \/ Start \/ Kill \/ Boot \/ Pass

Spec == Init /\ [][Next]_vars

(* The interval timer fires, runs return, and a daemon that died is        *)
(* started again.                                                          *)
FairSpec ==
  /\ Spec
  /\ WF_vars(Tick) /\ WF_vars(Boot)
  /\ \A s \in Schedules : WF_vars(Finish(s) \/ FinishUnsaved(s))

-----------------------------------------------------------------------------
(* Properties. *)

(* The state has the shape the code gives it. *)
TypeOK ==
  /\ now \in 1..Horizon
  /\ file \in [Schedules -> Entries] /\ data \in [Schedules -> Entries]
  /\ up \in BOOLEAN /\ stopped \in BOOLEAN
  /\ running \subseteq Schedules /\ active \in [Schedules -> Nat]
  /\ kills \in 0..MaxKills /\ edits \in 0..MaxEdits /\ added \subseteq Schedules
  /\ ended \in [Schedules -> 0..Horizon] /\ unsaved \subseteq Schedules
  /\ copies \subseteq [Schedules -> Entries]
  /\ outdated \subseteq Schedules /\ forgot \subseteq Schedules

(* A schedule is not run beside itself, whatever ticks, triggers, restarts *)
(* and edits do while a run of it is slow; and it is free again when its   *)
(* run is over, unless saving that failed.                                 *)
OneRun ==
  \A s \in Schedules :
    /\ active[s] <= 1
    /\ active[s] = 1 => s \in running
    /\ s \in running => active[s] = 1 \/ s \in unsaved

(* Between a run of a cron schedule that was marked and the next one lies  *)
(* a minute it fires at, so that what a slow run, a pause or a crash made  *)
(* it miss comes once and not many times; a once schedule that was marked  *)
(* never runs again.  A command that writes an old copy over a mark does   *)
(* not change that while the daemon lives, nor after a kill if the daemon  *)
(* has saved since; but a daemon that boots from such a file has forgotten *)
(* the mark, until it marks the schedule anew.                             *)
StartsPaced(s) ==
  active'[s] > active[s] /\ ended[s] # 0 =>
    /\ s \in Crons => \E t \in Fires : ended[s] < t /\ t <= now
    /\ s \notin Onces

Paced == [][\A s \in Schedules : s \notin forgot' => StartsPaced(s)]_vars

(* What is due in the daemon's store runs to its mark, kills or not: or it *)
(* is removed, disabled or stopped, or a save fails.                       *)
DueRuns ==
  \A s \in Onces :
    up /\ Due(data, s) ~> \/ ended[s] # 0 \/ s \in unsaved
                          \/ up /\ (stopped \/ ~data[s].there \/ ~data[s].enabled)

-----------------------------------------------------------------------------
(* What does not hold (see the README). *)

(* A daemon that runs works from the file as it is. *)
SeesEdits == up => data = file

(* A mark holds whatever commands write and however often the daemon is    *)
(* killed.                                                                 *)
MarksHold == [][\A s \in Schedules : StartsPaced(s)]_vars

(* A kill leaves the schedules there are. *)
StoreSurvives == [][Kill => file' = file]_vars

(* What is enabled and due is started in the end. *)
EnabledRuns ==
  \A s \in Onces : up /\ data[s].there /\ data[s].enabled /\ Moment <= now
                     ~> ~up \/ stopped \/ ~data[s].enabled \/ active[s] > 0
=============================================================================
