-------------------------- MODULE Scheduler_proofs ---------------------------
(***************************************************************************)
(* Theorems about the scheduler, for any schedules, any minutes they fire  *)
(* at, and any number of edits and kills.                                  *)
(***************************************************************************)
EXTENDS Scheduler, WellFoundedInduction, TLAPS

(* A nonempty set of naturals has a least element. *)
LEMMA LeastNatural ==
  ASSUME NEW T \in SUBSET Nat, T # {}
  PROVE  \E m \in T : \A k \in T : m <= k
<1> DEFINE R == OpToRel(<, Nat)
<1>1. IsWellFoundedOn(R, Nat)
  BY NatLessThanWellFounded
<1>2. \A x, y \in Nat : x < y => <<x, y>> \in R
  BY DEF OpToRel
<1> HIDE DEF R
<1>3. PICK m \in T : \A y \in T : ~ (<<y, m>> \in R)
  BY <1>1, WFMin
<1>4. \A k \in T : ~ (k < m)
  BY <1>2, <1>3
<1> QED
  BY <1>4

(* What nextRun comes to: a minute that fires, after this one, if one does *)
(* before the horizon.                                                     *)
LEMMA NextRunIs ==
  ASSUME now \in Nat
  PROVE  /\ NextRun \in 0..Never
         /\ NextRun = Never \/ (NextRun \in Fires /\ now < NextRun)
<1> DEFINE later == {t \in Fires : now < t /\ t <= Horizon} \cup {Never}
<1>0. Horizon \in Nat /\ Never \in Nat /\ Fires \subseteq Nat
  BY SchedulerAssumption DEF Never
<1>1. later \subseteq Nat /\ later # {}
  BY <1>0
<1>2. \E t \in later : \A u \in later : t <= u
  BY <1>1, LeastNatural
<1>3. NextRun \in later
  BY <1>2 DEF NextRun
<1> QED
  BY <1>0, <1>3 DEF Never

(* What the methods of the store make of its entries. *)
LEMMA AddedType == now \in Nat => \A s \in Schedules : Added(s) \in Entries
  BY NextRunIs, SchedulerAssumption DEF Added, Entries, Never

LEMMA MarkType ==
  ASSUME now \in Nat, NEW entries \in [Schedules -> Entries], NEW s \in Schedules
  PROVE  /\ MarkFired(entries, s) \in [Schedules -> Entries]
         /\ \A r \in Schedules \ {s} : MarkFired(entries, s)[r] = entries[r]
         /\ MarkFired(entries, s)[s].there = entries[s].there
         /\ entries[s].there /\ s \in Onces => MarkFired(entries, s)[s].fired
         /\ entries[s].there /\ s \in Crons => MarkFired(entries, s)[s].next = NextRun
<1> DEFINE e == entries[s]
           new == [e EXCEPT !.fired = @ \/ s \in Onces,
                            !.next = IF s \in Crons THEN NextRun ELSE @,
                            !.enabled = @ /\ s \notin Onces]
<1>1. e \in Entries
  OBVIOUS
<1>2. (e.enabled /\ s \notin Onces) \in BOOLEAN /\ (e.fired \/ s \in Onces) \in BOOLEAN
  OBVIOUS
<1>3. /\ new \in Entries /\ (s \in Onces => new.fired) /\ new.there = e.there
      /\ s \in Crons => new.next = NextRun
  BY <1>1, <1>2, NextRunIs DEF Entries
<1>4. Mark(entries, s) = [entries EXCEPT ![s] = new]
  BY DEF Mark
<1> HIDE DEF new
<1> QED
  BY <1>3, <1>4 DEF MarkFired

LEMMA EditType ==
  ASSUME now \in Nat, NEW entries \in [Schedules -> Entries], NEW s \in Schedules,
         NEW edited \in Edited(entries, s)
  PROVE  /\ edited \in [Schedules -> Entries]
         /\ \A r \in Schedules \ {s} : edited[r] = entries[r]
         /\ edited[s].there => \/ s \notin added
                               \/ /\ entries[s].there
                                  /\ edited[s].fired = entries[s].fired
         /\ edited[s].there /\ s \in Crons => edited[s].next \in {entries[s].next, NextRun}
<1>0. entries[s] \in Entries
  OBVIOUS
<1>1. CASE s \notin added /\ edited = AddTo(entries, s)
  <2>1. Added(s) \in Entries /\ (s \in Crons => Added(s).next = NextRun)
    BY AddedType DEF Added
  <2> QED
    BY <1>1, <2>1 DEF AddTo
<1>2. CASE edited = RemoveFrom(entries, s)
  <2>1. Absent \in Entries /\ ~Absent.there
    BY SchedulerAssumption DEF Absent, Entries, Never
  <2> QED
    BY <1>2, <2>1 DEF RemoveFrom
<1>3. ASSUME entries[s].there, NEW on \in BOOLEAN, edited = Switch(entries, s, on)
      PROVE  /\ edited \in [Schedules -> Entries]
             /\ \A r \in Schedules \ {s} : edited[r] = entries[r]
             /\ entries[s].there /\ edited[s].fired = entries[s].fired
             /\ edited[s].next \in {entries[s].next, NextRun}
  <2> DEFINE new == [entries[s] EXCEPT !.enabled = on,
                       !.next = IF on /\ s \in Crons THEN NextRun ELSE @]
  <2>1. /\ new \in Entries /\ new.fired = entries[s].fired
        /\ new.next \in {entries[s].next, NextRun}
    BY <1>0, NextRunIs DEF Entries
  <2>2. edited = [entries EXCEPT ![s] = new]
    BY <1>3 DEF Switch
  <2> HIDE DEF new
  <2> QED
    BY <1>3, <2>1, <2>2
<1> QED
  BY <1>1, <1>2, <1>3 DEF Edited

-----------------------------------------------------------------------------
(* The invariant: OneRun and Paced need to know who has been added, and    *)
(* that the entries, in memory and in the file, remember the marks, except *)
(* where an old copy was written over them.                                *)

(* What the entries tell of the runs in a log of when they were marked.    *)
Kept(entries, log, lost) ==
  \A s \in Schedules \ lost : entries[s].there /\ log[s] # 0 =>
    /\ s \in Crons => \/ entries[s].next = Never
                      \/ entries[s].next \in Fires /\ log[s] < entries[s].next
    /\ s \in Onces => entries[s].fired

Known ==
  \A s \in Schedules :
    \/ s \in added
    \/ /\ active[s] = 0 /\ ended[s] = 0 /\ ~file[s].there /\ ~data[s].there
       /\ \A copy \in copies : ~copy[s].there

Past == \A s \in Schedules : ended[s] <= now /\ (ended[s] # 0 => s \in Crons \cup Onces)

Inv ==
  /\ TypeOK /\ OneRun /\ Known /\ Past
  /\ Kept(file, ended, outdated) /\ Kept(data, ended, forgot)

LEMMA MarkKeeps ==
  ASSUME TypeOK, NEW entries \in [Schedules -> Entries], NEW lost, Kept(entries, ended, lost), Past,
         NEW s \in Schedules, NEW log, \A r \in Schedules \ {s} : log[r] = ended[r],
         log[s] \in {ended[s], now}
  PROVE  Kept(MarkFired(entries, s), log, lost \ {s}) /\ Kept(MarkFired(entries, s), log, lost)
<1>1. /\ now \in Nat /\ log[s] \in Nat /\ log[s] <= now
      /\ Fires \subseteq Nat /\ Horizon \in Nat
  BY SchedulerAssumption DEF TypeOK, Past
<1>2. NextRun = Never \/ (NextRun \in Fires /\ log[s] < NextRun)
  <2>1. NextRun \in Fires /\ now < NextRun => log[s] < NextRun
    BY <1>1
  <2> QED
    BY <1>1, <2>1, NextRunIs
<1>3. /\ \A r \in Schedules \ {s} : MarkFired(entries, s)[r] = entries[r]
      /\ MarkFired(entries, s)[s].there = entries[s].there
      /\ entries[s].there /\ s \in Onces => MarkFired(entries, s)[s].fired
      /\ entries[s].there /\ s \in Crons => MarkFired(entries, s)[s].next = NextRun
  BY <1>1, MarkType
<1> DEFINE marked == MarkFired(entries, s)
<1> HIDE DEF marked
<1>4. ASSUME NEW r \in Schedules, r = s \/ r \notin lost, marked[r].there, log[r] # 0
      PROVE  /\ r \in Crons => \/ marked[r].next = Never
                               \/ marked[r].next \in Fires /\ log[r] < marked[r].next
             /\ r \in Onces => marked[r].fired
  <2>1. CASE r = s
    BY <1>2, <1>3, <1>4, <2>1 DEF marked
  <2>2. CASE r # s
    <3>1. marked[r] = entries[r] /\ log[r] = ended[r] /\ r \notin lost
      BY <1>3, <1>4, <2>2 DEF marked
    <3> QED
      BY <1>4, <3>1 DEF Kept
  <2> QED
    BY <2>1, <2>2
<1> QED
  BY <1>4 DEF Kept, marked

LEMMA EditKeeps ==
  ASSUME TypeOK, NEW entries \in [Schedules -> Entries], NEW lost, Kept(entries, ended, lost),
         Past, Known, NEW s \in Schedules, NEW edited \in Edited(entries, s)
  PROVE  Kept(edited, ended, lost)
<1>1. /\ now \in Nat /\ ended[s] \in Nat /\ ended[s] <= now
      /\ Fires \subseteq Nat /\ Horizon \in Nat
  BY SchedulerAssumption DEF TypeOK, Past
<1>2. NextRun = Never \/ (NextRun \in Fires /\ ended[s] < NextRun)
  <2>1. NextRun \in Fires /\ now < NextRun => ended[s] < NextRun
    BY <1>1
  <2> QED
    BY <1>1, <2>1, NextRunIs
<1>3. ended[s] # 0 => s \in added
  BY DEF Known
<1>4. s \in added /\ edited[s].there => entries[s].there /\ edited[s].fired = entries[s].fired
  BY <1>1, EditType
<1>5. edited[s].there /\ s \in Crons => edited[s].next \in {entries[s].next, NextRun}
  BY <1>1, EditType
<1>6. \A r \in Schedules \ {s} : edited[r] = entries[r]
  BY <1>1, EditType
<1> QED
  BY <1>2, <1>3, <1>4, <1>5, <1>6 DEF Kept

(* Runs that a tick, a trigger or a start begins: of schedules that are    *)
(* there and are not being run.                                            *)
LEMMA ExecuteStep ==
  ASSUME Inv, NEW starting \in SUBSET Schedules, Execute(starting),
         starting \cap running = {}, \A s \in starting : s \in added,
         added' = added, unsaved' = unsaved, ended' = ended,
         copies' = copies, file' = file, data' \in {data, file}
  PROVE  /\ running' \subseteq Schedules /\ active' \in [Schedules -> Nat]
         /\ OneRun' /\ Known'
<1> USE DEF Inv
<1>1. running' \subseteq Schedules /\ active' \in [Schedules -> Nat]
  BY DEF Execute, TypeOK
<1>2. OneRun'
  <2>1. \A s \in Schedules : active[s] \in Nat
    BY DEF TypeOK
  <2>2. ASSUME NEW s \in starting PROVE active'[s] = 1 /\ s \in running'
    <3>1. active[s] = 0
      BY <2>1 DEF OneRun
    <3> QED
      BY <3>1 DEF Execute
  <2>3. ASSUME NEW s \in Schedules \ starting
        PROVE  active'[s] = active[s] /\ (s \in running' <=> s \in running)
    BY DEF Execute
  <2> QED
    BY <2>2, <2>3 DEF OneRun
<1>3. Known'
  BY DEF Known, Execute
<1> QED
  BY <1>1, <1>2, <1>3

(* What a tick finds. *)
LEMMA StartableIs ==
  ASSUME Inv, NEW entries \in {data, file}
  PROVE  /\ Startable(entries) \subseteq Schedules
         /\ Startable(entries) \cap running = {}
         /\ \A s \in Startable(entries) : s \in added
  BY DEF Startable, Due, Inv, Known

LEMMA Initially == Init => Inv
<1> SUFFICES ASSUME Init PROVE Inv
  OBVIOUS
<1>1. now = 1 /\ Horizon \in Nat \ {0} /\ MaxKills \in Nat /\ MaxEdits \in Nat
  BY SchedulerAssumption DEF Init
<1>2. Absent \in Entries /\ ~Absent.there
  BY <1>1 DEF Absent, Entries, Never
<1>3. file \in [Schedules -> Entries]
  BY <1>1, <1>2, AddedType DEF Init
<1>4. TypeOK
  BY <1>1, <1>3 DEF Init, TypeOK
<1>5. Known
  BY <1>2 DEF Init, Known
<1> QED
  BY <1>1, <1>4, <1>5 DEF Init, Inv, OneRun, Past, Kept

LEMMA Step == Inv /\ [Next]_vars => Inv'
<1> SUFFICES ASSUME Inv, [Next]_vars PROVE Inv'
  OBVIOUS
<1> USE DEF Inv
<1>0. /\ now \in Nat /\ now # 0 /\ Horizon \in Nat
      /\ file \in [Schedules -> Entries] /\ data \in [Schedules -> Entries]
  BY SchedulerAssumption DEF TypeOK
<1>1. ASSUME NEW s \in Schedules, CliSave(s) PROVE Inv'
  <2>1. PICK copy \in copies :
          /\ copies' = copies \ {copy} /\ file' \in Edited(copy, s)
          /\ added' = added \cup {s}
          /\ outdated' = outdated \cup {r \in Crons \cup Onces : copy[r] # file[r]}
          /\ UNCHANGED <<now, daemonVars, kills, edits, ended, unsaved, forgot>>
    BY <1>1 DEF CliSave
  <2>2. copy \in [Schedules -> Entries] /\ outdated' \subseteq Schedules
    BY <2>1 DEF TypeOK, Schedules
  <2>3. Kept(copy, ended, outdated')
    BY <2>1 DEF Kept, Past
  <2>4. /\ file' \in [Schedules -> Entries]
        /\ \A r \in Schedules \ {s} : file'[r] = copy[r]
    BY <1>0, <2>1, <2>2, EditType
  <2>5. Kept(file', ended, outdated')
    BY <2>1, <2>2, <2>3, EditKeeps
  <2>6. TypeOK' /\ OneRun'
    BY <2>1, <2>2, <2>4 DEF TypeOK, OneRun, daemonVars
  <2>7. Known'
    BY <2>1, <2>4 DEF Known, daemonVars
  <2>8. Past'
    BY <2>1 DEF Past
  <2>9. Kept(data', ended', forgot')
    BY <2>1 DEF daemonVars
  <2> QED
    BY <2>1, <2>5, <2>6, <2>7, <2>8, <2>9
<1>11. CASE CliLoad
  <2>1. /\ edits' \in 0..MaxEdits /\ copies' = copies \cup {file}
        /\ UNCHANGED <<now, file, daemonVars, kills, doneVars>>
    BY <1>11, SchedulerAssumption DEF CliLoad, Begun, TypeOK
  <2>2. TypeOK'
    BY <1>0, <2>1 DEF TypeOK, daemonVars, doneVars
  <2>3. Known'
    BY <2>1 DEF Known, daemonVars, doneVars
  <2> QED
    BY <2>1, <2>2, <2>3 DEF OneRun, Past, Kept, daemonVars, doneVars
<1>2. ASSUME NEW s \in Schedules, DaemonEdit(s) PROVE Inv'
  <2>1. PICK entries \in Edited(data, s) : Save(entries, forgot)
    BY <1>2 DEF DaemonEdit
  <2>2. /\ data' \in [Schedules -> Entries] /\ Kept(data', ended, forgot)
        /\ file' = data' /\ forgot' = forgot /\ outdated' = forgot
        /\ \A r \in Schedules \ {s} : data'[r] = data[r]
    BY <1>0, <2>1, EditType, EditKeeps DEF Save
  <2>3. /\ edits' \in 0..MaxEdits /\ added' = added \cup {s}
        /\ UNCHANGED <<now, copies, up, stopped, running, active, kills, ended, unsaved>>
    BY <1>2, SchedulerAssumption DEF DaemonEdit, Begun, TypeOK
  <2>4. TypeOK' /\ OneRun'
    BY <2>2, <2>3 DEF TypeOK, OneRun
  <2>5. Known' /\ Past'
    BY <2>2, <2>3 DEF Known, Past
  <2> QED
    BY <2>2, <2>3, <2>4, <2>5
<1>3. ASSUME NEW s \in Schedules, Finish(s) PROVE Inv'
  <2>1. /\ active[s] = 1 /\ active' \in [Schedules -> Nat] /\ active'[s] = 0
        /\ \A r \in Schedules \ {s} : active'[r] = active[r]
    BY <1>3 DEF Finish, TypeOK, OneRun
  <2>2. /\ ended' \in [Schedules -> 0..Horizon] /\ ended'[s] \in {ended[s], now}
        /\ \A r \in Schedules \ {s} : ended'[r] = ended[r]
        /\ ended'[s] # ended[s] => s \in Crons \cup Onces
    <3>1. ended \in [Schedules -> 0..Horizon] /\ now \in 0..Horizon
      BY <1>0 DEF TypeOK
    <3>2. CASE s \in Crons \cup Onces /\ ended' = [ended EXCEPT ![s] = now]
      BY <3>1, <3>2
    <3>3. CASE ended' = ended
      BY <3>1, <3>3
    <3> QED
      BY <1>3, <3>2, <3>3 DEF Finish
  <2>3. /\ data' \in [Schedules -> Entries] /\ file' = data'
        /\ \A r \in Schedules : data'[r].there = data[r].there
    <3>1. data' = MarkFired(data, s) /\ file' = data'
      BY <1>3 DEF Finish, Save
    <3>2. /\ MarkFired(data, s) \in [Schedules -> Entries]
          /\ \A r \in Schedules \ {s} : MarkFired(data, s)[r] = data[r]
          /\ MarkFired(data, s)[s].there = data[s].there
      BY <1>0, MarkType
    <3> QED
      BY <3>1, <3>2
  <2>4. /\ Kept(data', ended', forgot') /\ Kept(file', ended', outdated')
        /\ forgot' \subseteq Schedules /\ outdated' \subseteq Schedules
    <3>1. data' = MarkFired(data, s) /\ file' = data' /\ forgot' = forgot \ {s} /\ outdated' = forgot'
      BY <1>3 DEF Finish, Save
    <3>2. Kept(MarkFired(data, s), ended', forgot \ {s})
      BY <1>0, <2>2, MarkKeeps
    <3> QED
      BY <3>1, <3>2 DEF TypeOK
  <2>5. s \in added
    BY <2>1 DEF Known
  <2>6. Known' /\ Past'
    BY <1>0, <1>3, <2>1, <2>2, <2>3, <2>5 DEF Finish, Known, Past, TypeOK
  <2>7. OneRun'
    BY <1>3, <2>1 DEF Finish, OneRun
  <2>8. TypeOK'
    BY <1>3, <2>1, <2>2, <2>3, <2>4 DEF Finish, TypeOK
  <2> QED
    BY <2>4, <2>6, <2>7, <2>8
<1>4. ASSUME NEW s \in Schedules, FinishUnsaved(s) PROVE Inv'
  <2>1. /\ active[s] = 1 /\ active' \in [Schedules -> Nat] /\ active'[s] = 0
        /\ \A r \in Schedules \ {s} : active'[r] = active[r]
    BY <1>4 DEF FinishUnsaved, TypeOK, OneRun
  <2>2. /\ data' \in [Schedules -> Entries]
        /\ \A r \in Schedules : data'[r].there = data[r].there
    <3>1. data' = data \/ data' = MarkFired(data, s)
      BY <1>4 DEF FinishUnsaved
    <3>2. /\ MarkFired(data, s) \in [Schedules -> Entries]
          /\ \A r \in Schedules \ {s} : MarkFired(data, s)[r] = data[r]
          /\ MarkFired(data, s)[s].there = data[s].there
      BY <1>0, MarkType
    <3> QED
      BY <1>0, <3>1, <3>2
  <2>3. Kept(data', ended, forgot)
    BY <1>0, <1>4, MarkKeeps DEF FinishUnsaved
  <2>4. /\ unsaved' = unsaved \cup {s}
        /\ UNCHANGED <<now, file, copies, up, stopped, running, kills, edits, added, ended,
                       outdated, forgot>>
    BY <1>4 DEF FinishUnsaved
  <2>5. Known' /\ Past'
    BY <2>1, <2>2, <2>4 DEF Known, Past
  <2>6. OneRun'
    BY <2>1, <2>4 DEF OneRun
  <2> QED
    BY <2>1, <2>2, <2>3, <2>4, <2>5, <2>6 DEF TypeOK, Kept
<1>5. ASSUME Tick \/ FireTrigger \/ Start PROVE Inv'
  <2>1. PICK starting \in SUBSET Schedules :
          /\ Execute(starting) /\ starting \cap running = {}
          /\ \A s \in starting : s \in added
    <3>1. CASE Tick \/ Start
      BY <3>1, StartableIs DEF Tick, Start
    <3>2. CASE FireTrigger
      <4>1. PICK name \in SUBSET Triggers :
              Execute({s \in name : data[s].there /\ data[s].enabled} \ running)
        BY <3>2 DEF FireTrigger
      <4> QED
        BY <4>1 DEF Schedules, Known
    <3> QED
      BY <1>5, <3>1, <3>2
  <2>2. /\ UNCHANGED <<now, file, copies, data, up, kills, edits, doneVars>>
        /\ stopped' \in BOOLEAN
    BY <1>5 DEF Tick, FireTrigger, Start, TypeOK
  <2>3. running' \subseteq Schedules /\ active' \in [Schedules -> Nat] /\ OneRun' /\ Known'
    BY <2>1, <2>2, ExecuteStep DEF doneVars
  <2> QED
    BY <2>2, <2>3 DEF doneVars, TypeOK, Past, Kept
<1>6. CASE Stop
  BY <1>6 DEF Stop, doneVars, TypeOK, OneRun, Known, Past, Kept
<1>7. CASE Kill
  <2>1. Empty \in [Schedules -> Entries] /\ \A s \in Schedules : ~Empty[s].there
    BY <1>0 DEF Empty, Absent, Entries, Never
  <2>2. /\ file' \in [Schedules -> Entries] /\ kills' \in 0..MaxKills
        /\ running' = {} /\ active' = [s \in Schedules |-> 0]
        /\ up' \in BOOLEAN /\ stopped' \in BOOLEAN
        /\ data' = Empty /\ forgot' = {}
        /\ UNCHANGED <<now, copies, edits, added, ended, unsaved, outdated>>
    <3>1. kills' \in 0..MaxKills
      BY <1>7, SchedulerAssumption DEF Kill, TypeOK
    <3>2. file' \in [Schedules -> Entries]
      BY <1>0, <1>7, <2>1 DEF Kill
    <3> QED
      BY <1>7, <3>1, <3>2 DEF Kill, doneVars
  <2>3. file' = file \/ file' = Empty
    BY <1>7 DEF Kill
  <2>4. Known' /\ Past' /\ Kept(file', ended', outdated') /\ Kept(data', ended', forgot')
    BY <2>1, <2>2, <2>3 DEF Known, Past, Kept
  <2>5. TypeOK' /\ OneRun'
    BY <2>1, <2>2 DEF TypeOK, OneRun
  <2> QED
    BY <2>4, <2>5
<1>8. CASE Boot
  <2>1. /\ Execute(Startable(file)) /\ data' = file /\ file' = file
        /\ up' \in BOOLEAN /\ stopped' \in BOOLEAN
        /\ forgot' = outdated
        /\ UNCHANGED <<now, copies, kills, edits, added, ended, unsaved, outdated>>
    BY <1>8 DEF Boot, doneVars
  <2>2. running' \subseteq Schedules /\ active' \in [Schedules -> Nat] /\ OneRun' /\ Known'
    BY <2>1, StartableIs, ExecuteStep
  <2> QED
    BY <2>1, <2>2 DEF TypeOK, Past, Kept
<1>9. CASE Pass
  <2>1. /\ now' \in 1..Horizon /\ now < now'
        /\ UNCHANGED <<file, copies, daemonVars, kills, edits, doneVars>>
    BY <1>0, <1>9 DEF Pass
  <2>2. \A s \in Schedules : ended[s] \in Nat /\ ended[s] <= now'
    BY <1>0, <2>1 DEF Past, TypeOK
  <2> QED
    BY <2>1, <2>2 DEF daemonVars, doneVars, TypeOK, OneRun, Known, Past, Kept
<1>10. CASE UNCHANGED vars
  BY <1>10 DEF vars, daemonVars, doneVars, TypeOK, OneRun, Known, Past, Kept
<1> QED
  BY <1>1, <1>2, <1>3, <1>4, <1>5, <1>6, <1>7, <1>8, <1>9, <1>10, <1>11 DEF Next

(* The state keeps the shape daemon.ts gives it. *)
THEOREM TypeCorrect == Spec => []TypeOK
<1>1. Inv => TypeOK
  BY DEF Inv
<1> QED
  BY <1>1, Initially, Step, PTL DEF Spec

(* A schedule is not run beside itself: Daemon.running is asked before     *)
(* execute adds to it, with nothing awaited between.                       *)
THEOREM OneRunTheorem == Spec => []OneRun
<1>1. Inv => OneRun
  BY DEF Inv
<1> QED
  BY <1>1, Initially, Step, PTL DEF Spec

(* Whatever a run is started by: it is of entries that remember its last   *)
(* mark, in memory or, after a kill, in the file.                          *)
LEMMA DueIsPaced ==
  ASSUME Inv, NEW s \in Schedules, NEW entries \in {data, file},
         NEW lost, Kept(entries, ended, lost), s \notin lost, Due(entries, s), ended[s] # 0
  PROVE  /\ s \in Crons => \E t \in Fires : ended[s] < t /\ t <= now
         /\ s \notin Onces
<1>1. /\ entries[s].there /\ s \in Crons \cup Onces /\ s \notin Services
  BY SchedulerAssumption DEF Inv, Due, Past
<1>2. s \notin Onces
  BY <1>1, SchedulerAssumption DEF Due, Kept
<1>3. s \in Crons => entries[s].next <= now /\ now \in Nat /\ now <= Horizon /\ Horizon \in Nat
  BY <1>1, <1>2, SchedulerAssumption DEF Due, Inv, TypeOK
<1>4. s \in Crons => entries[s].next # Never
  BY <1>3 DEF Never
<1> QED
  BY <1>1, <1>2, <1>3, <1>4 DEF Kept

(* Runs of a cron schedule that were marked (Daemon.execute, markFired)    *)
(* are a minute it fires at apart, and a once schedule that was marked     *)
(* does not run again, with edits and kills between them, unless the       *)
(* daemon has loaded an entry that a command made older.                   *)
THEOREM PacedTheorem == Spec => Paced
<1>1. ASSUME Inv, [Next]_vars, NEW s \in Schedules, s \notin forgot' PROVE StartsPaced(s)
  <2> SUFFICES ASSUME active'[s] > active[s], ended[s] # 0
               PROVE  /\ s \in Crons => \E t \in Fires : ended[s] < t /\ t <= now
                      /\ s \notin Onces
    BY DEF StartsPaced
  <2>1. active[s] \in Nat /\ s \in Crons \cup Onces
    BY <1>1 DEF Inv, TypeOK, Past
  <2>2. ASSUME NEW starting \in SUBSET Schedules, Execute(starting) PROVE s \in starting
    BY <1>1, <2>1, <2>2 DEF Execute
  <2>3. CASE Tick \/ Start
    <3>1. s \in Startable(data)
      BY <2>2, <2>3, StartableIs, <1>1 DEF Tick, Start
    <3>2. forgot' = forgot
      BY <2>3 DEF Tick, Start, doneVars
    <3>3. Kept(data, ended, forgot) /\ Due(data, s)
      BY <1>1, <3>1 DEF Startable, Inv
    <3> QED
      BY <1>1, <3>2, <3>3, DueIsPaced
  <2>4. CASE Boot
    <3>1. s \in Startable(file)
      BY <2>2, <2>4, StartableIs, <1>1 DEF Boot
    <3>2. forgot' = outdated
      BY <2>4 DEF Boot
    <3>3. Kept(file, ended, outdated) /\ Due(file, s)
      BY <1>1, <3>1 DEF Startable, Inv
    <3> QED
      BY <1>1, <3>2, <3>3, DueIsPaced
  <2>5. CASE FireTrigger
    <3>1. PICK name \in SUBSET Triggers :
            Execute({r \in name : data[r].there /\ data[r].enabled} \ running)
      BY <2>5 DEF FireTrigger
    <3>2. s \in Triggers
      BY <2>2, <3>1 DEF Schedules
    <3> QED
      BY <2>1, <3>2, SchedulerAssumption
  <2>6. ASSUME NEW r \in Schedules, Finish(r) \/ FinishUnsaved(r) PROVE FALSE
    <3>1. active[r] \in Nat /\ active[r] > 0 /\ active' = [active EXCEPT ![r] = @ - 1]
      BY <1>1, <2>6 DEF Finish, FinishUnsaved, Inv, TypeOK
    <3>2. active'[s] <= active[s]
      BY <1>1, <2>1, <3>1 DEF Inv, TypeOK
    <3>3. active'[s] \in Nat
      BY <1>1, <2>1, <3>1 DEF Inv, TypeOK
    <3> QED
      BY <1>1, <2>1, <3>2, <3>3
  <2>7. ASSUME \/ \E r \in Schedules : CliSave(r) \/ DaemonEdit(r)
               \/ CliLoad \/ Stop \/ Pass \/ UNCHANGED vars
        PROVE  FALSE
    <3>1. active' = active
      BY <2>7 DEF CliSave, CliLoad, DaemonEdit, Stop, Pass, vars, daemonVars
    <3> QED
      BY <1>1, <2>1, <3>1
  <2>8. CASE Kill
    BY <1>1, <2>1, <2>8 DEF Kill
  <2> QED
    BY <1>1, <2>3, <2>4, <2>5, <2>6, <2>7, <2>8 DEF Next
<1>2. Inv /\ [Next]_vars => [\A s \in Schedules : s \notin forgot' => StartsPaced(s)]_vars
  BY <1>1
<1> QED
  BY <1>2, Initially, Step, PTL DEF Spec, Paced
=============================================================================
