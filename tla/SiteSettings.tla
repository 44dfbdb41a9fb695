---------------------------- MODULE SiteSettings ----------------------------
(***************************************************************************)
(* lib/site-settings.ts: the row of site settings and the copy every       *)
(* server instance keeps of it for TTL_MS.  A reader takes the copy if it  *)
(* is young enough; otherwise it queries the row and stores what it got.   *)
(* The administrator saves the row and then drops the copy of the instance *)
(* that served the save: the other instances keep theirs.                  *)
(*                                                                         *)
(* Of the settings only freeShippingMin is kept, the one orders depend on. *)
(* Time passes in ticks; a query is shorter than a tick (Tick waits for    *)
(* the readers under way), a copy lives for Ttl of them.                   *)
(***************************************************************************)
EXTENDS Naturals

CONSTANTS
  Instances,    \* the server processes
  Readers,      \* the calls of getSiteSettings that may be under way at once
  Savers,       \* the administrators' save requests
  Minimums,     \* the values freeShippingMin may be given
  DefaultMin,   \* DEFAULT_SETTINGS.freeShippingMin
  NoRow,        \* "no row yet" and "no copy"
  Ttl,          \* the life of a copy, in ticks
  MaxSaves,     \* bound: saves of the row
  MaxFaults     \* bound: calls that fail and instances that die

ASSUME SettingsAssumption ==
  /\ DefaultMin \in Minimums
  /\ Minimums \subseteq Nat
  /\ NoRow \notin Minimums
  /\ Ttl \in Nat \ {0}
  /\ MaxSaves \in Nat
  /\ MaxFaults \in Nat

VARIABLES
  row,       \* the row's freeShippingMin, or NoRow
  copy,      \* by instance: NoRow or the module-level cache {data, at}
  reading,   \* by reader: its progress through getSiteSettings
  saving,    \* by saver: its progress through saveSiteSettings
  saves, faults,
  since      \* history: ticks since a value could last be read (at most Ttl)

settingsVars == <<row, copy, reading, saving, saves, faults, since>>

NotReading == [step |-> "none"]
NotSaving  == [step |-> "none"]

Copies   == [data : Minimums, age : 0..Ttl]
Readings == [step : {"query", "store", "got"}, at : Instances, data : Minimums]
Savings  == [step : {"drop"}, at : Instances]

Effective == IF row = NoRow THEN DefaultMin ELSE row

SettingsTypeOK ==
  /\ row \in Minimums \cup {NoRow}
  /\ copy \in [Instances -> {NoRow} \cup Copies]
  /\ reading \in [Readers -> {NotReading} \cup Readings]
  /\ saving \in [Savers -> {NotSaving} \cup Savings]
  /\ saves \in 0..MaxSaves
  /\ faults \in 0..MaxFaults
  /\ since \in [Minimums -> 0..Ttl]

SettingsInit ==
  /\ row = NoRow
  /\ copy = [i \in Instances |-> NoRow]
  /\ reading = [r \in Readers |-> NotReading]
  /\ saving = [s \in Savers |-> NotSaving]
  /\ saves = 0
  /\ faults = 0
  /\ since = [m \in Minimums |-> IF m = DefaultMin THEN 0 ELSE Ttl]

-----------------------------------------------------------------------------
Young_Ever(i) == copy[i] # NoRow

Young(i) == copy[i] # NoRow /\ copy[i].age < Ttl

GetHit(r, i) ==
  /\ reading[r] = NotReading
  /\ Young(i)
  /\ reading' = [reading EXCEPT ![r] = [step |-> "got", at |-> i, data |-> copy[i].data]]
  /\ UNCHANGED <<row, copy, saving, saves, faults, since>>

GetMiss(r, i) ==
  /\ reading[r] = NotReading
  /\ ~Young(i)
  /\ reading' = [reading EXCEPT ![r] = [step |-> "query", at |-> i, data |-> DefaultMin]]
  /\ UNCHANGED <<row, copy, saving, saves, faults, since>>

QueryAnswers(r) ==
  /\ reading[r].step = "query"
  /\ reading' = [reading EXCEPT ![r].step = "store", ![r].data = Effective]
  /\ UNCHANGED <<row, copy, saving, saves, faults, since>>

(* A failed query is taken for a missing row: the defaults are returned,   *)
(* and stored.                                                             *)
QueryFails(r) ==
  /\ reading[r].step = "query"
  /\ faults < MaxFaults
  /\ reading' = [reading EXCEPT ![r].step = "store", ![r].data = DefaultMin]
  /\ faults' = faults + 1
  /\ since' = [since EXCEPT ![DefaultMin] = 0]
  /\ UNCHANGED <<row, copy, saving, saves>>

StoreCopy(r) ==
  /\ reading[r].step = "store"
  /\ copy' = [copy EXCEPT ![reading[r].at] = [data |-> reading[r].data, age |-> 0]]
  /\ reading' = [reading EXCEPT ![r].step = "got"]
  /\ UNCHANGED <<row, saving, saves, faults, since>>

UpsertRow(s, i, m) ==
  /\ saving[s] = NotSaving
  /\ saves < MaxSaves
  /\ row' = m
  /\ saves' = saves + 1
  /\ saving' = [saving EXCEPT ![s] = [step |-> "drop", at |-> i]]
  /\ since' = [since EXCEPT ![m] = 0]
  /\ UNCHANGED <<copy, reading, faults>>

DropCopy(s) ==
  /\ saving[s].step = "drop"
  /\ copy' = [copy EXCEPT ![saving[s].at] = NoRow]
  /\ saving' = [saving EXCEPT ![s] = NotSaving]
  /\ UNCHANGED <<row, reading, saves, faults, since>>

Older(age) == IF age < Ttl THEN age + 1 ELSE Ttl

SettingsTick ==
  /\ \A r \in Readers : reading[r] = NotReading
  /\ copy' = [i \in Instances |-> IF copy[i] = NoRow THEN NoRow
                                  ELSE [copy[i] EXCEPT !.age = Older(@)]]
  /\ since' = [m \in Minimums |-> IF m = Effective THEN 0 ELSE Older(since[m])]
  /\ UNCHANGED <<row, reading, saving, saves, faults>>

ReaderStep(r) ==
  \/ \E i \in Instances : GetHit(r, i) \/ GetMiss(r, i)
  \/ QueryAnswers(r)
  \/ QueryFails(r)
  \/ StoreCopy(r)

SettingsNext ==
  \/ \E r \in Readers : ReaderStep(r)
  \/ \E s \in Savers :
       \/ \E i \in Instances, m \in Minimums : UpsertRow(s, i, m)
       \/ DropCopy(s)
  \/ SettingsTick

SettingsSpec == SettingsInit /\ [][SettingsNext]_settingsVars

(* A copy is never staler than its age says: what it holds could be read   *)
(* from the database (or, when the database failed, was the default) no    *)
(* longer ago than the copy is old, so every instance comes to the saved   *)
(* row within TTL_MS, whichever instance served the save and whatever      *)
(* query was under way (site-settings.ts lines 122-155).                   *)
CopyHonest ==
  \A i \in Instances : copy[i] # NoRow => since[copy[i].data] <= copy[i].age

(* What getSiteSettings returns was current less than TTL_MS ago.          *)
ReadFresh ==
  \A r \in Readers : reading[r] # NotReading /\ reading[r].step = "got"
                       => since[reading[r].data] < Ttl

(* Both, for the copies that are kept and the answers that are given.      *)
SettingsFresh == CopyHonest /\ ReadFresh
=============================================================================
