------------------------------ MODULE EvRecord -------------------------------
(***************************************************************************)
(* The database of events, /lib/fms/db/faults.db (libcase/ev_record.c): one *)
(* table per kind of device, one prepared statement per table, and a row    *)
(* for every event the dispatcher inserts into a case.                     *)
(***************************************************************************)
EXTENDS Integers, Sequences, EventClass

CONSTANT Word   \* 2^32 in the code: as many values has an int

ASSUME WordAssumption == Word \in Nat /\ Word >= 4096 /\ Word % 2 = 0

VARIABLES opened,  \* ras_event_opendb has been called
          stmt,    \* the tables whose statement is prepared
          level,   \* per table: what is bound to evt_level
          rows     \* the rows, without their times

db == <<opened, stmt, level, rows>>

Table   == {"cpu_event", "mem_event", "disk_event"}
NoLevel == "NULL"

DbInit ==
  /\ opened = FALSE /\ stmt = {} /\ rows = {}
  /\ level = [t \in Table |-> NoLevel]

\* ras_event_opendb: a table that cannot be created or prepared is left out, all
\* of them when the file cannot be opened; the daemon goes on.
OpenDb ==
  /\ ~opened
  /\ opened' = TRUE
  /\ stmt' \in SUBSET Table
  /\ UNCHANGED <<level, rows>>

\* ras_events_handle goes by the start of the device's name.  Disks are called
\* /dev/sda and so on, and none of them finds its table.
NoTable == "none"
TableOf(e) ==
  CASE e.name = <<"cpu", 0>>    -> "cpu_event"
    [] e.name = <<"memory", 0>> -> "mem_event"
    [] OTHER -> NoTable

\* An event that is only reported binds no level: that of the event before stays.
LevelOf(e, before) ==
  CASE EventType(e.class) = "EVENT_SERD"  -> "Minor"
    [] EventType(e.class) = "EVENT_FAULT" -> "Major"
    [] OTHER -> before

\* Mutant: dev_id is not bound.
RowNoDev(t, e, lvl) ==
  [table |-> t, class |-> e.class, dev_id |-> 0, evt_id |-> e.evt_id % Word, level |-> lvl]

\* The columns; sqlite3_bind_int takes ints.
Row(t, e, lvl) ==
  [table |-> t, class |-> e.class, dev_id |-> e.dev_id, evt_id |-> e.evt_id % Word, level |-> lvl]

\* ras_store_cpu_event and the other two: a step that fails is only logged.
Store(e) ==
  LET t   == TableOf(e)
      lvl == LevelOf(e, level[t])
  IN IF t \in stmt
     THEN /\ level' = [level EXCEPT ![t] = lvl]
          /\ rows' \in {rows, rows \cup {Row(t, e, lvl)}}
          /\ UNCHANGED <<opened, stmt>>
     ELSE UNCHANGED db
=============================================================================
