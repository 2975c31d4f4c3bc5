-------------------------------- MODULE Audit --------------------------------
(***************************************************************************)
(* The audit trail (core.audit): signals around every save of a registered *)
(* model read the row before it, and log afterwards which fields of the    *)
(* instance in memory differ from what was read.                           *)
(*                                                                         *)
(* A save is three statements here: the look at the old row, the write of  *)
(* all columns or of those named by update_fields, and the log's entry.    *)
(***************************************************************************)
EXTENDS Requests, Integers

CONSTANTS
  Record,    \* rows of registered models
  Field,     \* their audited columns
  MaxValue   \* bound: values of a column

VARIABLES
  records,   \* records[r]: the columns, or Gone
  replayed,  \* replayed[r]: the row as the log's entries tell it
  told,      \* told[r]: each entry's old values were what the entries before gave
  overlapped \* history: rows whose saves met, or whose entry was lost

auditVars == <<records, replayed, told, overlapped>>

Columns == [Field -> 0..MaxValue]
Gone == [f \in Field |-> -1]

\* row: what the instance has in memory, what the signal read, what is written.
AuditJobs ==
  [do : {"look", "write", "log"}, on : Record,
   row : [memory : Columns \cup {Gone}, seen : Columns \cup {Gone}, fields : SUBSET Field],
   old : BOOLEAN]

ASSUME AuditAssumption == MaxValue \in Nat /\ Idle \notin AuditJobs

AuditTypeOK ==
  /\ records \in [Record -> Columns \cup {Gone}]
  /\ replayed \in [Record -> [Field -> -1..MaxValue]]   \* an entry may be about some of them
  /\ told \in [Record -> BOOLEAN]
  /\ overlapped \subseteq Record
  /\ \A c \in Call : calls[c] # Idle => calls[c] \in AuditJobs

AuditInit ==
  /\ records = [r \in Record |-> Gone]
  /\ replayed = [r \in Record |-> Gone]
  /\ told = [r \in Record |-> TRUE]
  /\ overlapped = {}

\* A save or a deletion of row r met another one if the row was saved since it
\* was read, or if another's entry is still to come.
Met(c, r) ==
  \/ calls[c].old
  \/ \E d \in Call \ {c} : Does(d, "log") /\ calls[d].on = r

-----------------------------------------------------------------------------
(* A save *)

Load(c, r) ==
  /\ records[r] # Gone
  /\ Begin(c, Job("look", r, [memory |-> records[r], seen |-> records[r], fields |-> {}]))
  /\ UNCHANGED auditVars

\* Mutant: the instance is compared with itself as it was loaded.
SeenAsLoaded(job) == job.row.memory

Seen(job) == records[job.on]

\* Some fields are changed in memory, and those or all are to be saved. The old
\* row is read afresh: that the instance is old matters only to the columns
\* that are not to be saved.
PreSave(c) ==
  LET job == calls[c] IN
  /\ Does(c, "look")
  /\ \E memory \in Columns, fields \in SUBSET Field :
       /\ fields # {} /\ \A f \in Field \ fields : memory[f] = job.row.memory[f]
       /\ Goes(c, [do |-> "write", on |-> job.on, old |-> job.old /\ fields # Field,
                   row |-> [memory |-> memory, seen |-> Seen(job), fields |-> fields]])
  /\ UNCHANGED auditVars

Written(job) ==
  [f \in Field |-> IF f \in job.row.fields THEN job.row.memory[f] ELSE records[job.on][f]]

\* A row that is gone is created anew, unless fields are named.
Write(c) ==
  LET job == calls[c]  r == calls[c].on IN
  /\ Does(c, "write")
  /\ records[r] = Gone => job.row.fields = Field
  /\ records' = [records EXCEPT ![r] = Written(job)]
  /\ overlapped' = IF Met(c, r) THEN overlapped \cup {r} ELSE overlapped
  /\ Saved(c, r, IF job.row.seen = Gone /\ records[r] # Gone THEN Idle   \* neither created nor changed
                 ELSE [do |-> "log", on |-> r, old |-> job.old,
                       row |-> [memory |-> job.row.memory, fields |-> job.row.fields,
                                seen |-> IF records[r] = Gone THEN Gone ELSE job.row.seen]])
  /\ UNCHANGED <<replayed, told>>

\* A row without a key is not looked for.
Insert(c, r) ==
  /\ records[r] = Gone /\ replayed[r] = Gone
  /\ \A d \in Call : calls[d] # Idle => calls[d].on # r
  /\ \E row \in Columns :
       /\ records' = [records EXCEPT ![r] = row]
       /\ Begin(c, Job("log", r, [memory |-> row, seen |-> Gone, fields |-> Field]))
  /\ UNCHANGED <<replayed, told, overlapped>>

\* Its entry has the instance in memory as the old values.
Delete(c) ==
  LET job == calls[c]  r == calls[c].on IN
  /\ Does(c, "look") /\ records[r] # Gone
  /\ records' = [records EXCEPT ![r] = Gone]
  /\ overlapped' = IF Met(c, r) THEN overlapped \cup {r} ELSE overlapped
  /\ Saved(c, r, [do |-> "log", on |-> r, old |-> job.old,
                  row |-> [memory |-> Gone, seen |-> job.row.memory, fields |-> Field]])
  /\ UNCHANGED <<replayed, told>>

\* The fields whose value in memory differs from what the look saw.
Diff(job) == {f \in Field : job.row.memory[f] # job.row.seen[f]}

PostSave(c) ==
  LET job == calls[c]  r == calls[c].on IN
  /\ Does(c, "log")
  /\ replayed' = [replayed EXCEPT ![r] =
                    [f \in Field |-> IF f \in Diff(job) THEN job.row.memory[f] ELSE @[f]]]
  /\ told' = [told EXCEPT ![r] = @ /\ \A f \in Diff(job) : replayed[r][f] = job.row.seen[f]]
  /\ overlapped' = IF job.old THEN overlapped \cup {r} ELSE overlapped
  /\ End(c)
  /\ UNCHANGED records

\* The process is lost, or the save fails; outside a transaction what was
\* written stays written.
LoseSave(c) ==
  /\ calls[c] # Idle
  /\ overlapped' = IF Does(c, "log") THEN overlapped \cup {calls[c].on} ELSE overlapped
  /\ End(c)
  /\ UNCHANGED <<records, replayed, told>>

\* QuerySet.update sends no signal.
UpdateInPlace(r) ==
  /\ records[r] # Gone
  /\ \E row \in Columns : row # records[r] /\ records' = [records EXCEPT ![r] = row]
  /\ overlapped' = overlapped \cup {r}
  /\ SavedAtOnce(r)
  /\ UNCHANGED <<replayed, told>>

-----------------------------------------------------------------------------
AuditNext ==
  \/ \E c \in Call :
       \/ PreSave(c) \/ Write(c) \/ Delete(c) \/ PostSave(c) \/ LoseSave(c)
       \/ \E r \in Record : Load(c, r) \/ Insert(c, r)
  \/ \E r \in Record : UpdateInPlace(r)

-----------------------------------------------------------------------------
(* What holds *)

\* Replaying the log gives the row, and every entry's old values are what the
\* entries before it gave: an instance loaded long before it is saved does no
\* harm. It takes two saves of a row that meet between the look and the entry,
\* an old instance saved in part, an entry lost with its process, or an update
\* that goes round the signals.
LogReplays ==
  \A r \in Record \ overlapped :
    /\ told[r]
    /\ (\A c \in Call : ~(Does(c, "log") /\ calls[c].on = r)) => replayed[r] = records[r]

=============================================================================
