---------------------------- MODULE AuditLedger ----------------------------
(***************************************************************************)
(* audit/ledger.py on a file that can fail and a machine that can crash.   *)
(*                                                                         *)
(* A record reaches the file in pieces: the buffer may be written out in   *)
(* the middle of a line, and the writer may fail between two pieces.  The  *)
(* pieces are in the page cache until fsync() forces them to the disk.     *)
(* append() returns ("acknowledges") only after fsync(); everything it     *)
(* does to the file it does under the ledger lock.                         *)
(***************************************************************************)
EXTENDS Integers, Sequences, FiniteSets, SequencesExt

CONSTANTS
  Threads,      \* threads that append
  NoThread,     \* nobody holds the lock
  RecordIds,    \* the UUIDs of the records
  NoRecord,     \* a thread without a record
  Separated,    \* records whose text holds a line separator (U+2028, U+0085)
  MayFail,      \* whether write(), flush() and fsync() may raise OSError
  MaxCrashes    \* bound: how often the machine loses power

ASSUME AuditLedgerAssumption ==
  /\ NoThread \notin Threads /\ NoRecord \notin RecordIds
  /\ Separated \subseteq RecordIds
  /\ MayFail \in BOOLEAN /\ MaxCrashes \in Nat

VARIABLES
  file,       \* the pieces in the file, in order
  durable,    \* how many of them are on the disk
  holder,     \* owner of the ledger lock
  writing,    \* thread -> [step, record]
  used,       \* records built so far
  acked,      \* history: the acknowledged records, in that order
  crashes,
  damaged,    \* history: an append failed or the power was lost
  answer      \* what the last read_all() returned

vars == <<file, durable, holder, writing, used, acked, crashes, damaged, answer>>

---------------------------------------------------------------------------
(* The file *)

Parts == <<"head", "tail", "newline">>
Pieces == [record : RecordIds, part : {"head", "tail", "newline"}]

Line(r) == [i \in 1..3 |-> [record |-> r, part |-> Parts[i]]]

\* str.splitlines() also ends a line inside a record with a line separator.
EndsLine(f, i) ==
  \/ f[i].part = "newline"
  \/ f[i].part = "head" /\ f[i].record \in Separated

\* The text lines of the file: <<first piece, last piece>>.
TextLines(f) ==
  {l \in (DOMAIN f) \X (DOMAIN f) :
     /\ l[1] <= l[2]
     /\ l[1] = 1 \/ EndsLine(f, l[1] - 1)
     /\ l[2] = Len(f) \/ EndsLine(f, l[2])
     /\ \A i \in l[1]..(l[2] - 1) : ~EndsLine(f, i)}

\* A line parses when it is exactly one whole record; the last one may lack
\* its newline, and a line of nothing but a newline is skipped.
Parses(f, l) ==
  LET end == IF f[l[2]].part = "newline" THEN l[2] - 1 ELSE l[2]
      text == SubSeq(f, l[1], end)
  IN  \/ end < l[1]
      \/ text = SubSeq(Line(f[l[1]].record), 1, 2)

Holds(f, l, r) == \E i \in l[1]..l[2] : f[i] = [record |-> r, part |-> "head"]

Readable(f) == \A l \in TextLines(f) : Parses(f, l)

RecordsIn(f) == {r \in RecordIds : \E l \in TextLines(f) : Holds(f, l, r) /\ Parses(f, l)}

---------------------------------------------------------------------------
(* append() *)

Idle == [step |-> "idle", record |-> NoRecord]

\* Build and checksum the record; nothing is locked yet.
Prepare(t) ==
  /\ writing[t] = Idle
  /\ \E r \in RecordIds \ used :
       /\ used' = used \cup {r}
       /\ writing' = [writing EXCEPT ![t] = [step |-> "prepared", record |-> r]]
  /\ UNCHANGED <<file, durable, holder, acked, crashes, damaged, answer>>

\* Mutant: the file is opened without the lock.
OpenUnlocked(t) ==
  /\ writing[t].step = "prepared"
  /\ holder' = t
  /\ writing' = [writing EXCEPT ![t].step = "head"]
  /\ UNCHANGED <<file, durable, used, acked, crashes, damaged, answer>>

\* Take the lock and open the file for appending.
Open(t) ==
  /\ writing[t].step = "prepared" /\ holder = NoThread
  /\ holder' = t
  /\ writing' = [writing EXCEPT ![t].step = "head"]
  /\ UNCHANGED <<file, durable, used, acked, crashes, damaged, answer>>

\* The steps inside the lock.
Locked == {"head", "tail", "newline", "sync"}

NextStep == [head |-> "tail", tail |-> "newline", newline |-> "sync"]

\* write() and flush(): the next piece reaches the file.
Write(t) ==
  /\ writing[t].step \in DOMAIN NextStep
  /\ file' = Append(file, [record |-> writing[t].record, part |-> writing[t].step])
  /\ writing' = [writing EXCEPT ![t].step = NextStep[@]]
  /\ UNCHANGED <<durable, holder, used, acked, crashes, damaged, answer>>

Leave(t) ==
  /\ holder' = NoThread
  /\ writing' = [writing EXCEPT ![t] = Idle]

\* OSError: nothing more is written, and what was written stays.
Fail(t) ==
  /\ MayFail
  /\ writing[t].step \in Locked
  /\ damaged' = TRUE
  /\ Leave(t)
  /\ UNCHANGED <<file, durable, used, acked, crashes, answer>>

\* Mutant: fsync() is left out.
FlushedOnly == durable

SyncedTo == Len(file)

\* fsync(), close, release the lock and return the record.
Acknowledge(t) ==
  /\ writing[t].step = "sync"
  /\ durable' = SyncedTo
  /\ acked' = Append(acked, writing[t].record)
  /\ Leave(t)
  /\ UNCHANGED <<file, used, crashes, damaged, answer>>

---------------------------------------------------------------------------
(* read_all(), crash *)

NotRead == [outcome |-> "none", records |-> {}, wanted |-> {}]

\* Mutant: a line that does not parse is skipped.
ReadSkipping(f) == "records"

\* AuditIntegrityError at the first line that does not parse.
ReadOutcome(f) == IF Readable(f) THEN "records" ELSE "integrity error"

\* The text is read under the lock, and parsed after it.
ReadAll ==
  /\ holder = NoThread
  /\ answer' = [outcome |-> ReadOutcome(file), records |-> RecordsIn(file),
                wanted |-> ToSet(acked)]
  /\ UNCHANGED <<file, durable, holder, writing, used, acked, crashes, damaged>>

\* Power loss: what was not forced to the disk is lost from some piece on.
\* The new process only touches the file.
Crash ==
  /\ crashes < MaxCrashes
  /\ crashes' = crashes + 1
  /\ \E n \in durable..Len(file) : file' = SubSeq(file, 1, n) /\ durable' = n
  /\ holder' = NoThread
  /\ writing' = [t \in Threads |-> Idle]
  /\ damaged' = TRUE
  /\ answer' = NotRead
  /\ UNCHANGED <<used, acked>>

---------------------------------------------------------------------------
Init ==
  /\ file = <<>> /\ durable = 0
  /\ holder = NoThread
  /\ writing = [t \in Threads |-> Idle]
  /\ used = {} /\ acked = <<>>
  /\ crashes = 0 /\ damaged = FALSE
  /\ answer = NotRead

Next ==
  \/ \E t \in Threads : Prepare(t) \/ Open(t) \/ Write(t) \/ Fail(t) \/ Acknowledge(t)
  \/ ReadAll
  \/ Crash

Spec == Init /\ [][Next]_vars

---------------------------------------------------------------------------
(* Properties *)

\* The type invariant: one owner of the lock writes, and the disk is never
\* ahead of the file.
TypeOK ==
  /\ file \in Seq(Pieces)
  /\ durable \in 0..Len(file)
  /\ holder \in Threads \cup {NoThread}
  /\ writing \in [Threads -> [step : {"idle", "prepared"} \cup Locked,
                             record : RecordIds \cup {NoRecord}]]
  /\ \A t \in Threads : writing[t].step \in Locked => holder = t
  /\ used \subseteq RecordIds
  /\ acked \in Seq(RecordIds)
  /\ crashes \in 0..MaxCrashes /\ damaged \in BOOLEAN

\* Where the whole line of a record begins, if it is on the disk in one piece.
At(r) == {i \in 1..(durable - 2) : SubSeq(file, i, i + 2) = Line(r)}

\* What append() returned is on the disk, uninterrupted, whatever fails, loses
\* power or appends later; and the file has the order of the acknowledgements.
AcknowledgedIsDurable ==
  /\ \A n \in DOMAIN acked : At(acked[n]) # {}
  /\ \A m, n \in DOMAIN acked :
       m < n => \A i \in At(acked[m]), j \in At(acked[n]) : i < j

\* A read that succeeds has missed nothing: it returns every record that was
\* acknowledged when it took the lock, even if the file has been damaged.
ReadsAreComplete == answer.outcome = "records" => answer.wanted \subseteq answer.records

\* read_all() raises AuditIntegrityError only after a failed append or a lost
\* power supply, never because it met another thread in the middle of a line.
NoFalseAlarm == answer.outcome = "integrity error" => damaged

\* "Validate, checksum, and append exactly one JSON record line": a record that
\* append() returned is a line of its own that read_all() can parse.
AppendsOneLine ==
  \A n \in DOMAIN acked :
    \E l \in TextLines(file) : Holds(file, l, acked[n]) /\ Parses(file, l)
============================================================================
