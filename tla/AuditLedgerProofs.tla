-------------------------- MODULE AuditLedgerProofs --------------------------
(***************************************************************************)
(* What append() acknowledged is on the disk, whole and in order, for any  *)
(* number of threads, records, failing writes and losses of power.         *)
(*                                                                         *)
(* The property is not inductive: that a line is uninterrupted when        *)
(* append() returns depends on what its writer has put at the end of the   *)
(* file so far, and that its place in the order is kept depends on every   *)
(* record having one beginning.                                            *)
(***************************************************************************)
EXTENDS AuditLedger, TLAPS

Piece(r, p) == [record |-> r, part |-> p]

\* Every writer has a record of its own, of those that have been built.
WritersOwnRecords ==
  /\ \A t \in Threads : writing[t].step # "idle" => writing[t].record \in used
  /\ \A t, u \in Threads :
       t # u /\ writing[t].step # "idle" /\ writing[u].step # "idle"
         => writing[t].record # writing[u].record

\* Nothing of a record is in the file before its writer begins with it.
NotYetWritten ==
  /\ \A i \in DOMAIN file : file[i].record \in used
  /\ \A t \in Threads, i \in DOMAIN file :
       writing[t].step \in {"prepared", "head"} => file[i].record # writing[t].record

\* The file ends in what the owner of the lock has written of its line.
LineGrows ==
  \A t \in Threads :
    /\ writing[t].step = "tail" =>
         Len(file) >= 1 /\ file[Len(file)] = Piece(writing[t].record, "head")
    /\ writing[t].step = "newline" =>
         /\ Len(file) >= 2
         /\ file[Len(file) - 1] = Piece(writing[t].record, "head")
         /\ file[Len(file)] = Piece(writing[t].record, "tail")
    /\ writing[t].step = "sync" =>
         /\ Len(file) >= 3
         /\ file[Len(file) - 2] = Piece(writing[t].record, "head")
         /\ file[Len(file) - 1] = Piece(writing[t].record, "tail")
         /\ file[Len(file)] = Piece(writing[t].record, "newline")

\* A record begins once.
OneHead ==
  \A i, j \in DOMAIN file :
    /\ file[i].part = "head" /\ file[j].part = "head"
    /\ file[i].record = file[j].record
    => i = j

\* Nobody writes what has been acknowledged.
AckedIsOver ==
  \A n \in DOMAIN acked :
    /\ acked[n] \in used
    /\ \A t \in Threads : writing[t].step # "idle" => writing[t].record # acked[n]

WholeAt(f, i, r) ==
  /\ f[i] = Piece(r, "head") /\ f[i + 1] = Piece(r, "tail")
  /\ f[i + 2] = Piece(r, "newline")

\* Acknowledged lines are whole, on the disk and in order.
AckedIsWhole ==
  /\ \A n \in DOMAIN acked : \E i \in 1..(durable - 2) : WholeAt(file, i, acked[n])
  /\ \A m, n \in DOMAIN acked, i, j \in DOMAIN file :
       m < n /\ file[i] = Piece(acked[m], "head") /\ file[j] = Piece(acked[n], "head")
         => i < j

LedgerInv ==
  /\ TypeOK /\ WritersOwnRecords /\ NotYetWritten /\ LineGrows /\ OneHead
  /\ AckedIsOver /\ AckedIsWhole

---------------------------------------------------------------------------
(* Sequences *)

LEMMA Steps ==
  /\ DOMAIN NextStep = {"head", "tail", "newline"}
  /\ NextStep["head"] = "tail" /\ NextStep["tail"] = "newline"
  /\ NextStep["newline"] = "sync"
  BY DEF NextStep

\* A whole line, piece by piece.
LEMMA LineAt ==
  ASSUME NEW f \in Seq(Pieces), NEW i \in 1..(Len(f) - 2), NEW r \in RecordIds
  PROVE  SubSeq(f, i, i + 2) = Line(r) <=> WholeAt(f, i, r)
  <1> DEFINE s == SubSeq(f, i, i + 2)
  <1>1. /\ s \in Seq(Pieces) /\ Len(s) = 3
        /\ s[1] = f[i] /\ s[2] = f[i + 1] /\ s[3] = f[i + 2]
    OBVIOUS
  <1>2. DOMAIN s = 1..3 /\ s = [k \in 1..3 |-> s[k]]
    BY <1>1
  <1>3. /\ Line(r) = [k \in 1..3 |-> Piece(r, Parts[k])]
        /\ Parts[1] = "head" /\ Parts[2] = "tail" /\ Parts[3] = "newline"
    BY DEF Line, Parts, Piece
  <1>4. s = Line(r) <=> \A k \in 1..3 : s[k] = Piece(r, Parts[k])
    BY <1>2, <1>3
  <1>5. QED
    BY <1>1, <1>3, <1>4 DEF WholeAt

\* The first two of three.
LEMMA FirstTwo ==
  ASSUME NEW S, NEW s \in Seq(S), Len(s) = 3
  PROVE  /\ SubSeq(s, 1, 2) \in Seq(S) /\ Len(SubSeq(s, 1, 2)) = 2
         /\ SubSeq(s, 1, 2)[1] = s[1] /\ SubSeq(s, 1, 2)[2] = s[2]
  OBVIOUS

\* A line without its newline.
LEMMA ShortLine ==
  ASSUME NEW r \in RecordIds \cup {NoRecord}
  PROVE  /\ SubSeq(Line(r), 1, 2) \in Seq([record : {r}, part : {"head", "tail", "newline"}])
         /\ Len(SubSeq(Line(r), 1, 2)) = 2
         /\ SubSeq(Line(r), 1, 2)[1] = Piece(r, "head")
         /\ SubSeq(Line(r), 1, 2)[2] = Piece(r, "tail")
  <1>1. /\ Line(r) \in Seq([record : {r}, part : {"head", "tail", "newline"}])
        /\ Len(Line(r)) = 3
        /\ Line(r)[1] = Piece(r, "head") /\ Line(r)[2] = Piece(r, "tail")
    BY DEF Line, Parts, Piece
  <1>2. QED
    BY <1>1, FirstTwo

---------------------------------------------------------------------------
(* The operations *)

\* A thread that moves on to another step of its own.
LEMMA WritingTyped ==
  ASSUME TypeOK, NEW t \in Threads, NEW w,
         w \in [step : {"idle", "prepared"} \cup Locked, record : RecordIds \cup {NoRecord}],
         writing' = [writing EXCEPT ![t] = w]
  PROVE  /\ writing' \in [Threads -> [step : {"idle", "prepared"} \cup Locked,
                                      record : RecordIds \cup {NoRecord}]]
         /\ writing'[t] = w
         /\ \A u \in Threads : u # t => writing'[u] = writing[u]
  BY DEF TypeOK

\* A step of a thread replaces one field of its activation.
LEMMA StepSet ==
  ASSUME TypeOK, NEW t \in Threads, NEW w
  PROVE  [writing EXCEPT ![t].step = w]
           = [writing EXCEPT ![t] = [step |-> w, record |-> writing[t].record]]
  <1>1. writing[t] \in [step : {"idle", "prepared"} \cup Locked,
                        record : RecordIds \cup {NoRecord}]
    BY DEF TypeOK
  <1>2. [writing[t] EXCEPT !.step = w] = [step |-> w, record |-> writing[t].record]
    BY <1>1
  <1>3. QED
    BY <1>2

LEMMA InitInv == Init => LedgerInv
  <1> SUFFICES ASSUME Init PROVE LedgerInv
    OBVIOUS
  <1>1. TypeOK
    <2>1. Idle \in [step : {"idle", "prepared"} \cup Locked, record : RecordIds \cup {NoRecord}]
      BY DEF Idle
    <2>2. /\ file \in Seq(Pieces) /\ Len(file) = 0 /\ acked \in Seq(RecordIds)
          /\ 0 \in 0..MaxCrashes /\ 0 \in 0..Len(file)
      BY AuditLedgerAssumption DEF Init
    <2>3. \A t \in Threads : writing[t].step = "idle" /\ writing[t].step \notin Locked
      BY DEF Init, Idle, Locked
    <2>4. QED
      BY <2>1, <2>2, <2>3 DEF Init, TypeOK
  <1>2. WritersOwnRecords /\ LineGrows
    BY DEF Init, WritersOwnRecords, LineGrows, Idle
  <1>3. NotYetWritten /\ OneHead
    BY DEF Init, NotYetWritten, OneHead
  <1>4. AckedIsOver /\ AckedIsWhole
    BY DEF Init, AckedIsOver, AckedIsWhole
  <1>5. QED
    BY <1>1, <1>2, <1>3, <1>4 DEF LedgerInv

LEMMA PrepareKeeps ==
  ASSUME LedgerInv, NEW t \in Threads, Prepare(t)
  PROVE  LedgerInv'
  <1>1. PICK r \in RecordIds \ used :
          /\ used' = used \cup {r}
          /\ writing' = [writing EXCEPT ![t] = [step |-> "prepared", record |-> r]]
    BY DEF Prepare
  <1>2. UNCHANGED <<file, durable, holder, acked, crashes, damaged>>
    BY DEF Prepare
  <1>3. TypeOK
    BY DEF LedgerInv
  <1>4. /\ writing' \in [Threads -> [step : {"idle", "prepared"} \cup Locked,
                                    record : RecordIds \cup {NoRecord}]]
        /\ writing'[t] = [step |-> "prepared", record |-> r]
        /\ \A u \in Threads : u # t => writing'[u] = writing[u]
    BY <1>1, <1>3, WritingTyped
  <1>5. TypeOK'
    BY <1>1, <1>2, <1>3, <1>4 DEF TypeOK, Locked
  <1>6. WritersOwnRecords'
    BY <1>1, <1>4 DEF LedgerInv, WritersOwnRecords
  <1>7. NotYetWritten'
    BY <1>1, <1>2, <1>4 DEF LedgerInv, NotYetWritten
  <1>8. LineGrows'
    BY <1>2, <1>4 DEF LedgerInv, LineGrows
  <1>9. OneHead' /\ AckedIsWhole'
    BY <1>2 DEF LedgerInv, OneHead, AckedIsWhole, WholeAt
  <1>10. AckedIsOver'
    BY <1>1, <1>2, <1>4 DEF LedgerInv, AckedIsOver
  <1>11. QED
    BY <1>5, <1>6, <1>7, <1>8, <1>9, <1>10 DEF LedgerInv

LEMMA OpenKeeps ==
  ASSUME LedgerInv, NEW t \in Threads, Open(t)
  PROVE  LedgerInv'
  <1>1. /\ writing[t].step = "prepared" /\ holder = NoThread /\ holder' = t
        /\ UNCHANGED <<file, durable, used, acked, crashes, damaged>>
        /\ TypeOK
    BY DEF Open, LedgerInv
  <1>2. writing' = [writing EXCEPT ![t] = [step |-> "head", record |-> writing[t].record]]
    BY <1>1, StepSet DEF Open
  <1>3. /\ writing' \in [Threads -> [step : {"idle", "prepared"} \cup Locked,
                                    record : RecordIds \cup {NoRecord}]]
        /\ writing'[t] = [step |-> "head", record |-> writing[t].record]
        /\ \A u \in Threads : u # t => writing'[u] = writing[u]
    <2>1. [step |-> "head", record |-> writing[t].record]
            \in [step : {"idle", "prepared"} \cup Locked, record : RecordIds \cup {NoRecord}]
      BY <1>1 DEF TypeOK, Locked
    <2>2. QED
      BY <1>1, <1>2, <2>1, WritingTyped
  <1>4. TypeOK'
    BY <1>1, <1>3, AuditLedgerAssumption DEF TypeOK
  <1>5. WritersOwnRecords'
    BY <1>1, <1>3 DEF LedgerInv, WritersOwnRecords
  <1>6. NotYetWritten'
    BY <1>1, <1>3 DEF LedgerInv, NotYetWritten
  <1>7. LineGrows'
    BY <1>1, <1>3 DEF LedgerInv, LineGrows
  <1>8. OneHead' /\ AckedIsWhole'
    BY <1>1 DEF LedgerInv, OneHead, AckedIsWhole, WholeAt
  <1>9. AckedIsOver'
    BY <1>1, <1>3 DEF LedgerInv, AckedIsOver
  <1>10. QED
    BY <1>4, <1>5, <1>6, <1>7, <1>8, <1>9 DEF LedgerInv

LEMMA WriteKeeps ==
  ASSUME LedgerInv, NEW t \in Threads, Write(t)
  PROVE  LedgerInv'
  <1> DEFINE r == writing[t].record
             p == writing[t].step
  <1>1. /\ TypeOK /\ p \in {"head", "tail", "newline"} /\ p \in Locked
        /\ UNCHANGED <<durable, holder, used, acked, crashes, damaged>>
        /\ file' = Append(file, Piece(r, p))
    BY Steps DEF Write, LedgerInv, Piece, Locked
  <1>2. holder = t /\ r \in used /\ r \in RecordIds
    BY <1>1 DEF LedgerInv, TypeOK, WritersOwnRecords
  <1>3. NextStep[p] \in Locked \ {"head"}
        /\ writing' = [writing EXCEPT ![t] = [step |-> NextStep[p], record |-> r]]
    BY <1>1, Steps, StepSet DEF Write, Locked
  <1>4. /\ writing' \in [Threads -> [step : {"idle", "prepared"} \cup Locked,
                                    record : RecordIds \cup {NoRecord}]]
        /\ writing'[t] = [step |-> NextStep[p], record |-> r]
        /\ \A u \in Threads : u # t => writing'[u] = writing[u]
    <2>1. [step |-> NextStep[p], record |-> r]
            \in [step : {"idle", "prepared"} \cup Locked, record : RecordIds \cup {NoRecord}]
      BY <1>2, <1>3
    <2>2. QED
      BY <1>1, <1>3, <2>1, WritingTyped
  <1>5. /\ Piece(r, p) \in Pieces /\ file \in Seq(Pieces)
        /\ Piece(r, p).record = r /\ Piece(r, p).part = p
    BY <1>1, <1>2 DEF Piece, Pieces, TypeOK
  <1>6. /\ file' \in Seq(Pieces) /\ Len(file') = Len(file) + 1
        /\ Len(file) \in Nat /\ DOMAIN file = 1..Len(file)
        /\ DOMAIN file' = 1..(Len(file) + 1)
        /\ \A i \in DOMAIN file : file'[i] = file[i]
        /\ file'[Len(file) + 1] = Piece(r, p)
    BY <1>1, <1>5
  <1> HIDE DEF r, p
  <1>7. \A u \in Threads : u # t => writing'[u].step \in {"idle", "prepared"}
    BY <1>1, <1>2, <1>4 DEF TypeOK
  <1>8. TypeOK'
    <2>1. durable' \in 0..Len(file')
      BY <1>1, <1>6 DEF TypeOK
    <2>2. \A u \in Threads : writing'[u].step \in Locked => holder' = u
      BY <1>1, <1>2, <1>4 DEF TypeOK
    <2>3. QED
      BY <1>1, <1>4, <1>6, <2>1, <2>2 DEF TypeOK
  <1>9. WritersOwnRecords'
    BY <1>1, <1>2, <1>4 DEF LedgerInv, WritersOwnRecords, r, p, Locked
  <1>10. NotYetWritten'
    <2>1. \A i \in DOMAIN file' : file'[i].record \in used'
      BY <1>1, <1>2, <1>5, <1>6 DEF LedgerInv, NotYetWritten
    <2>2. ASSUME NEW u \in Threads, NEW i \in DOMAIN file',
                 writing'[u].step \in {"prepared", "head"}
          PROVE  file'[i].record # writing'[u].record
      <3>1. u # t
        BY <1>3, <1>4, <2>2 DEF Locked
      <3>2. writing'[u] = writing[u] /\ writing[u].record # r
        BY <1>1, <1>4, <2>2, <3>1 DEF LedgerInv, WritersOwnRecords, r, p
      <3>3. QED
        BY <1>5, <1>6, <2>2, <3>2 DEF LedgerInv, NotYetWritten
    <2>3. QED
      BY <2>1, <2>2 DEF NotYetWritten
  <1>11. LineGrows'
    <2>1. /\ p = "tail" => Len(file) >= 1 /\ file[Len(file)] = Piece(r, "head")
          /\ p = "newline" => /\ Len(file) >= 2 /\ file[Len(file) - 1] = Piece(r, "head")
                              /\ file[Len(file)] = Piece(r, "tail")
      BY DEF LedgerInv, LineGrows, r, p
    <2>2. CASE p = "head"
      BY <1>4, <1>6, <1>7, <2>2, Steps DEF LineGrows
    <2>3. CASE p = "tail"
      <3>1. /\ Len(file) \in DOMAIN file /\ file'[Len(file)] = Piece(r, "head")
            /\ Len(file') - 1 = Len(file)
        BY <1>6, <2>1, <2>3
      <3>2. QED
        BY <1>4, <1>6, <1>7, <2>1, <2>3, <3>1, Steps DEF LineGrows
    <2>4. CASE p = "newline"
      <3>1. /\ Len(file) \in DOMAIN file /\ Len(file) - 1 \in DOMAIN file
            /\ file'[Len(file) - 1] = Piece(r, "head") /\ file'[Len(file)] = Piece(r, "tail")
            /\ Len(file') - 2 = Len(file) - 1 /\ Len(file') - 1 = Len(file)
        BY <1>6, <2>1, <2>4
      <3>2. QED
        BY <1>4, <1>6, <1>7, <2>1, <2>4, <3>1, Steps DEF LineGrows
    <2>5. QED
      BY <1>1, <2>2, <2>3, <2>4 DEF p
  <1>12. OneHead'
    <2>1. ASSUME NEW i \in DOMAIN file, p = "head"
          PROVE  file[i].record # r
      BY <2>1 DEF LedgerInv, NotYetWritten, r, p
    <2>2. ASSUME NEW i \in DOMAIN file', NEW j \in DOMAIN file',
                 file'[i].part = "head", file'[j].part = "head",
                 file'[i].record = file'[j].record
          PROVE  i = j
      BY <1>5, <1>6, <2>1, <2>2 DEF LedgerInv, OneHead
    <2>3. QED
      BY <2>2 DEF OneHead
  <1>13. AckedIsOver'
    BY <1>1, <1>4 DEF LedgerInv, AckedIsOver, r, p, Locked
  <1>14. AckedIsWhole'
    <2>1. durable \in 0..Len(file) /\ acked \in Seq(RecordIds)
      BY <1>1 DEF TypeOK
    <2>2. ASSUME NEW n \in DOMAIN acked
          PROVE  r # acked[n] /\ \E i \in 1..(durable - 2) : WholeAt(file', i, acked[n])
      <3>1. r # acked[n]
        BY <1>1 DEF LedgerInv, AckedIsOver, r, p, Locked
      <3>2. PICK i \in 1..(durable - 2) : WholeAt(file, i, acked[n])
        BY DEF LedgerInv, AckedIsWhole
      <3>3. i \in DOMAIN file /\ i + 1 \in DOMAIN file /\ i + 2 \in DOMAIN file
        BY <1>6, <2>1
      <3>4. WholeAt(file', i, acked[n])
        BY <1>6, <3>2, <3>3 DEF WholeAt
      <3>5. QED
        BY <3>1, <3>4
    <2>3. ASSUME NEW m \in DOMAIN acked, NEW n \in DOMAIN acked,
                 NEW i \in DOMAIN file', NEW j \in DOMAIN file', m < n,
                 file'[i] = Piece(acked[m], "head"), file'[j] = Piece(acked[n], "head")
          PROVE  i < j
      <3>1. i \in DOMAIN file /\ j \in DOMAIN file
        BY <1>5, <1>6, <2>2, <2>3 DEF Piece
      <3>2. QED
        BY <1>6, <2>3, <3>1 DEF LedgerInv, AckedIsWhole
    <2>4. QED
      BY <1>1, <2>2, <2>3 DEF AckedIsWhole
  <1>15. QED
    BY <1>8, <1>9, <1>10, <1>11, <1>12, <1>13, <1>14 DEF LedgerInv

\* A thread that leaves append() forgets its record.
LEMMA Leaving ==
  ASSUME TypeOK, NEW t \in Threads, Leave(t), writing[t].step \in Locked
  PROVE  /\ writing' \in [Threads -> [step : {"idle", "prepared"} \cup Locked,
                                      record : RecordIds \cup {NoRecord}]]
         /\ writing'[t].step = "idle"
         /\ \A u \in Threads : u # t => writing'[u] = writing[u]
         /\ \A u \in Threads : writing'[u].step \in {"idle", "prepared"}
         /\ \A u \in Threads : writing'[u].step # "idle" => u # t
         /\ \A u \in Threads : writing'[u].step \notin Locked
         /\ holder' = NoThread
  <1>1. Idle \in [step : {"idle", "prepared"} \cup Locked, record : RecordIds \cup {NoRecord}]
        /\ Idle.step = "idle"
    BY DEF Idle
  <1>2. /\ writing' \in [Threads -> [step : {"idle", "prepared"} \cup Locked,
                                    record : RecordIds \cup {NoRecord}]]
        /\ writing'[t] = Idle
        /\ \A u \in Threads : u # t => writing'[u] = writing[u]
    BY <1>1, WritingTyped DEF Leave
  <1>3. \A u \in Threads : u # t => writing[u].step \in {"idle", "prepared"}
    BY DEF TypeOK
  <1>4. \A u \in Threads : writing'[u].step \in {"idle", "prepared"}
    BY <1>1, <1>2, <1>3
  <1>5. QED
    BY <1>1, <1>2, <1>4 DEF Leave, Locked

LEMMA FailKeeps ==
  ASSUME LedgerInv, NEW t \in Threads, Fail(t)
  PROVE  LedgerInv'
  <1>1. /\ TypeOK /\ Leave(t) /\ writing[t].step \in Locked /\ damaged' = TRUE
        /\ UNCHANGED <<file, durable, used, acked, crashes>>
    BY DEF Fail, LedgerInv
  <1>2. /\ writing' \in [Threads -> [step : {"idle", "prepared"} \cup Locked,
                                    record : RecordIds \cup {NoRecord}]]
        /\ \A u \in Threads : u # t => writing'[u] = writing[u]
        /\ \A u \in Threads : writing'[u].step \in {"idle", "prepared"}
        /\ \A u \in Threads : writing'[u].step # "idle" => u # t
        /\ \A u \in Threads : writing'[u].step \notin Locked
        /\ holder' = NoThread
    BY <1>1, Leaving
  <1>3. TypeOK'
    BY <1>1, <1>2 DEF TypeOK
  <1>4. WritersOwnRecords' /\ AckedIsOver'
    BY <1>1, <1>2 DEF LedgerInv, WritersOwnRecords, AckedIsOver
  <1>5. NotYetWritten'
    <2>1. \A u \in Threads : writing'[u].step \in {"prepared", "head"} =>
                              writing'[u].step # "idle"
      OBVIOUS
    <2>2. QED
      BY <1>1, <1>2, <2>1 DEF LedgerInv, NotYetWritten
  <1>6. LineGrows'
    BY <1>2 DEF LineGrows, Locked
  <1>7. OneHead' /\ AckedIsWhole'
    BY <1>1 DEF LedgerInv, OneHead, AckedIsWhole, WholeAt
  <1>8. QED
    BY <1>3, <1>4, <1>5, <1>6, <1>7 DEF LedgerInv

LEMMA AcknowledgeKeeps ==
  ASSUME LedgerInv, NEW t \in Threads, Acknowledge(t)
  PROVE  LedgerInv'
  <1> DEFINE r == writing[t].record
             at == Len(file) - 2
  <1>1. /\ TypeOK /\ Leave(t) /\ writing[t].step = "sync" /\ writing[t].step \in Locked
        /\ durable' = Len(file) /\ acked' = Append(acked, r)
        /\ UNCHANGED <<file, used, crashes, damaged>>
    BY DEF Acknowledge, SyncedTo, LedgerInv, Locked
  <1>2. /\ writing' \in [Threads -> [step : {"idle", "prepared"} \cup Locked,
                                    record : RecordIds \cup {NoRecord}]]
        /\ \A u \in Threads : u # t => writing'[u] = writing[u]
        /\ \A u \in Threads : writing'[u].step \in {"idle", "prepared"}
        /\ \A u \in Threads : writing'[u].step # "idle" => u # t
        /\ \A u \in Threads : writing'[u].step \notin Locked
        /\ holder' = NoThread
    BY <1>1, Leaving
  <1>3. r \in used /\ r \in RecordIds
    BY <1>1 DEF LedgerInv, WritersOwnRecords, TypeOK
  <1>4. /\ Len(file) \in Nat /\ Len(file) >= 3 /\ WholeAt(file, at, r)
        /\ at \in 1..(durable' - 2) /\ at \in DOMAIN file
        /\ DOMAIN file = 1..Len(file)
    <2>1. /\ Len(file) >= 3 /\ file[Len(file) - 2] = Piece(r, "head")
          /\ file[Len(file) - 1] = Piece(r, "tail") /\ file[Len(file)] = Piece(r, "newline")
      BY <1>1 DEF LedgerInv, LineGrows
    <2>2. Len(file) \in Nat /\ DOMAIN file = 1..Len(file)
      BY <1>1 DEF TypeOK
    <2>3. at + 1 = Len(file) - 1 /\ at + 2 = Len(file)
      BY <2>2
    <2>4. QED
      BY <1>1, <2>1, <2>2, <2>3 DEF WholeAt
  <1>5. /\ acked \in Seq(RecordIds) /\ acked' \in Seq(RecordIds)
        /\ Len(acked) \in Nat
        /\ DOMAIN acked = 1..Len(acked) /\ DOMAIN acked' = 1..(Len(acked) + 1)
        /\ acked'[Len(acked) + 1] = r
        /\ \A n \in DOMAIN acked : acked'[n] = acked[n]
    BY <1>1, <1>3 DEF TypeOK
  <1>6. \A n \in DOMAIN acked : acked[n] # r
    BY <1>1 DEF LedgerInv, AckedIsOver
  <1> HIDE DEF r
  <1>7. TypeOK'
    BY <1>1, <1>2, <1>4, <1>5 DEF TypeOK
  <1>8. WritersOwnRecords'
    <2>1. \A u \in Threads : writing'[u].step # "idle" =>
            u # t /\ writing'[u] = writing[u] /\ writing[u].step # "idle"
      BY <1>2
    <2>2. QED
      BY <1>1, <2>1 DEF LedgerInv, WritersOwnRecords
  <1>9. AckedIsOver'
    <2>1. \A u \in Threads : writing'[u].step # "idle" => writing'[u].record # r
      BY <1>1, <1>2 DEF LedgerInv, WritersOwnRecords, r
    <2>2. QED
      BY <1>1, <1>2, <1>3, <1>5, <2>1 DEF LedgerInv, AckedIsOver
  <1>10. NotYetWritten'
    <2>1. \A u \in Threads : writing'[u].step \in {"prepared", "head"} =>
                              writing'[u].step # "idle"
      OBVIOUS
    <2>2. QED
      BY <1>1, <1>2, <2>1 DEF LedgerInv, NotYetWritten
  <1>11. LineGrows'
    BY <1>2 DEF LineGrows, Locked
  <1>12. OneHead'
    BY <1>1 DEF LedgerInv, OneHead
  <1>13. AckedIsWhole'
    <2>1. ASSUME NEW n \in DOMAIN acked'
          PROVE  \E i \in 1..(durable' - 2) : WholeAt(file', i, acked'[n])
      <3>1. CASE n \in DOMAIN acked
        <4>1. PICK i \in 1..(durable - 2) : WholeAt(file, i, acked[n])
          BY <3>1 DEF LedgerInv, AckedIsWhole
        <4>2. i \in 1..(durable' - 2)
          BY <1>1, <1>4 DEF TypeOK
        <4>3. file' = file /\ acked'[n] = acked[n]
          BY <1>1, <1>5, <3>1
        <4>4. QED
          BY <4>1, <4>2, <4>3
      <3>2. CASE n = Len(acked) + 1
        BY <1>1, <1>4, <1>5, <3>2
      <3>3. QED
        BY <1>5, <3>1, <3>2
    <2>2. ASSUME NEW m \in DOMAIN acked', NEW n \in DOMAIN acked',
                 NEW i \in DOMAIN file, NEW j \in DOMAIN file, m < n,
                 file[i] = Piece(acked'[m], "head"), file[j] = Piece(acked'[n], "head")
          PROVE  i < j
      <3>1. m \in DOMAIN acked /\ acked'[m] = acked[m]
        BY <1>5, <2>2
      <3>2. CASE n \in DOMAIN acked
        BY <1>5, <2>2, <3>1, <3>2 DEF LedgerInv, AckedIsWhole
      <3>3. CASE n = Len(acked) + 1
        <4>1. acked'[n] = r
          BY <1>5, <3>3
        <4>2. file[j] = Piece(r, "head") /\ file[at] = Piece(r, "head")
          BY <1>4, <2>2, <4>1 DEF WholeAt
        <4>3. j = at
          BY <1>4, <4>2 DEF LedgerInv, OneHead, Piece
        <4>4. file[i] # file[at] /\ file[i] # file[at + 1] /\ file[i] # file[at + 2]
          BY <1>4, <1>6, <2>2, <3>1 DEF WholeAt, Piece
        <4>5. QED
          BY <1>4, <4>3, <4>4
      <3>4. QED
        BY <1>5, <3>2, <3>3
    <2>3. QED
      BY <1>1, <2>1, <2>2 DEF AckedIsWhole
  <1>14. QED
    BY <1>7, <1>8, <1>9, <1>10, <1>11, <1>12, <1>13 DEF LedgerInv

LEMMA ReadAllKeeps ==
  ASSUME LedgerInv, ReadAll \/ UNCHANGED vars
  PROVE  LedgerInv'
  <1>1. UNCHANGED <<file, durable, holder, writing, used, acked, crashes, damaged>>
    BY DEF ReadAll, vars
  <1>2. QED
    BY <1>1 DEF LedgerInv, TypeOK, WritersOwnRecords, NotYetWritten, LineGrows, OneHead,
                AckedIsOver, AckedIsWhole, WholeAt

LEMMA CrashKeeps ==
  ASSUME LedgerInv, Crash
  PROVE  LedgerInv'
  <1>1. /\ TypeOK /\ crashes' = crashes + 1 /\ crashes < MaxCrashes /\ damaged' = TRUE
        /\ holder' = NoThread /\ writing' = [t \in Threads |-> Idle]
        /\ UNCHANGED <<used, acked>>
    BY DEF Crash, LedgerInv
  <1>2. PICK n \in durable..Len(file) : file' = SubSeq(file, 1, n) /\ durable' = n
    BY DEF Crash
  <1>3. /\ file \in Seq(Pieces) /\ durable \in Nat /\ Len(file) \in Nat
        /\ n \in Nat /\ durable <= n /\ n <= Len(file)
        /\ DOMAIN file = 1..Len(file)
    BY <1>1 DEF TypeOK
  <1>4. /\ file' \in Seq(Pieces) /\ Len(file') = n /\ DOMAIN file' = 1..n
        /\ \A i \in 1..n : file'[i] = file[i] /\ i \in DOMAIN file
    BY <1>2, <1>3
  <1>5. /\ \A t \in Threads : writing'[t] = Idle /\ writing'[t].step = "idle"
        /\ Idle \in [step : {"idle", "prepared"} \cup Locked, record : RecordIds \cup {NoRecord}]
    BY <1>1 DEF Idle
  <1>6. TypeOK'
    <2>1. \A t \in Threads : writing'[t].step \notin Locked
      BY <1>5 DEF Locked
    <2>2. crashes' \in 0..MaxCrashes
      BY <1>1, AuditLedgerAssumption DEF TypeOK
    <2>3. QED
      BY <1>1, <1>2, <1>3, <1>4, <1>5, <2>1, <2>2 DEF TypeOK
  <1>7. WritersOwnRecords' /\ LineGrows'
    BY <1>5 DEF WritersOwnRecords, LineGrows
  <1>8. NotYetWritten'
    BY <1>1, <1>4, <1>5 DEF LedgerInv, NotYetWritten
  <1>9. OneHead'
    BY <1>4 DEF LedgerInv, OneHead
  <1>10. AckedIsOver'
    BY <1>1, <1>5 DEF LedgerInv, AckedIsOver
  <1>11. AckedIsWhole'
    <2>1. ASSUME NEW k \in DOMAIN acked
          PROVE  \E i \in 1..(durable' - 2) : WholeAt(file', i, acked[k])
      <3>1. PICK i \in 1..(durable - 2) : WholeAt(file, i, acked[k])
        BY DEF LedgerInv, AckedIsWhole
      <3>2. /\ i \in 1..(durable' - 2) /\ i \in 1..n /\ i + 1 \in 1..n /\ i + 2 \in 1..n
        BY <1>2, <1>3
      <3>3. WholeAt(file', i, acked[k])
        BY <1>4, <3>1, <3>2 DEF WholeAt
      <3>4. QED
        BY <3>2, <3>3
    <2>2. ASSUME NEW m \in DOMAIN acked, NEW k \in DOMAIN acked,
                 NEW i \in DOMAIN file', NEW j \in DOMAIN file', m < k,
                 file'[i] = Piece(acked[m], "head"), file'[j] = Piece(acked[k], "head")
          PROVE  i < j
      BY <1>4, <2>2 DEF LedgerInv, AckedIsWhole
    <2>3. QED
      BY <1>1, <2>1, <2>2 DEF AckedIsWhole
  <1>12. QED
    BY <1>6, <1>7, <1>8, <1>9, <1>10, <1>11 DEF LedgerInv

LEMMA StepKeeps ==
  ASSUME LedgerInv, [Next]_vars
  PROVE  LedgerInv'
  <1>1. ASSUME NEW t \in Threads, Prepare(t) \/ Open(t) \/ Write(t) \/ Fail(t) \/ Acknowledge(t)
        PROVE  LedgerInv'
    BY <1>1, PrepareKeeps, OpenKeeps, WriteKeeps, FailKeeps, AcknowledgeKeeps
  <1>2. CASE ReadAll \/ UNCHANGED vars
    BY <1>2, ReadAllKeeps
  <1>3. CASE Crash
    BY <1>3, CrashKeeps
  <1>4. QED
    BY <1>1, <1>2, <1>3 DEF Next

---------------------------------------------------------------------------
(* The theorems *)

\* The inductive invariant of append() and crash, for any threads and records.
THEOREM LedgerInvariant == Spec => []LedgerInv
  BY InitInv, StepKeeps, PTL DEF Spec

\* The ledger stays typed; in particular one thread at most is inside the lock
\* and the disk is never ahead of the file.
THEOREM TypeCorrect == Spec => []TypeOK
  <1>1. LedgerInv => TypeOK
    BY DEF LedgerInv
  <1>2. QED
    BY <1>1, LedgerInvariant, PTL

\* What append() returned is on the disk in one piece and in the order of the
\* acknowledgements, however many threads append, whichever writes fail half
\* way and however often the power is lost.
THEOREM AcknowledgedSurvives == Spec => []AcknowledgedIsDurable
  <1>1. ASSUME LedgerInv PROVE AcknowledgedIsDurable
    <2>1. /\ file \in Seq(Pieces) /\ acked \in Seq(RecordIds)
          /\ durable \in Nat /\ durable <= Len(file) /\ Len(file) \in Nat
          /\ DOMAIN file = 1..Len(file)
      BY <1>1 DEF LedgerInv, TypeOK
    <2>2. ASSUME NEW n \in DOMAIN acked, NEW i \in 1..(durable - 2)
          PROVE  /\ i \in At(acked[n]) <=> WholeAt(file, i, acked[n])
                 /\ i \in DOMAIN file
      <3>1. i \in 1..(Len(file) - 2) /\ i \in DOMAIN file /\ acked[n] \in RecordIds
        BY <2>1
      <3>2. SubSeq(file, i, i + 2) = Line(acked[n]) <=> WholeAt(file, i, acked[n])
        BY <2>1, <3>1, LineAt
      <3>3. QED
        BY <3>1, <3>2 DEF At
    <2>3. \A n \in DOMAIN acked : At(acked[n]) # {}
      BY <1>1, <2>2 DEF LedgerInv, AckedIsWhole
    <2>4. ASSUME NEW m \in DOMAIN acked, NEW n \in DOMAIN acked, m < n,
                 NEW i \in At(acked[m]), NEW j \in At(acked[n])
          PROVE  i < j
      <3>1. i \in 1..(durable - 2) /\ j \in 1..(durable - 2)
        BY DEF At
      <3>2. /\ i \in DOMAIN file /\ j \in DOMAIN file
            /\ file[i] = Piece(acked[m], "head") /\ file[j] = Piece(acked[n], "head")
        BY <2>2, <3>1 DEF WholeAt
      <3>3. QED
        BY <1>1, <2>4, <3>2 DEF LedgerInv, AckedIsWhole
    <2>5. QED
      BY <2>3, <2>4 DEF AcknowledgedIsDurable
  <1>2. QED
    BY <1>1, LedgerInvariant, PTL

---------------------------------------------------------------------------
(* read_all() *)

\* Every piece is in a line of text that begins somewhere.
LinesBegin ==
  \A i \in DOMAIN file : \E k \in 1..i :
    /\ k = 1 \/ EndsLine(file, k - 1)
    /\ \A j \in k..(i - 1) : ~EndsLine(file, j)

\* Every piece follows the piece before it of the same record.
Follows(f, i) ==
  /\ f[i].part = "head" => i = 1 \/ f[i - 1].part = "newline"
  /\ f[i].part = "tail" => i > 1 /\ f[i - 1] = Piece(f[i].record, "head")
  /\ f[i].part = "newline" => i > 1 /\ f[i - 1] = Piece(f[i].record, "tail")

\* Nobody is in the middle of a line.
AtRest == \A t \in Threads : writing[t].step \notin {"tail", "newline"}

\* As long as nothing went wrong the file is a sequence of whole lines, but for
\* the one that is being written.
Undamaged ==
  ~damaged =>
    /\ \A i \in DOMAIN file : Follows(file, i)
    /\ AtRest /\ Len(file) > 0 => file[Len(file)].part = "newline"

AnswersAreRight ==
  /\ ReadsAreComplete
  /\ Separated = {} => NoFalseAlarm

ReadInv == LinesBegin /\ Undamaged /\ AnswersAreRight

LEMMA InitRead == Init => ReadInv
  BY DEF Init, ReadInv, LinesBegin, Undamaged, AnswersAreRight, ReadsAreComplete, NoFalseAlarm,
         NotRead

\* What steps leave in front of the file keeps its lines.
LEMMA PrefixLines ==
  ASSUME LinesBegin, NEW n \in Nat, DOMAIN file' = 1..n,
         \A i \in 1..n : i \in DOMAIN file /\ file'[i] = file[i]
  PROVE  LinesBegin'
  <1>1. ASSUME NEW i \in 1..n
        PROVE  \E k \in 1..i : /\ k = 1 \/ EndsLine(file', k - 1)
                              /\ \A j \in k..(i - 1) : ~EndsLine(file', j)
    <2>1. PICK k \in 1..i : /\ k = 1 \/ EndsLine(file, k - 1)
                            /\ \A j \in k..(i - 1) : ~EndsLine(file, j)
      BY DEF LinesBegin
    <2>2. \A j \in 1..n : EndsLine(file', j) <=> EndsLine(file, j)
      BY DEF EndsLine
    <2>3. /\ k = 1 \/ k - 1 \in 1..n
          /\ \A j \in k..(i - 1) : j \in 1..n
      OBVIOUS
    <2>4. QED
      BY <2>1, <2>2, <2>3
  <1>2. QED
    BY <1>1 DEF LinesBegin

\* A piece more is in the line of the piece before it or begins one.
LEMMA AppendLines ==
  ASSUME TypeOK, LinesBegin, NEW x \in Pieces, file' = Append(file, x)
  PROVE  LinesBegin'
  <1>1. /\ Len(file) \in Nat /\ DOMAIN file = 1..Len(file)
        /\ DOMAIN file' = 1..(Len(file) + 1)
        /\ \A i \in 1..Len(file) : file'[i] = file[i]
    BY DEF TypeOK
  <1>2. \A j \in 1..Len(file) : EndsLine(file', j) <=> EndsLine(file, j)
    BY <1>1 DEF EndsLine
  <1>3. ASSUME NEW i \in 1..Len(file)
        PROVE  \E k \in 1..i : /\ k = 1 \/ EndsLine(file', k - 1)
                              /\ \A j \in k..(i - 1) : ~EndsLine(file', j)
    <2>1. PICK k \in 1..i : /\ k = 1 \/ EndsLine(file, k - 1)
                            /\ \A j \in k..(i - 1) : ~EndsLine(file, j)
      BY <1>1 DEF LinesBegin
    <2>2. /\ k = 1 \/ k - 1 \in 1..Len(file)
          /\ \A j \in k..(i - 1) : j \in 1..Len(file)
      BY <1>1
    <2>3. QED
      BY <1>2, <2>1, <2>2
  <1> DEFINE n == Len(file) + 1
  <1>4. \E k \in 1..n : /\ k = 1 \/ EndsLine(file', k - 1)
                        /\ \A j \in k..(n - 1) : ~EndsLine(file', j)
    <2>1. CASE Len(file) = 0
      <3>1. 1 \in 1..n /\ \A j \in 1..(n - 1) : FALSE
        BY <1>1, <2>1
      <3>2. QED
        BY <3>1
    <2>2. CASE Len(file) > 0 /\ EndsLine(file', Len(file))
      <3>1. n \in 1..n /\ n - 1 = Len(file) /\ \A j \in n..(n - 1) : FALSE
        BY <1>1
      <3>2. QED
        BY <2>2, <3>1
    <2>3. CASE Len(file) > 0 /\ ~EndsLine(file', Len(file))
      <3>1. Len(file) \in 1..Len(file)
        BY <1>1, <2>3
      <3>2. PICK k \in 1..Len(file) : /\ k = 1 \/ EndsLine(file', k - 1)
                                      /\ \A j \in k..(Len(file) - 1) : ~EndsLine(file', j)
        BY <1>3, <3>1
      <3>3. /\ k \in 1..n
            /\ \A j \in k..(n - 1) : j = Len(file) \/ j \in k..(Len(file) - 1)
        <4>1. Len(file) \in Nat /\ k \in 1..Len(file)
          BY <1>1, <3>2
        <4>2. QED
          BY <4>1
      <3>4. QED
        BY <2>3, <3>2, <3>3
    <2>4. QED
      BY <1>1, <2>1, <2>2, <2>3
  <1>5. \A i \in DOMAIN file' : i \in 1..Len(file) \/ i = n
    BY <1>1
  <1>6. QED
    BY <1>3, <1>4, <1>5 DEF LinesBegin

\* The line of a whole record that is in a readable file is its own line.
LEMMA WholeIsRead ==
  ASSUME TypeOK, LinesBegin, Readable(file), NEW r \in RecordIds,
         NEW i \in 1..(Len(file) - 2), WholeAt(file, i, r)
  PROVE  r \in RecordsIn(file)
  <1>1. /\ Len(file) \in Nat /\ DOMAIN file = 1..Len(file) /\ i \in DOMAIN file
        /\ i + 1 \in DOMAIN file /\ i + 2 \in DOMAIN file /\ file \in Seq(Pieces)
    BY DEF TypeOK
  <1>2. PICK k \in 1..i : /\ k = 1 \/ EndsLine(file, k - 1)
                          /\ \A j \in k..(i - 1) : ~EndsLine(file, j)
    BY <1>1 DEF LinesBegin
  <1>3. /\ EndsLine(file, i + 2) /\ ~EndsLine(file, i + 1)
        /\ EndsLine(file, i) <=> r \in Separated
    BY DEF EndsLine, WholeAt, Piece
  <1>4. k \in DOMAIN file
    BY <1>1
  <1>5. ASSUME NEW l \in (DOMAIN file) \X (DOMAIN file), l \in TextLines(file), l[1] = k,
               NEW end, end = (IF file[l[2]].part = "newline" THEN l[2] - 1 ELSE l[2]),
               end \in Nat, i <= end, end <= Len(file)
        PROVE  end = i + 1 /\ k = i
    <2>1. Parses(file, l)
      BY <1>5 DEF Readable
    <2>2. SubSeq(file, k, end) = SubSeq(Line(file[k].record), 1, 2)
      <3>1. ~(end < l[1])
        BY <1>1, <1>2, <1>5
      <3>2. QED
        BY <1>5, <2>1, <3>1 DEF Parses
    <2>3. Len(SubSeq(file, k, end)) = end - k + 1
      BY <1>1, <1>4, <1>5
    <2>4. /\ Len(SubSeq(Line(file[k].record), 1, 2)) = 2
          /\ SubSeq(Line(file[k].record), 1, 2)[2] = Piece(file[k].record, "tail")
      <3>1. file[k] \in Pieces
        BY <1>1, <1>4
      <3>2. file[k].record \in RecordIds \cup {NoRecord}
        BY <3>1 DEF Pieces
      <3>3. QED
        BY <3>2, ShortLine
    <2>5. end = k + 1 /\ file[k + 1] = Piece(file[k].record, "tail")
      <3>1. k \in Nat /\ end = k + 1
        <4>1. k \in Nat /\ end \in Nat
          BY <1>1, <1>4, <1>5
        <4>2. end - k + 1 = 2
          BY <2>2, <2>3, <2>4
        <4>3. QED
          BY <4>1, <4>2
      <3>2. SubSeq(file, k, end)[2] = file[k + 1]
        BY <1>1, <1>4, <1>5, <3>1
      <3>3. QED
        BY <2>2, <2>4, <3>1, <3>2
    <2>6. i # k + 1
      BY <2>5 DEF WholeAt, Piece
    <2>7. QED
      BY <1>5, <2>5, <2>6
  <1>6. CASE r \in Separated
    <2> DEFINE l == <<k, i>>
    <2>1. l \in TextLines(file)
      BY <1>1, <1>2, <1>3, <1>4, <1>6 DEF TextLines
    <2>2. file[i].part # "newline"
      BY DEF WholeAt, Piece
    <2>3. i = i + 1
      BY <1>1, <1>4, <1>5, <2>1, <2>2
    <2>4. QED
      BY <2>3
  <1>7. CASE r \notin Separated
    <2> DEFINE l == <<k, i + 2>>
    <2>1. \A j \in k..((i + 2) - 1) : j \in k..(i - 1) \/ j = i \/ j = i + 1
      BY <1>1
    <2>2. l \in TextLines(file)
      BY <1>1, <1>2, <1>3, <1>4, <1>7, <2>1 DEF TextLines
    <2>3. Parses(file, l)
      BY <2>2 DEF Readable
    <2>4. Holds(file, l, r)
      BY <1>1 DEF Holds, WholeAt, Piece
    <2>5. QED
      BY <2>2, <2>3, <2>4 DEF RecordsIn
  <1>8. QED
    BY <1>6, <1>7

\* What the piece before a piece can be.
LEMMA Predecessors ==
  ASSUME NEW f, NEW i, Follows(f, i), i # 1
  PROVE  /\ f[i].part = "head" => f[i - 1].part = "newline"
         /\ f[i].part = "tail" =>
              f[i - 1].part = "head" /\ f[i - 1] = Piece(f[i].record, "head")
         /\ f[i].part = "newline" => f[i - 1].part = "tail"
  <1>1. \A r, p : Piece(r, p).part = p
    BY DEF Piece
  <1>2. QED
    BY <1>1 DEF Follows

\* A line of an undamaged file at rest is one whole record.
LEMMA UndamagedIsReadable ==
  ASSUME TypeOK, Separated = {}, Undamaged, ~damaged, AtRest
  PROVE  Readable(file)
  <1>1. /\ Len(file) \in Nat /\ DOMAIN file = 1..Len(file) /\ file \in Seq(Pieces)
        /\ \A i \in DOMAIN file : /\ Follows(file, i)
                                  /\ file[i].part \in {"head", "tail", "newline"}
                                  /\ file[i].record \in RecordIds
                                  /\ EndsLine(file, i) <=> file[i].part = "newline"
        /\ Len(file) > 0 => file[Len(file)].part = "newline"
    <2>1. \A i \in DOMAIN file : file[i] \in Pieces
      BY DEF TypeOK
    <2>2. QED
      BY <2>1 DEF TypeOK, Undamaged, Pieces, EndsLine
  <1>2. SUFFICES ASSUME NEW l \in TextLines(file) PROVE Parses(file, l)
    BY DEF Readable
  <1> DEFINE a == l[1]
             b == l[2]
  <1>3. /\ a \in DOMAIN file /\ b \in DOMAIN file /\ a <= b
        /\ a = 1 \/ EndsLine(file, a - 1)
        /\ b = Len(file) \/ EndsLine(file, b)
        /\ \A i \in a..(b - 1) : ~EndsLine(file, i)
    BY DEF TextLines
  <1> HIDE DEF a, b
  <1>4. file[b].part = "newline" /\ a \in Nat /\ b \in Nat
    BY <1>1, <1>3
  <1>5. file[a].part = "head"
    <2>1. CASE a = 1
      BY <1>1, <1>3, <2>1 DEF Follows
    <2>2. CASE a # 1 /\ file[a - 1].part = "newline"
      BY <1>1, <1>3, <2>2, Predecessors
    <2>3. a # 1 => a - 1 \in DOMAIN file
      BY <1>1, <1>3
    <2>4. QED
      BY <1>1, <1>3, <2>1, <2>2, <2>3
  <1>6. a + 1 <= b /\ a + 1 \in DOMAIN file
    <2>1. a # b
      BY <1>4, <1>5
    <2>2. QED
      BY <1>1, <1>3, <1>4, <2>1
  <1>7. file[a + 1].part = "tail" /\ file[a] = Piece(file[a + 1].record, "head")
    <2>1. (a + 1) - 1 = a /\ a + 1 # 1 /\ a \in Nat
      BY <1>1, <1>3
    <2>2. file[a + 1].part # "head"
      BY <1>1, <1>5, <1>6, <2>1 DEF Follows
    <2>3. file[a + 1].part # "newline"
      <3>1. file[a + 1].part = "newline" => file[(a + 1) - 1].part = "tail"
        BY <1>1, <1>6, <2>1, Predecessors
      <3>2. QED
        BY <1>5, <2>1, <3>1
    <2>4. QED
      BY <1>1, <1>6, <2>1, <2>2, <2>3 DEF Follows
  <1>8. a + 2 <= b /\ a + 2 \in DOMAIN file
    <2>1. a + 1 # b
      BY <1>4, <1>7
    <2>2. QED
      BY <1>1, <1>3, <1>4, <1>6, <2>1
  <1>9. file[a + 2].part = "newline"
    <2>1. (a + 2) - 1 = a + 1 /\ a + 2 # 1
      BY <1>4
    <2>2. file[a + 2].part # "head"
      BY <1>1, <1>7, <1>8, <2>1 DEF Follows
    <2>3. file[a + 2].part # "tail"
      <3>1. file[a + 2].part = "tail" => file[(a + 2) - 1].part = "head"
        BY <1>1, <1>8, <2>1, Predecessors
      <3>2. QED
        BY <1>7, <2>1, <3>1
    <2>4. QED
      BY <1>1, <1>8, <2>2, <2>3
  <1>10. b = a + 2
    <2>1. a + 2 \notin a..(b - 1)
      BY <1>1, <1>3, <1>8, <1>9
    <2>2. QED
      BY <1>4, <1>8, <2>1
  <1>11. SubSeq(file, a, b - 1) = SubSeq(Line(file[a].record), 1, 2)
    <2> DEFINE r == file[a].record
               short == SubSeq(Line(r), 1, 2)
               text == SubSeq(file, a, b - 1)
    <2>1. /\ text \in Seq(Pieces) /\ Len(text) = 2
          /\ text[1] = file[a] /\ text[2] = file[a + 1]
      <3>1. b - 1 = a + 1 /\ a \in 1..Len(file) /\ a + 1 \in 1..Len(file)
        BY <1>1, <1>3, <1>4, <1>6, <1>10
      <3>2. QED
        BY <1>1, <3>1
    <2>2. r \in RecordIds /\ file[a] = Piece(r, "head") /\ file[a + 1] = Piece(r, "tail")
      <3>1. file[a + 1] \in Pieces /\ file[a] \in Pieces
        BY <1>1, <1>3, <1>6
      <3>2. QED
        BY <1>5, <1>7, <3>1 DEF Piece, Pieces
    <2>3. /\ short \in Seq([record : {r}, part : {"head", "tail", "newline"}])
          /\ Len(short) = 2 /\ short[1] = Piece(r, "head") /\ short[2] = Piece(r, "tail")
      BY <2>2, ShortLine
    <2> HIDE DEF r, short, text
    <2>4. text = short
      BY <2>1, <2>2, <2>3
    <2>5. QED
      BY <2>4 DEF r, short, text
  <1>12. QED
    BY <1>4, <1>11 DEF Parses, a, b

\* A step that leaves the file alone and puts nobody in or out of a line.
LEMMA SameFile ==
  ASSUME ReadInv, UNCHANGED file, AnswersAreRight',
         damaged' = TRUE \/ (damaged' = damaged /\ (AtRest' => AtRest))
  PROVE  ReadInv'
  <1>1. LinesBegin'
    BY DEF ReadInv, LinesBegin, EndsLine
  <1>2. Undamaged'
    BY DEF ReadInv, Undamaged, Follows
  <1>3. QED
    BY <1>1, <1>2 DEF ReadInv

\* An answer stays right as long as nothing is repaired.
LEMMA SameAnswer ==
  ASSUME ReadInv, UNCHANGED answer, damaged' = TRUE \/ damaged' = damaged
  PROVE  AnswersAreRight'
  BY DEF ReadInv, AnswersAreRight, ReadsAreComplete, NoFalseAlarm

LEMMA PrepareReads ==
  ASSUME LedgerInv, ReadInv, NEW t \in Threads, Prepare(t) \/ Open(t)
  PROVE  ReadInv'
  <1>1. /\ UNCHANGED <<file, damaged, answer>>
        /\ writing \in [Threads -> [step : {"idle", "prepared"} \cup Locked,
                                    record : RecordIds \cup {NoRecord}]]
        /\ writing[t].step \notin {"tail", "newline"}
    BY DEF Prepare, Open, Idle, LedgerInv, TypeOK
  <1>2. \A u \in Threads : u # t => writing'[u] = writing[u]
    BY <1>1 DEF Prepare, Open
  <1>3. AtRest' => AtRest
    BY <1>1, <1>2 DEF AtRest
  <1>4. QED
    BY <1>1, <1>3, SameFile, SameAnswer

LEMMA WriteReads ==
  ASSUME LedgerInv, ReadInv, NEW t \in Threads, Write(t)
  PROVE  ReadInv'
  <1> DEFINE r == writing[t].record
             p == writing[t].step
             n == Len(file)
  <1>1. /\ TypeOK /\ p \in {"head", "tail", "newline"}
        /\ file' = Append(file, Piece(r, p)) /\ UNCHANGED <<damaged, answer>>
        /\ writing' = [writing EXCEPT ![t].step = NextStep[p]]
        /\ r \in RecordIds
    BY Steps DEF Write, LedgerInv, Piece, WritersOwnRecords, TypeOK
  <1>2. /\ Piece(r, p) \in Pieces
        /\ Piece(r, p).record = r /\ Piece(r, p).part = p
    BY <1>1 DEF Piece, Pieces
  <1>3. /\ n \in Nat /\ DOMAIN file = 1..n /\ DOMAIN file' = 1..(n + 1) /\ Len(file') = n + 1
        /\ \A i \in 1..n : file'[i] = file[i]
        /\ file'[n + 1] = Piece(r, p)
    BY <1>1, <1>2 DEF TypeOK
  <1>4. LinesBegin'
    BY <1>1, <1>2, AppendLines DEF ReadInv
  <1>5. p = "head" => AtRest
    <2>1. p = "head" => p \in Locked
      BY DEF Locked
    <2>2. \A u \in Threads : u # t /\ p \in Locked => writing[u].step \notin Locked
      BY <1>1 DEF TypeOK
    <2>3. QED
      BY <2>1, <2>2 DEF AtRest, Locked
  <1>6. AtRest' => p = "newline"
    <2>1. writing'[t].step = NextStep[p]
      BY <1>1 DEF TypeOK
    <2>2. QED
      BY <1>1, <2>1, Steps DEF AtRest
  <1>7. /\ p = "tail" => n >= 1 /\ file[n] = Piece(r, "head")
        /\ p = "newline" => n >= 2 /\ file[n] = Piece(r, "tail")
    BY DEF LedgerInv, LineGrows
  <1> HIDE DEF r, p, n
  <1>8. ASSUME ~damaged
        PROVE  Follows(file', n + 1)
    <2>1. (n + 1) - 1 = n /\ (n = 0 \/ n \in 1..n) /\ (n >= 1 => n + 1 > 1) /\ (n >= 2 => n + 1 > 1)
      BY <1>3
    <2>2. CASE p = "head"
      <3>1. n > 0 => file[n].part = "newline"
        BY <1>5, <1>8, <2>2 DEF ReadInv, Undamaged, n
      <3>2. n + 1 = 1 \/ file'[n].part = "newline"
        BY <1>3, <2>1, <3>1
      <3>3. file'[n + 1].part = "head"
        BY <1>2, <1>3, <2>2
      <3>4. QED
        BY <2>1, <3>2, <3>3 DEF Follows
    <2>3. CASE p \in {"tail", "newline"}
      <3>1. n + 1 > 1 /\ file'[n] = file[n]
        BY <1>3, <1>7, <2>1, <2>3
      <3>2. file'[n + 1].part = p /\ file'[n + 1].record = r
        BY <1>2, <1>3
      <3>3. QED
        BY <1>7, <2>1, <2>3, <3>1, <3>2 DEF Follows
    <2>4. QED
      BY <1>1, <2>2, <2>3
  <1>9. Undamaged'
    <2>1. SUFFICES ASSUME ~damaged PROVE Undamaged'
      BY <1>1 DEF Undamaged
    <2>2. ASSUME NEW i \in 1..n
          PROVE  Follows(file', i)
      <3>1. Follows(file, i) /\ (i = 1 \/ i - 1 \in 1..n) /\ (i > 1 => i # 1)
        BY <1>3, <2>1 DEF ReadInv, Undamaged
      <3>2. file'[i] = file[i] /\ (i # 1 => file'[i - 1] = file[i - 1])
        BY <1>3, <3>1
      <3>3. QED
        BY <3>1, <3>2 DEF Follows
    <2>3. AtRest' => file'[n + 1].part = "newline"
      BY <1>2, <1>3, <1>6
    <2>4. \A i \in DOMAIN file' : i \in 1..n \/ i = n + 1
      BY <1>3
    <2>5. QED
      BY <1>3, <1>8, <2>1, <2>2, <2>3, <2>4 DEF Undamaged
  <1>10. QED
    BY <1>1, <1>4, <1>9, SameAnswer DEF ReadInv

LEMMA LeaveReads ==
  ASSUME LedgerInv, ReadInv, NEW t \in Threads, Fail(t) \/ Acknowledge(t)
  PROVE  ReadInv'
  <1>1. CASE Fail(t)
    BY <1>1, SameFile, SameAnswer DEF Fail
  <1>2. CASE Acknowledge(t)
    <2>1. /\ UNCHANGED <<file, damaged, answer>> /\ writing[t].step = "sync"
          /\ writing' = [writing EXCEPT ![t] = Idle] /\ TypeOK
      BY <1>2 DEF Acknowledge, Leave, LedgerInv
    <2>2. \A u \in Threads : u # t => writing'[u] = writing[u]
      BY <2>1
    <2>3. AtRest' => AtRest
      BY <2>1, <2>2 DEF AtRest
    <2>4. QED
      BY <2>1, <2>3, SameFile, SameAnswer
  <1>3. QED
    BY <1>1, <1>2

LEMMA ReadAllReads ==
  ASSUME LedgerInv, ReadInv, ReadAll
  PROVE  ReadInv'
  <1>1. /\ UNCHANGED <<file, writing, acked, damaged>> /\ holder = NoThread /\ TypeOK
        /\ answer' = [outcome |-> ReadOutcome(file), records |-> RecordsIn(file),
                      wanted |-> ToSet(acked)]
    BY DEF ReadAll, LedgerInv
  <1>2. AtRest' => AtRest
    BY <1>1 DEF AtRest
  <1>3. AtRest
    BY <1>1, AuditLedgerAssumption DEF TypeOK, AtRest, Locked
  <1>4. ASSUME Readable(file), NEW r \in ToSet(acked)
        PROVE  r \in RecordsIn(file)
    <2>1. PICK n \in DOMAIN acked : acked[n] = r
      BY <1>4 DEF ToSet
    <2>2. PICK i \in 1..(durable - 2) : WholeAt(file, i, r)
      BY <2>1 DEF LedgerInv, AckedIsWhole
    <2>3. i \in 1..(Len(file) - 2) /\ r \in RecordIds
      BY <1>1, <2>1, <2>2 DEF TypeOK
    <2>4. QED
      BY <1>1, <1>4, <2>2, <2>3, WholeIsRead DEF ReadInv
  <1>5. ReadsAreComplete'
    BY <1>1, <1>4 DEF ReadsAreComplete, ReadOutcome
  <1>6. Separated = {} => NoFalseAlarm'
    BY <1>1, <1>3, UndamagedIsReadable DEF NoFalseAlarm, ReadOutcome, ReadInv
  <1>7. AnswersAreRight'
    BY <1>5, <1>6 DEF AnswersAreRight
  <1>8. QED
    BY <1>1, <1>2, <1>7, SameFile

LEMMA CrashReads ==
  ASSUME LedgerInv, ReadInv, Crash
  PROVE  ReadInv'
  <1>1. damaged' = TRUE /\ answer' = NotRead /\ TypeOK
    BY DEF Crash, LedgerInv
  <1>2. PICK n \in durable..Len(file) : file' = SubSeq(file, 1, n)
    BY DEF Crash
  <1>3. /\ n \in Nat /\ DOMAIN file' = 1..n
        /\ \A i \in 1..n : i \in DOMAIN file /\ file'[i] = file[i]
    BY <1>1, <1>2 DEF TypeOK
  <1>4. LinesBegin'
    BY <1>3, PrefixLines DEF ReadInv
  <1>5. AnswersAreRight' /\ Undamaged'
    BY <1>1 DEF AnswersAreRight, ReadsAreComplete, NoFalseAlarm, NotRead, Undamaged
  <1>6. QED
    BY <1>4, <1>5 DEF ReadInv

LEMMA StepReads ==
  ASSUME LedgerInv, ReadInv, [Next]_vars
  PROVE  ReadInv'
  <1>1. ASSUME NEW t \in Threads, Prepare(t) \/ Open(t) \/ Write(t) \/ Fail(t) \/ Acknowledge(t)
        PROVE  ReadInv'
    BY <1>1, PrepareReads, WriteReads, LeaveReads
  <1>2. CASE UNCHANGED vars
    <2>1. UNCHANGED <<file, writing, answer, damaged>>
      BY <1>2 DEF vars
    <2>2. AtRest' => AtRest
      BY <2>1 DEF AtRest
    <2>3. QED
      BY <2>1, <2>2, SameFile, SameAnswer
  <1>3. QED
    BY <1>1, <1>2, ReadAllReads, CrashReads DEF Next

---------------------------------------------------------------------------
(* The theorems about read_all() *)

\* The inductive invariant of read_all(): what an answer says of the file.
THEOREM ReadInvariant == Spec => []ReadInv
  <1>1. LedgerInv /\ ReadInv /\ [Next]_vars => ReadInv'
    BY StepReads
  <1>2. QED
    BY <1>1, InitRead, LedgerInvariant, PTL DEF Spec

\* A read that succeeds returns every record that was acknowledged before it,
\* whatever the file has gone through.
THEOREM ReadsMissNothing == Spec => []ReadsAreComplete
  <1>1. ReadInv => ReadsAreComplete
    BY DEF ReadInv, AnswersAreRight
  <1>2. QED
    BY <1>1, ReadInvariant, PTL

\* As long as no record holds a line separator, no read meets a line that does
\* not parse before an append failed or the power was lost.
THEOREM NoAlarmWithoutDamage ==
  ASSUME Separated = {}
  PROVE  Spec => []NoFalseAlarm
  <1>1. ReadInv => NoFalseAlarm
    BY DEF ReadInv, AnswersAreRight
  <1>2. QED
    BY <1>1, ReadInvariant, PTL
=============================================================================
