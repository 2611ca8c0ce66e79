----------------------------- MODULE BinaryLogger -----------------------------
(***************************************************************************)
(* sq::BinaryLogger and its Reader (src/log/binary_logger.cpp): a ring of  *)
(* bytes in a mapped file, one writer, and a reader that takes a snapshot  *)
(* of write_pos, in another process.                                       *)
(*                                                                         *)
(* A byte is represented by the record it belongs to and its place in it,  *)
(* so that a property can tell whose bytes a reader was given.  The writer *)
(* copies byte by byte and may die at any of them; what it has stored into *)
(* the mapping stays (flush and the destructor only hurry it to the disk). *)
(* Records larger than the ring, which write() does not refuse, are left   *)
(* out.                                                                    *)
(***************************************************************************)
EXTENDS Integers, Sequences

CONSTANTS
    BufSize,      \* buf_size_
    HeaderSize,   \* kRecordHeaderSize
    Length,       \* payload lengths
    MaxRecords,   \* bound on the records begun
    MaxFiles      \* bound on the times a logger opens the path

ASSUME LogAssumption ==
    /\ BufSize \in Nat \ {0} /\ HeaderSize \in Nat \ {0}
    /\ Length \subseteq Nat /\ \A len \in Length : HeaderSize + len <= BufSize
    /\ MaxRecords \in Nat /\ MaxFiles \in Nat

VARIABLES
    \* the file
    buf,          \* place in the ring -> <<record, index>>, or Zero
    write_pos,    \* header_->write_pos
    \* the writer
    w_pc,         \* "idle", "copy" (inside write) or "dead"
    copied,       \* bytes of the current record copied so far
    \* the reader
    r_pc,         \* "closed", "idle", or "copy" (next, at the bounce buffer)
    read_pos, end_pos,
    bounce,       \* bounce_
    \* history
    files,        \* times the file was created
    log,          \* [file, pos, len] of each record begun
    start,        \* where the reader's pass began ...
    got,          \* ... what it returned: [id, pos, len, bounced] ...
    torn,         \* ... whether it has read bytes already overwritten ...
    stuck         \* ... or met what it took for an incomplete record

fileVars   == <<buf, write_pos>>
writerVars == <<w_pc, copied, files, log>>
readerVars == <<r_pc, read_pos, end_pos, bounce, start, got, torn, stuck>>
vars       == <<fileVars, writerVars, readerVars>>

Zero  == <<0, 0>>
Place == 0 .. BufSize - 1

Init ==
    /\ buf = [p \in Place |-> Zero] /\ write_pos = 0
    /\ w_pc = "idle" /\ copied = 0
    /\ files = 1 /\ log = <<>>
    /\ r_pc = "closed" /\ read_pos = 0 /\ end_pos = 0 /\ bounce = <<>>
    /\ start = 0 /\ got = <<>> /\ torn = FALSE /\ stuck = FALSE

\* The n bytes from position pos on, across the end of the ring.
RingBytes(pos, n) == [i \in 1 .. n |-> buf[(pos + i - 1) % BufSize]]

\* The bytes of record k from index i on, as they were written.
Bytes(k, i, n) == [j \in 1 .. n |-> <<k, i + j - 1>>]

-----------------------------------------------------------------------------
(* Writer *)

WriteBegin(len) ==
    /\ w_pc = "idle" /\ Len(log) < MaxRecords
    /\ w_pc' = "copy" /\ copied' = 0
    /\ log' = Append(log, [file |-> files, pos |-> write_pos, len |-> len])
    /\ UNCHANGED <<fileVars, files, readerVars>>

RecordSize == HeaderSize + log[Len(log)].len

\* Fault: the part of a copy beyond the end of the ring goes to the wrong place.
ring_write_NoWrap ==
    /\ w_pc = "copy" /\ copied < RecordSize
    /\ LET at == (write_pos % BufSize) + copied IN
       buf' = [buf EXCEPT ![IF at < BufSize THEN at ELSE BufSize - 1] = <<Len(log), copied>>]
    /\ copied' = copied + 1
    /\ UNCHANGED <<write_pos, w_pc, files, log, readerVars>>

\* The header, then the payload.
ring_write ==
    /\ w_pc = "copy" /\ copied < RecordSize
    /\ buf' = [buf EXCEPT ![(write_pos + copied) % BufSize] = <<Len(log), copied>>]
    /\ copied' = copied + 1
    /\ UNCHANGED <<write_pos, w_pc, files, log, readerVars>>

\* Fault: write_pos is stored once the header is in place.
WritePublish_Early ==
    /\ w_pc = "copy" /\ copied = HeaderSize
    /\ write_pos' = write_pos + RecordSize
    /\ w_pc' = "idle" /\ copied' = 0
    /\ UNCHANGED <<buf, files, log, readerVars>>

\* The release store of write_pos.
WritePublish ==
    /\ w_pc = "copy" /\ copied = RecordSize
    /\ write_pos' = write_pos + RecordSize
    /\ w_pc' = "idle" /\ copied' = 0
    /\ UNCHANGED <<buf, files, log, readerVars>>

\* The process ends, in an orderly way or not.
WriterDies ==
    /\ w_pc # "dead"
    /\ w_pc' = "dead"
    /\ UNCHANGED <<fileVars, copied, files, log, readerVars>>

\* A new logger on the same path truncates the file; a reader still has it mapped.
Reopen ==
    /\ w_pc = "dead" /\ files < MaxFiles
    /\ buf' = [p \in Place |-> Zero] /\ write_pos' = 0
    /\ w_pc' = "idle" /\ copied' = 0
    /\ files' = files + 1
    /\ torn' = (r_pc # "closed")
    /\ UNCHANGED <<log, r_pc, read_pos, end_pos, bounce, start, got, stuck>>

-----------------------------------------------------------------------------
(* Reader *)

\* Fault: the reader always starts at the beginning.
Oldest_Zero == 0

\* Bytes that the ring can no longer hold are skipped.
Oldest == IF write_pos > BufSize THEN write_pos - BufSize ELSE 0

\* The constructor; rewind does the same to an open reader.
Rewind ==
    /\ r_pc \in {"closed", "idle"}
    /\ r_pc' = "idle"
    /\ end_pos' = write_pos /\ read_pos' = Oldest
    /\ start' = Oldest /\ got' = <<>> /\ torn' = FALSE /\ stuck' = FALSE
    /\ UNCHANGED <<fileVars, writerVars, bounce>>

\* The writer has begun to overwrite what stood at position pos.
Overrun(pos) == write_pos + copied > pos + BufSize

\* The lengths a header can be read as: its own, 0 from a fresh file, anything else
\* from bytes that are not a header.
ReadLength(bytes) ==
    LET k == bytes[1][1] IN
    IF k # 0 /\ bytes = Bytes(k, 0, HeaderSize) THEN {log[k].len}
    ELSE IF \A i \in DOMAIN bytes : bytes[i] = Zero THEN {0}
    ELSE 0 .. BufSize + 1

\* entry.data points into the ring, or to the bounce buffer.
Return(len, bounced) ==
    /\ got' = Append(got, [id |-> buf[read_pos % BufSize][1], pos |-> read_pos,
                           len |-> len, bounced |-> bounced])
    /\ read_pos' = read_pos + HeaderSize + len

\* Fault: the last record of the snapshot is taken for incomplete.
Complete_Strict(len) == read_pos + HeaderSize + len < end_pos

\* The record ends within the snapshot.
Complete(len) == read_pos + HeaderSize + len <= end_pos

\* Fault: every payload goes through the bounce buffer.
Straddles_Always(len) == TRUE

\* Whether a payload of len bytes straddles the end of the ring.
Straddles(len) == len > BufSize - ((read_pos + HeaderSize) % BufSize)

\* next, payload contiguous: no copy is made.
NextEntry ==
    /\ r_pc = "idle" /\ read_pos + HeaderSize <= end_pos
    /\ \E len \in ReadLength(RingBytes(read_pos, HeaderSize)) :
          /\ Complete(len) /\ ~Straddles(len)
          /\ Return(len, FALSE)
    /\ torn' = (torn \/ Overrun(read_pos))
    /\ UNCHANGED <<fileVars, writerVars, r_pc, end_pos, bounce, start, stuck>>

\* next, payload across the end: the header has been read, bounce_ has its size ...
NextStraddling ==
    /\ r_pc = "idle" /\ read_pos + HeaderSize <= end_pos
    /\ \E len \in ReadLength(RingBytes(read_pos, HeaderSize)) :
          /\ Complete(len) /\ Straddles(len)
          /\ bounce' = [i \in 1 .. len |-> Zero]
    /\ r_pc' = "copy"
    /\ torn' = (torn \/ Overrun(read_pos))
    /\ UNCHANGED <<fileVars, writerVars, read_pos, end_pos, start, got, stuck>>

\* ... and is filled.
NextCopy ==
    /\ r_pc = "copy"
    /\ bounce' = RingBytes(read_pos + HeaderSize, Len(bounce))
    /\ Return(Len(bounce), TRUE)
    /\ r_pc' = "idle"
    /\ torn' = (torn \/ Overrun(read_pos))
    /\ UNCHANGED <<fileVars, writerVars, end_pos, start, stuck>>

\* next returns false for a record that does not end before end_pos_.
NextIncomplete ==
    /\ r_pc = "idle" /\ read_pos + HeaderSize <= end_pos /\ ~stuck
    /\ \E len \in ReadLength(RingBytes(read_pos, HeaderSize)) :
          ~Complete(len)
    /\ stuck' = TRUE
    /\ torn' = (torn \/ Overrun(read_pos))
    /\ UNCHANGED <<fileVars, writerVars, r_pc, read_pos, end_pos, bounce, start, got>>

-----------------------------------------------------------------------------
Next ==
    \/ \E len \in Length : WriteBegin(len)
    \/ ring_write \/ WritePublish
    \/ WriterDies \/ Reopen
    \/ Rewind
    \/ NextEntry \/ NextStraddling \/ NextCopy \/ NextIncomplete

Spec == Init /\ [][Next]_vars

-----------------------------------------------------------------------------
\* The records before the reader's snapshot that begin at or after its start.
Due == {k \in DOMAIN log :
            log[k].file = files /\ log[k].pos >= start /\ log[k].pos < end_pos}

\* The pass began at a record, and the writer has not caught up with it.
Sound == r_pc # "closed" /\ ~torn /\ (start = end_pos \/ \E k \in Due : log[k].pos = start)

\* next: whatever the writer has done since the snapshot, its death in the middle of
\* a record included, the entries returned are the records in the order written,
\* none left out and none invented.
RecordsInOrder ==
    Sound => \A i \in DOMAIN got :
        /\ got[i].id \in Due
        /\ log[got[i].id].pos = got[i].pos /\ log[got[i].id].len = got[i].len
        /\ got[i].id = got[1].id + i - 1 /\ got[1].pos = start

\* next returns false only when every record of the snapshot has been returned: the
\* branch for an incomplete record is never taken.
NothingWithheld ==
    Sound => /\ ~stuck
             /\ (read_pos + HeaderSize > end_pos) => read_pos = end_pos

\* What entry.data shows to the caller now.
Data(e) == IF e.bounced THEN bounce ELSE RingBytes(e.pos + HeaderSize, e.len)

\* binary_logger.hpp calls data "valid while this Reader is alive": it is, for all
\* entries of a pass together, until the writer comes round to the record.
EntriesStayValid ==
    (Sound /\ r_pc = "idle") =>
        \A i \in DOMAIN got :
            (got[i].bounced \/ ~Overrun(got[i].pos)) =>
                Data(got[i]) = Bytes(got[i].id, HeaderSize, got[i].len)

\* Any reader, one that started inside a record or met overwritten bytes too, stays
\* within its snapshot and never reads further than once around the ring.
ReaderBounded == read_pos <= end_pos /\ end_pos - read_pos <= BufSize

\* There is one bounce buffer: in one pass at most one entry points to it, so that
\* next never changes the data of an entry it returned before.
BounceOnce ==
    \A i, j \in DOMAIN got : (got[i].bounced /\ got[j].bounced) => i = j
=============================================================================
