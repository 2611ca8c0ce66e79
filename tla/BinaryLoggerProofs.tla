-------------------------- MODULE BinaryLoggerProofs --------------------------
(***************************************************************************)
(* For every size of the ring, of the header and of the records.           *)
(*                                                                         *)
(* Whatever bytes the reader meets: a pass stays within its snapshot and   *)
(* within one turn of the ring (ReaderBounded), and it uses the bounce     *)
(* buffer at most once (BounceOnce).  IInv is the invariant of this part.  *)
(*                                                                         *)
(* Of a pass that began at a record and was not overrun: it returns the    *)
(* records of its snapshot, all of them, in order and with their own bytes *)
(* (RecordsInOrder, NothingWithheld, EntriesStayValid).  RecordInv, on top *)
(* of IInv, says which record each place of the ring holds, that records   *)
(* and snapshot end where others begin, and where the reader stands.       *)
(***************************************************************************)
EXTENDS BinaryLogger, ArithProofs

-----------------------------------------------------------------------------
(* The inductive invariant *)

Byte   == Nat \X Nat
LogRec == [file : Nat, pos : Nat, len : Nat]
Entry  == [id : Nat, pos : Nat, len : Nat, bounced : BOOLEAN]

\* What the reader can find in the file is a byte of a record that was begun.
FileInv ==
    /\ log \in Seq(LogRec)
    /\ buf \in [Place -> (0 .. Len(log)) \X Nat]
    /\ write_pos \in Nat /\ copied \in Nat /\ files \in Nat
    /\ w_pc = "copy" => log # <<>>

\* A pass covers at most one turn; a straddling payload under way fits into it.
PassInv ==
    /\ read_pos \in Nat /\ end_pos \in Nat /\ start \in Nat
    /\ bounce \in Seq(Byte)
    /\ start <= read_pos /\ read_pos <= end_pos /\ end_pos - start <= BufSize
    /\ r_pc = "copy" => Complete(Len(bounce)) /\ Straddles(Len(bounce))

End(e) == e.pos + HeaderSize + e.len

\* An end of the ring lies strictly inside the payload.
Crosses(e) ==
    \E m \in Nat : e.pos + HeaderSize < BufSize * m /\ BufSize * m < End(e)

\* The entries follow one another inside the pass.
GotInv ==
    /\ got \in Seq(Entry)
    /\ \A i \in 1 .. Len(got) :
          /\ start <= got[i].pos /\ End(got[i]) <= read_pos
          /\ got[i].bounced => Crosses(got[i])
    /\ \A i, j \in 1 .. Len(got) : i < j => End(got[i]) <= got[j].pos

IInv == FileInv /\ PassInv /\ GotInv

-----------------------------------------------------------------------------
(* Parts *)

\* The file is empty and no reader has it open.
LEMMA InitInv == Init => IInv
  BY LogAssumption DEF Init, IInv, FileInv, PassInv, GotInv, Zero, Place

\* The writer's steps, its restart included, put only its own bytes into the file.
LEMMA WriterFile ==
    ASSUME FileInv,
           \/ \E len \in Length : WriteBegin(len)
           \/ ring_write \/ WritePublish \/ WriterDies \/ Reopen
    PROVE  FileInv'
<1> USE LogAssumption DEF FileInv
<1>1. ASSUME NEW len \in Length, WriteBegin(len) PROVE FileInv'
  <2>1. /\ log' \in Seq(LogRec)
        /\ Len(log') = Len(log) + 1 /\ log' # <<>>
    <3>1. [file |-> files, pos |-> write_pos, len |-> len] \in LogRec  BY DEF LogRec
    <3> QED  BY <1>1, <3>1 DEF WriteBegin
  <2> QED  BY <1>1, <2>1 DEF WriteBegin, fileVars
<1>2. CASE ring_write
  <2>1. Len(log) \in 1 .. Len(log)  BY <1>2 DEF ring_write
  <2>2. <<Len(log), copied>> \in (0 .. Len(log)) \X Nat  BY <2>1
  <2>3. buf' \in [Place -> (0 .. Len(log)) \X Nat]
    <3> DEFINE S == (0 .. Len(log)) \X Nat
    <3>1. <<Len(log), copied>> \in S  BY <2>2
    <3> HIDE DEF S
    <3>2. buf \in [Place -> S]  BY DEF S
    <3>3. buf' \in [Place -> S]  BY <1>2, <3>1, <3>2 DEF ring_write
    <3> QED  BY <3>3 DEF S
  <2>4. copied' \in Nat /\ UNCHANGED <<log, write_pos, w_pc, files>>
    BY <1>2 DEF ring_write
  <2> QED  BY <2>3, <2>4
<1>3. CASE WritePublish
  <2>1. Len(log) \in 1 .. Len(log)  BY <1>3 DEF WritePublish
  <2>2. log[Len(log)] \in LogRec  BY <2>1, SeqElement
  <2>3. RecordSize \in Nat  BY <2>2 DEF RecordSize, LogRec
  <2> QED  BY <1>3, <2>3 DEF WritePublish
<1>4. CASE WriterDies  BY <1>4 DEF WriterDies, fileVars
<1>5. CASE Reopen
  <2>1. Zero \in (0 .. Len(log)) \X Nat  BY DEF Zero
  <2> QED  BY <1>5, <2>1 DEF Reopen
<1> QED  BY <1>1, <1>2, <1>3, <1>4, <1>5

\* Whatever the bytes, a length is a natural number, and the id a record's.
LEMMA ReadNat ==
    ASSUME FileInv, read_pos \in Nat,
           NEW len \in ReadLength(RingBytes(read_pos, HeaderSize))
    PROVE  len \in Nat
<1> USE LogAssumption
<1> DEFINE bytes == RingBytes(read_pos, HeaderSize)
           k == bytes[1][1]
<1>1. (read_pos + 1 - 1) % BufSize \in Place  BY DivMod DEF Place
<1>2. bytes[1] = buf[(read_pos + 1 - 1) % BufSize]  BY DEF RingBytes
<1>3. k \in 0 .. Len(log)  BY <1>1, <1>2 DEF FileInv
<1> HIDE DEF k
<1>4. k # 0 => log[k] \in LogRec  BY <1>3, SeqElement DEF FileInv
<1>5. k # 0 => log[k].len \in Nat  BY <1>4 DEF LogRec
<1> HIDE DEF bytes
<1> QED  BY <1>5 DEF ReadLength, bytes, k

\* A straddling payload has an end of the ring inside it.
LEMMA StraddlingCrosses ==
    ASSUME read_pos \in Nat, NEW len \in Nat, Straddles(len)
    PROVE  \E m \in Nat : /\ read_pos + HeaderSize < BufSize * m
                          /\ BufSize * m < read_pos + HeaderSize + len
<1> USE LogAssumption
<1> DEFINE a == read_pos + HeaderSize
           q == a \div BufSize
           r == a % BufSize
<1>0. a \in Nat /\ BufSize \in Nat \ {0}  OBVIOUS
<1>1. q \in Nat /\ r \in 0 .. BufSize - 1 /\ a = BufSize * q + r
  BY <1>0, DivMod
<1>2. len > BufSize - r  BY DEF Straddles
<1>3. BufSize * (q + 1) = BufSize * q + BufSize  BY <1>1
<1> HIDE DEF q, r
<1>4. a < BufSize * (q + 1) /\ BufSize * (q + 1) < a + len  BY <1>1, <1>2, <1>3
<1>5. q + 1 \in Nat  BY <1>1
<1> QED  BY <1>4, <1>5

\* One more entry: Return, with the payload inside the snapshot.
LEMMA ReturnGot ==
    ASSUME FileInv, PassInv, GotInv, NEW len \in Nat, NEW b \in BOOLEAN,
           Return(len, b), Complete(len), b => Straddles(len), start' = start
    PROVE  GotInv' /\ read_pos' \in Nat /\ read_pos <= read_pos' /\ read_pos' <= end_pos
<1> USE LogAssumption
<1> DEFINE e == [id |-> buf[read_pos % BufSize][1], pos |-> read_pos,
                 len |-> len, bounced |-> b]
           n == Len(got) + 1
<1>1. buf[read_pos % BufSize][1] \in Nat
  <2>1. read_pos % BufSize \in Place  BY DivMod DEF PassInv, Place
  <2> QED  BY <2>1 DEF FileInv
<1>2. e \in Entry  BY <1>1 DEF PassInv, Entry
<1>3. got' = Append(got, e) /\ read_pos' = read_pos + HeaderSize + len  BY DEF Return
<1>4. e.pos = read_pos /\ End(e) = read_pos' /\ e.bounced = b  BY <1>3 DEF End
<1>5. b => Crosses(e)
  BY StraddlingCrosses DEF PassInv, Crosses, End
<1>6. read_pos' \in Nat /\ read_pos <= read_pos' /\ read_pos' <= end_pos
  BY <1>3 DEF PassInv, Complete
<1> HIDE DEF e
<1>7. /\ got' \in Seq(Entry)
      /\ Len(got') = n /\ got'[n] = e
      /\ \A i \in 1 .. Len(got) : got'[i] = got[i]
  BY <1>2, <1>3 DEF GotInv
<1>8. \A i \in 1 .. n : i # n => i \in 1 .. Len(got)  BY DEF GotInv
<1>9. ASSUME NEW i \in 1 .. Len(got) PROVE got[i].pos \in Nat /\ End(got[i]) \in Nat
  <2>1. got[i] \in Entry  BY SeqElement DEF GotInv
  <2> QED  BY <2>1 DEF Entry, End
<1>10. ASSUME NEW i \in 1 .. n
       PROVE  /\ start' <= got'[i].pos /\ End(got'[i]) <= read_pos'
              /\ got'[i].bounced => Crosses(got'[i])
  <2>1. CASE i = n  BY <1>4, <1>5, <1>6, <1>7, <2>1 DEF PassInv
  <2>2. CASE i # n
    <3>1. i \in 1 .. Len(got) /\ got'[i] = got[i]  BY <1>7, <1>8, <2>2
    <3> QED  BY <1>6, <1>9, <3>1 DEF GotInv, PassInv
  <2> QED  BY <2>1, <2>2
<1>11. ASSUME NEW i \in 1 .. n, NEW j \in 1 .. n, i < j
       PROVE  End(got'[i]) <= got'[j].pos
  <2>1. i \in 1 .. Len(got)  BY <1>11, SeqElement DEF GotInv
  <2>2. got'[i] = got[i]  BY <1>7, <2>1
  <2>3. CASE j = n  BY <1>4, <1>7, <2>1, <2>2, <2>3 DEF GotInv
  <2>4. CASE j # n  BY <1>7, <1>8, <1>11, <2>1, <2>2, <2>4 DEF GotInv
  <2> QED  BY <2>3, <2>4
<1> QED  BY <1>6, <1>7, <1>10, <1>11 DEF GotInv, Crosses, End

-----------------------------------------------------------------------------
(* Steps *)

\* One step of the writer or of the reader.
LEMMA StepInv == IInv /\ [Next]_vars => IInv'
<1> SUFFICES ASSUME IInv, [Next]_vars PROVE IInv'
  OBVIOUS
<1> USE LogAssumption DEF IInv
<1>1. CASE \/ \E len \in Length : WriteBegin(len)
           \/ ring_write \/ WritePublish \/ WriterDies
  <2>1. FileInv'  BY <1>1, WriterFile
  <2>2. UNCHANGED readerVars
    BY <1>1 DEF WriteBegin, ring_write, WritePublish, WriterDies
  <2> QED  BY <2>1, <2>2 DEF readerVars, PassInv, GotInv, Complete, Straddles, End, Crosses
<1>2. CASE Reopen
  <2>1. FileInv'  BY <1>2, WriterFile
  <2>2. UNCHANGED <<r_pc, read_pos, end_pos, bounce, start, got>>  BY <1>2 DEF Reopen
  <2> QED  BY <2>1, <2>2 DEF PassInv, GotInv, Complete, Straddles, End, Crosses
<1>3. CASE Rewind
  <2>1. FileInv'  BY <1>3 DEF Rewind, FileInv, fileVars, writerVars
  <2>2. PassInv'  BY <1>3 DEF Rewind, Oldest, FileInv, PassInv
  <2>3. GotInv'  BY <1>3 DEF Rewind, GotInv
  <2> QED  BY <2>1, <2>2, <2>3
<1>4. CASE NextEntry
  <2>1. PICK len \in ReadLength(RingBytes(read_pos, HeaderSize)) :
            Complete(len) /\ ~Straddles(len) /\ Return(len, FALSE)
    BY <1>4 DEF NextEntry
  <2>2. len \in Nat  BY ReadNat, <2>1 DEF PassInv
  <2>3. /\ UNCHANGED <<fileVars, writerVars, r_pc, end_pos, bounce, start>>
        /\ r_pc = "idle"
    BY <1>4 DEF NextEntry
  <2>4. FileInv'  BY <2>3 DEF FileInv, fileVars, writerVars
  <2>5. GotInv' /\ read_pos' \in Nat /\ read_pos <= read_pos' /\ read_pos' <= end_pos
    BY <2>1, <2>2, <2>3, ReturnGot
  <2>6. PassInv'  BY <2>3, <2>5 DEF PassInv
  <2> QED  BY <2>4, <2>5, <2>6
<1>5. CASE NextStraddling
  <2>1. PICK len \in ReadLength(RingBytes(read_pos, HeaderSize)) :
            Complete(len) /\ Straddles(len) /\ bounce' = [i \in 1 .. len |-> Zero]
    BY <1>5 DEF NextStraddling
  <2>2. len \in Nat  BY ReadNat, <2>1 DEF PassInv
  <2>3. bounce' \in [1 .. len -> Byte]  BY <2>1 DEF Byte, Zero
  <2>4. bounce' \in Seq(Byte) /\ Len(bounce') = len  BY <2>2, <2>3, FunIsSeq
  <2>5. UNCHANGED <<fileVars, writerVars, read_pos, end_pos, start, got>>
    BY <1>5 DEF NextStraddling
  <2>6. FileInv'  BY <2>5 DEF FileInv, fileVars, writerVars
  <2>7. PassInv'  BY <2>1, <2>4, <2>5 DEF PassInv, Complete, Straddles
  <2>8. GotInv'  BY <2>5 DEF GotInv, End, Crosses
  <2> QED  BY <2>6, <2>7, <2>8
<1>6. CASE NextCopy
  <2> DEFINE len == Len(bounce)
  <2>1. /\ r_pc = "copy" /\ r_pc' = "idle"
        /\ bounce' = RingBytes(read_pos + HeaderSize, len)
        /\ Return(len, TRUE)
        /\ UNCHANGED <<fileVars, writerVars, end_pos, start>>
    BY <1>6 DEF NextCopy
  <2>2. len \in Nat /\ Complete(len) /\ Straddles(len)  BY <2>1 DEF PassInv
  <2>3. FileInv'  BY <2>1 DEF FileInv, fileVars, writerVars
  <2>4. GotInv' /\ read_pos' \in Nat /\ read_pos <= read_pos' /\ read_pos' <= end_pos
    BY <2>1, <2>2, ReturnGot
  <2>5. bounce' \in [1 .. len -> Byte]
    <3>1. ASSUME NEW i \in 1 .. len
          PROVE  buf[(read_pos + HeaderSize + i - 1) % BufSize] \in Byte
      <4>1. read_pos + HeaderSize + i - 1 \in Nat  BY <2>2 DEF PassInv
      <4>2. (read_pos + HeaderSize + i - 1) % BufSize \in Place  BY <4>1, DivMod DEF Place
      <4> QED  BY <4>2 DEF FileInv, Byte
    <3> QED  BY <2>1, <3>1 DEF RingBytes
  <2>6. bounce' \in Seq(Byte)  BY <2>2, <2>5, FunIsSeq
  <2>7. PassInv'  BY <2>1, <2>4, <2>6 DEF PassInv
  <2> QED  BY <2>3, <2>4, <2>7
<1>7. CASE NextIncomplete
  <2>1. UNCHANGED <<fileVars, writerVars, r_pc, read_pos, end_pos, bounce, start, got>>
    BY <1>7 DEF NextIncomplete
  <2>2. FileInv'  BY <2>1 DEF FileInv, fileVars, writerVars
  <2> QED  BY <2>1, <2>2 DEF PassInv, GotInv, Complete, Straddles, End, Crosses
<1>8. CASE UNCHANGED vars
  <2>1. FileInv'  BY <1>8 DEF vars, FileInv, fileVars, writerVars
  <2> QED
    BY <1>8, <2>1 DEF vars, readerVars, PassInv, GotInv, Complete, Straddles, End, Crosses
<1> QED  BY <1>1, <1>2, <1>3, <1>4, <1>5, <1>6, <1>7, <1>8 DEF Next

\* Two entries that went through the bounce buffer would each hold an end of the
\* ring, a whole turn apart, in a pass that covers one turn.
LEMMA OneCrossing == IInv => BounceOnce
<1> USE LogAssumption
<1>1. ASSUME IInv, NEW i \in 1 .. Len(got), NEW j \in 1 .. Len(got),
             got[i].bounced, got[j].bounced, i < j
      PROVE  FALSE
  <2>1. PICK m \in Nat : /\ got[i].pos + HeaderSize < BufSize * m
                         /\ BufSize * m < End(got[i])
    BY <1>1 DEF IInv, GotInv, Crosses
  <2>2. PICK n \in Nat : /\ got[j].pos + HeaderSize < BufSize * n
                         /\ BufSize * n < End(got[j])
    BY <1>1 DEF IInv, GotInv, Crosses
  <2>3. End(got[i]) <= got[j].pos /\ start <= got[i].pos /\ End(got[j]) <= read_pos
    BY <1>1 DEF IInv, GotInv
  <2>4. got[i] \in Entry /\ got[j] \in Entry
    BY <1>1, SeqElement DEF IInv, GotInv
  <2>5. /\ got[i].pos \in Nat /\ got[j].pos \in Nat
        /\ End(got[i]) \in Nat /\ End(got[j]) \in Nat
    BY <2>4 DEF Entry, End
  <2>6. BufSize * m \in Nat /\ BufSize * n \in Nat  OBVIOUS
  <2>7. BufSize * m < BufSize * n  BY <2>1, <2>2, <2>3, <2>5, <2>6
  <2>8. m < n
    <3>1. n < m => BufSize * n + BufSize <= BufSize * m  BY Turns
    <3> QED  BY <2>6, <2>7, <3>1
  <2>9. BufSize * m + BufSize <= BufSize * n  BY <2>8, Turns
  <2>10. start \in Nat /\ read_pos \in Nat /\ end_pos \in Nat
         /\ read_pos <= end_pos /\ end_pos - start <= BufSize
    BY <1>1 DEF IInv, PassInv
  <2>11. start < BufSize * m  BY <2>1, <2>3, <2>5, <2>6, <2>10
  <2>12. BufSize * n < start + BufSize  BY <2>2, <2>3, <2>5, <2>6, <2>10
  <2> QED
    <3> DEFINE x == BufSize * m
               y == BufSize * n
    <3>1. x \in Nat /\ y \in Nat /\ start < x /\ y < start + BufSize /\ x + BufSize <= y
      BY <2>6, <2>9, <2>11, <2>12
    <3> HIDE DEF x, y
    <3> QED  BY <3>1, <2>10
<1>2. ASSUME IInv, NEW i \in DOMAIN got, NEW j \in DOMAIN got,
             got[i].bounced, got[j].bounced
      PROVE  i = j
  <2>1. DOMAIN got = 1 .. Len(got) /\ Len(got) \in Nat
    BY <1>2, SeqElement DEF IInv, GotInv
  <2>2. ~(i < j) /\ ~(j < i)  BY <1>1, <1>2, <2>1
  <2> QED  BY <2>1, <2>2
<1> QED  BY <1>2 DEF BounceOnce

-----------------------------------------------------------------------------
(* Which record each place of the ring holds *)

Recs    == {k \in DOMAIN log : log[k].file = files}
Size(k) == HeaderSize + log[k].len
Stop(k) == log[k].pos + Size(k)

\* Everything below this position has been stored.
Stored == write_pos + copied

\* The records of the file lie one after another, the last one up to write_pos, or from
\* write_pos on while it is not published.
ChainInv ==
    /\ \A k \in DOMAIN log : log[k].file <= files
    /\ \A j, k \in DOMAIN log :
          (j < k /\ j \in Recs) => k \in Recs /\ Stop(j) <= log[k].pos
    /\ \A k \in Recs : k < Len(log) => Stop(k) = log[k + 1].pos
    /\ Len(log) \in Recs =>
          \/ /\ log[Len(log)].pos = write_pos /\ copied <= Size(Len(log))
             /\ w_pc # "idle"
          \/ Stop(Len(log)) = write_pos /\ copied = 0 /\ w_pc # "copy"
    /\ w_pc = "copy" => Len(log) \in Recs
    /\ w_pc = "idle" => copied = 0

\* The last BufSize bytes stored are where they belong.
ContentInv ==
    \A k \in Recs : \A i \in 0 .. Size(k) - 1 :
        LET x == log[k].pos + i IN
        (x < Stored /\ Stored <= x + BufSize) => buf[x % BufSize] = <<k, i>>

\* A snapshot ends where a record ends.
SnapshotInv ==
    (r_pc # "closed" /\ ~torn) =>
        /\ end_pos <= write_pos
        /\ \A k \in Recs : log[k].pos < end_pos => Stop(k) <= end_pos

\* The entries are consecutive records, and the reader stands before the next.
ReadInv ==
    Sound =>
        /\ ~stuck
        /\ read_pos = end_pos \/ \E k \in Due : log[k].pos = read_pos
        /\ got = <<>> => read_pos = start
        /\ got # <<>> => /\ got[1].pos = start
                         /\ Stop(got[Len(got)].id) = read_pos
        /\ \A i \in DOMAIN got :
              /\ got[i].id \in Due
              /\ log[got[i].id].pos = got[i].pos /\ log[got[i].id].len = got[i].len
              /\ got[i].id = got[1].id + i - 1
              /\ (got[i].bounced /\ r_pc = "idle") =>
                    bounce = Bytes(got[i].id, HeaderSize, got[i].len)
        /\ r_pc = "copy" =>
              \E k \in Due : log[k].pos = read_pos /\ log[k].len = Len(bounce)

RecordInv == ChainInv /\ ContentInv /\ SnapshotInv /\ ReadInv

\* Positions less than a turn apart are different places.
LEMMA Apart ==
    ASSUME NEW x \in Nat, NEW y \in Nat, x < y, y < x + BufSize
    PROVE  x % BufSize # y % BufSize
<1> DEFINE q == x \div BufSize
           p == y \div BufSize
           r == x % BufSize
           s == y % BufSize
<1>1. q \in Nat /\ r \in 0 .. BufSize - 1 /\ x = BufSize * q + r  BY LogAssumption, DivMod
<1>2. p \in Nat /\ s \in 0 .. BufSize - 1 /\ y = BufSize * p + s  BY LogAssumption, DivMod
<1> HIDE DEF q, p, r, s
<1>3. /\ q < p => BufSize * q + BufSize <= BufSize * p
      /\ p < q => BufSize * p + BufSize <= BufSize * q
      /\ p = q => BufSize * p = BufSize * q
  BY <1>1, <1>2, LogAssumption, Turns
<1> DEFINE u == BufSize * q
           v == BufSize * p
<1>4. u \in Nat /\ v \in Nat  BY <1>1, <1>2, LogAssumption
<1>5. /\ x = u + r /\ y = v + s
      /\ q < p => u + BufSize <= v
      /\ p < q => v + BufSize <= u
      /\ p = q => v = u
  BY <1>1, <1>2, <1>3
<1> HIDE DEF u, v
<1>6. r # s  BY <1>1, <1>2, <1>4, <1>5, LogAssumption
<1> QED  BY <1>6 DEF r, s

LEMMA LogFacts ==
    ASSUME FileInv
    PROVE  /\ Len(log) \in Nat /\ DOMAIN log = 1 .. Len(log) /\ Recs \subseteq DOMAIN log
           /\ write_pos \in Nat /\ copied \in Nat /\ Stored \in Nat /\ files \in Nat
           /\ \A k \in DOMAIN log :
                 /\ log[k].file \in Nat /\ log[k].pos \in Nat /\ log[k].len \in Nat
                 /\ Size(k) \in Nat /\ Size(k) >= 1 /\ Stop(k) \in Nat
                 /\ Stop(k) = log[k].pos + Size(k)
<1>1. /\ Len(log) \in Nat /\ DOMAIN log = 1 .. Len(log)
      /\ \A k \in DOMAIN log : log[k] \in LogRec
  BY SeqElement DEF FileInv
<1>2. \A k \in DOMAIN log :
         log[k].file \in Nat /\ log[k].pos \in Nat /\ log[k].len \in Nat
  BY <1>1 DEF LogRec
<1>3. \A k \in DOMAIN log : Size(k) \in Nat /\ Size(k) >= 1
  BY <1>2, LogAssumption DEF Size
<1>4. \A k \in DOMAIN log : Stop(k) \in Nat /\ Stop(k) = log[k].pos + Size(k)
  BY <1>2, <1>3 DEF Stop
<1>5. write_pos \in Nat /\ copied \in Nat /\ Stored \in Nat /\ files \in Nat
  BY DEF FileInv, Stored
<1> QED  BY <1>1, <1>2, <1>3, <1>4, <1>5 DEF Recs

\* Every record of the file but an unpublished last one ends by write_pos.
LEMMA Published ==
    ASSUME FileInv, ChainInv, NEW k \in Recs
    PROVE  /\ log[k].pos <= write_pos
           /\ Stop(k) <= write_pos \/ (k = Len(log) /\ log[k].pos = write_pos)
           /\ k = Len(log) /\ log[k].pos < write_pos => Stop(k) = write_pos
<1>1. /\ Len(log) \in Nat /\ DOMAIN log = 1 .. Len(log) /\ k \in DOMAIN log
      /\ write_pos \in Nat
      /\ \A j \in DOMAIN log :
            /\ log[j].pos \in Nat /\ Size(j) \in Nat /\ Size(j) >= 1
            /\ Stop(j) \in Nat /\ Stop(j) = log[j].pos + Size(j)
  BY LogFacts
<1>2. CASE k = Len(log)  BY <1>1, <1>2 DEF ChainInv
<1>3. CASE k # Len(log)
  <2>1. Len(log) \in DOMAIN log /\ k < Len(log)  BY <1>1, <1>3
  <2>2. Len(log) \in Recs /\ Stop(k) <= log[Len(log)].pos  BY <1>1, <2>1 DEF ChainInv
  <2>3. log[Len(log)].pos <= write_pos  BY <1>1, <2>1, <2>2 DEF ChainInv
  <2>4. /\ log[k].pos \in Nat /\ Stop(k) \in Nat /\ log[k].pos <= Stop(k)
        /\ log[Len(log)].pos \in Nat
    BY <1>1, <2>1
  <2>5. log[k].pos <= write_pos /\ Stop(k) <= write_pos
    BY <1>1, <2>2, <2>3, <2>4
  <2> QED  BY <1>3, <2>5
<1> QED  BY <1>2, <1>3

\* The log as WriteBegin leaves it.
LEMMA BeginLog ==
    ASSUME FileInv, NEW len \in Length, WriteBegin(len), NEW n, n = Len(log) + 1
    PROVE  /\ Len(log') = n /\ DOMAIN log' = 1 .. n /\ n \notin DOMAIN log
           /\ log'[n].file = files /\ log'[n].pos = write_pos /\ log'[n].len = len
           /\ \A k \in DOMAIN log : log'[k] = log[k] /\ Size(k)' = Size(k) /\ Stop(k)' = Stop(k)
           /\ Recs' = Recs \cup {n}
           /\ Size(n)' = HeaderSize + len /\ Stop(n)' = write_pos + (HeaderSize + len)
<1> DEFINE e == [file |-> files, pos |-> write_pos, len |-> len]
<1>1. Len(log) \in Nat /\ DOMAIN log = 1 .. Len(log)  BY LogFacts
<1>2. log' = Append(log, e) /\ log \in Seq(LogRec) /\ files' = files  BY DEF WriteBegin, FileInv
<1>3. Len(log') = n /\ DOMAIN log' = 1 .. n /\ log'[n] = e
  BY <1>1, <1>2
<1>4. \A k \in DOMAIN log : log'[k] = log[k]  BY <1>1, <1>2
<1>5. e.file = files /\ e.pos = write_pos /\ e.len = len  OBVIOUS
<1> HIDE DEF e
<1>6. \A k \in DOMAIN log : Size(k)' = Size(k) /\ Stop(k)' = Stop(k)
  BY <1>4 DEF Size, Stop
<1>7. n \notin DOMAIN log /\ DOMAIN log' = DOMAIN log \cup {n}  BY <1>1, <1>3
<1>8. Recs' = Recs \cup {n}  BY <1>2, <1>3, <1>4, <1>5, <1>7 DEF Recs
<1>9. Size(n)' = HeaderSize + len /\ Stop(n)' = write_pos + (HeaderSize + len)
  BY <1>3, <1>5 DEF Size, Stop
<1> QED  BY <1>1, <1>3, <1>4, <1>5, <1>6, <1>7, <1>8, <1>9

\* What depends on the log alone.
LEMMA SameLog ==
    ASSUME UNCHANGED <<log, files>>
    PROVE  Recs' = Recs /\ \A k : Size(k)' = Size(k) /\ Stop(k)' = Stop(k)
  BY DEF Recs, Size, Stop

\* A record is begun where the one before it ended.
LEMMA ChainBegin ==
    ASSUME FileInv, ChainInv, NEW len \in Length, WriteBegin(len)
    PROVE  ChainInv'
<1>1. PICK n : n = Len(log) + 1  OBVIOUS
<1>2. /\ Len(log') = n /\ DOMAIN log' = 1 .. n /\ n \notin DOMAIN log
      /\ log'[n].file = files /\ log'[n].pos = write_pos
      /\ \A k \in DOMAIN log : log'[k] = log[k] /\ Size(k)' = Size(k) /\ Stop(k)' = Stop(k)
      /\ Recs' = Recs \cup {n}
      /\ Size(n)' = HeaderSize + len
  BY <1>1, BeginLog
<1>3. /\ Len(log) \in Nat /\ DOMAIN log = 1 .. Len(log) /\ Recs \subseteq DOMAIN log
      /\ write_pos \in Nat /\ files \in Nat
  BY LogFacts
<1>4. /\ w_pc = "idle" /\ w_pc' = "copy" /\ copied' = 0
      /\ files' = files /\ write_pos' = write_pos
  BY DEF WriteBegin, fileVars
<1>5. \A k \in Recs : Stop(k) <= write_pos
  <2> SUFFICES ASSUME NEW k \in Recs PROVE Stop(k) <= write_pos
    OBVIOUS
  <2>1. CASE k = Len(log)
    <3>1. Stop(k) = write_pos  BY <1>4, <2>1 DEF ChainInv
    <3> QED  BY <1>3, <3>1
  <2>2. CASE k # Len(log)  BY <2>2, Published
  <2> QED  BY <2>1, <2>2
<1>6. \A k \in DOMAIN log' : k \in DOMAIN log \/ k = n  BY <1>1, <1>2, <1>3
<1>7. \A k \in DOMAIN log' : log'[k].file <= files'
  BY <1>2, <1>3, <1>4, <1>6 DEF ChainInv
<1>8. ASSUME NEW j \in DOMAIN log', NEW k \in DOMAIN log', j < k, j \in Recs'
      PROVE  k \in Recs' /\ Stop(j)' <= log'[k].pos
  <2>1. j \in DOMAIN log /\ j \in Recs  BY <1>1, <1>2, <1>3, <1>8
  <2>2. CASE k = n  BY <1>2, <1>5, <2>1, <2>2
  <2>3. CASE k \in DOMAIN log  BY <1>2, <1>8, <2>1, <2>3 DEF ChainInv
  <2> QED  BY <1>6, <2>2, <2>3
<1>9. ASSUME NEW k \in Recs', k < Len(log') PROVE Stop(k)' = log'[k + 1].pos
  <2>1. k \in Recs /\ k \in DOMAIN log  BY <1>1, <1>2, <1>3, <1>9
  <2>2. CASE k = Len(log)
    <3>1. Stop(k) = write_pos  BY <1>4, <2>1, <2>2 DEF ChainInv
    <3> QED  BY <1>1, <1>2, <2>1, <2>2, <3>1
  <2>3. CASE k # Len(log)
    <3>1. k < Len(log) /\ k + 1 \in DOMAIN log  BY <1>3, <2>1, <2>3
    <3> QED  BY <1>2, <2>1, <3>1 DEF ChainInv
  <2> QED  BY <2>2, <2>3
<1>10. /\ Len(log') \in Recs' /\ log'[Len(log')].pos = write_pos'
       /\ copied' <= Size(n)'
  BY <1>1, <1>2, <1>4, LogAssumption
<1>11. Size(Len(log))' = Size(n)'  BY <1>2 DEF Size
<1> QED  BY <1>4, <1>7, <1>8, <1>9, <1>10, <1>11 DEF ChainInv

\* The other steps of the writer.
LEMMA ChainStep ==
    ASSUME FileInv, ChainInv, ring_write \/ WritePublish \/ WriterDies \/ Reopen
    PROVE  ChainInv'
<1>1. /\ Len(log) \in Nat /\ DOMAIN log = 1 .. Len(log) /\ Recs \subseteq DOMAIN log
      /\ write_pos \in Nat /\ copied \in Nat /\ files \in Nat
      /\ \A k \in DOMAIN log :
            /\ log[k].file \in Nat /\ log[k].pos \in Nat
            /\ Size(k) \in Nat /\ Size(k) >= 1 /\ Stop(k) = log[k].pos + Size(k)
  BY LogFacts
<1>2. w_pc = "copy" => /\ Len(log) \in Recs /\ log[Len(log)].pos = write_pos
                       /\ copied <= Size(Len(log)) /\ RecordSize = Size(Len(log))
  BY DEF ChainInv, RecordSize, Size
<1>3. CASE ring_write
  <2>1. /\ UNCHANGED <<write_pos, w_pc, files, log>> /\ w_pc = "copy"
        /\ copied < RecordSize /\ copied' = copied + 1
    BY <1>3 DEF ring_write
  <2>2. Recs' = Recs /\ \A k : Size(k)' = Size(k) /\ Stop(k)' = Stop(k)  BY <2>1, SameLog
  <2>3. copied' <= Size(Len(log))  BY <1>1, <1>2, <2>1
  <2>4. Size(Len(log))' = Size(Len(log)) /\ Stop(Len(log))' = Stop(Len(log))
    BY <2>1 DEF Size, Stop
  <2> QED  BY <1>2, <2>1, <2>2, <2>3, <2>4 DEF ChainInv
<1>4. CASE WritePublish
  <2>1. /\ UNCHANGED <<files, log>> /\ w_pc = "copy" /\ w_pc' = "idle"
        /\ write_pos' = write_pos + RecordSize /\ copied' = 0
    BY <1>4 DEF WritePublish
  <2>2. Recs' = Recs /\ \A k : Size(k)' = Size(k) /\ Stop(k)' = Stop(k)  BY <2>1, SameLog
  <2>3. Stop(Len(log)) = write_pos'  BY <1>1, <1>2, <2>1
  <2>4. Size(Len(log))' = Size(Len(log)) /\ Stop(Len(log))' = Stop(Len(log))
    BY <2>1 DEF Size, Stop
  <2> QED  BY <1>2, <2>1, <2>2, <2>3, <2>4 DEF ChainInv
<1>5. CASE WriterDies
  <2>1. UNCHANGED <<files, log, write_pos, copied>> /\ w_pc' = "dead"
    BY <1>5 DEF WriterDies, fileVars
  <2>2. Recs' = Recs /\ \A k : Size(k)' = Size(k) /\ Stop(k)' = Stop(k)  BY <2>1, SameLog
  <2>3. Size(Len(log))' = Size(Len(log)) /\ Stop(Len(log))' = Stop(Len(log))
    BY <2>1 DEF Size, Stop
  <2> QED  BY <2>1, <2>2, <2>3 DEF ChainInv
<1>6. CASE Reopen
  <2>1. log' = log /\ files' = files + 1 /\ w_pc' = "idle" /\ copied' = 0
    BY <1>6 DEF Reopen
  <2>2. \A k \in DOMAIN log : log[k].file <= files  BY DEF ChainInv
  <2>3. Recs' = {}  BY <1>1, <2>1, <2>2 DEF Recs
  <2>4. \A k \in DOMAIN log' : log'[k].file <= files'  BY <1>1, <2>1, <2>2
  <2> QED  BY <2>1, <2>3, <2>4 DEF ChainInv
<1> QED  BY <1>3, <1>4, <1>5, <1>6

\* The bytes of earlier records are overwritten in the order in which they were stored.
LEMMA ContentStep ==
    ASSUME FileInv, ChainInv, ContentInv,
           \/ \E len \in Length : WriteBegin(len)
           \/ ring_write \/ WritePublish \/ WriterDies \/ Reopen
    PROVE  ContentInv'
<1>1. /\ Len(log) \in Nat /\ DOMAIN log = 1 .. Len(log) /\ Recs \subseteq DOMAIN log
      /\ write_pos \in Nat /\ copied \in Nat /\ files \in Nat /\ Stored \in Nat
      /\ \A k \in DOMAIN log :
            /\ log[k].file \in Nat /\ log[k].pos \in Nat
            /\ Size(k) \in Nat /\ Size(k) >= 1
            /\ Stop(k) \in Nat /\ Stop(k) = log[k].pos + Size(k)
  BY LogFacts
<1>2. w_pc = "copy" => /\ Len(log) \in Recs /\ log[Len(log)].pos = write_pos
                       /\ copied <= Size(Len(log)) /\ RecordSize = Size(Len(log))
  BY DEF ChainInv, RecordSize, Size
<1>3. ASSUME NEW len \in Length, WriteBegin(len) PROVE ContentInv'
  <2>1. PICK n : n = Len(log) + 1  OBVIOUS
  <2>2. /\ n \notin DOMAIN log /\ log'[n].pos = write_pos
        /\ \A k \in DOMAIN log : log'[k] = log[k] /\ Size(k)' = Size(k)
        /\ Recs' = Recs \cup {n}
    BY <1>3, <2>1, BeginLog
  <2>3. buf' = buf /\ Stored' = write_pos /\ Stored = write_pos
    BY <1>1, <1>3 DEF WriteBegin, fileVars, Stored, ChainInv
  <2>4. ASSUME NEW k \in Recs', NEW i \in 0 .. Size(k)' - 1,
               log'[k].pos + i < Stored'
        PROVE  k \in Recs /\ log'[k] = log[k] /\ i \in 0 .. Size(k) - 1
    <3>1. k # n
      <4> SUFFICES ASSUME k = n PROVE FALSE
        OBVIOUS
      <4>1. write_pos + i < write_pos  BY <2>2, <2>3, <2>4
      <4>2. i \in Nat
        <5>1. Size(n)' = HeaderSize + len  BY <1>3, <2>1, BeginLog
        <5> QED  BY <5>1, LogAssumption
      <4> QED  BY <1>1, <4>1, <4>2
    <3> QED  BY <1>1, <2>2, <3>1
  <2> QED  BY <2>3, <2>4 DEF ContentInv
<1>4. CASE ring_write
  <2>1. /\ UNCHANGED <<write_pos, w_pc, files, log>> /\ w_pc = "copy"
        /\ copied < RecordSize /\ copied' = copied + 1
        /\ buf' = [buf EXCEPT ![Stored % BufSize] = <<Len(log), copied>>]
    BY <1>4 DEF ring_write, Stored
  <2>2. Recs' = Recs /\ \A k : Size(k)' = Size(k) /\ Stop(k)' = Stop(k)  BY <2>1, SameLog
  <2>3. Stored' = Stored + 1 /\ Stored = write_pos + copied  BY <1>1, <2>1 DEF Stored
  <2>4. DOMAIN buf = Place /\ Stored % BufSize \in Place
    BY <1>1, DivMod, LogAssumption DEF FileInv, Place
  <2> SUFFICES ASSUME NEW k \in Recs, NEW i \in 0 .. Size(k) - 1, NEW x,
                      x = log[k].pos + i, x < Stored + 1, Stored + 1 <= x + BufSize
               PROVE  buf'[x % BufSize] = <<k, i>>
    BY <2>1, <2>2, <2>3 DEF ContentInv
  <2>5. k \in DOMAIN log /\ x \in Nat /\ i \in Nat /\ log[k].pos \in Nat /\ i < Size(k)
    BY <1>1
  <2>6. CASE x = Stored
    <3>1. k = Len(log)
      <4> SUFFICES ASSUME k # Len(log) PROVE FALSE
        OBVIOUS
      <4>1. Stop(k) <= write_pos  BY Published
      <4>2. x < Stop(k) /\ Stop(k) \in Nat  BY <1>1, <2>5
      <4> QED  BY <1>1, <2>3, <2>5, <2>6, <4>1, <4>2
    <3>2. i = copied  BY <1>1, <1>2, <2>1, <2>3, <2>5, <2>6, <3>1
    <3> QED  BY <2>1, <2>4, <2>6, <3>1, <3>2
  <2>7. CASE x # Stored
    <3>0. Stored \in Nat /\ x \in Nat /\ BufSize \in Nat  BY <1>1, <2>5, LogAssumption
    <3>1. x < Stored /\ Stored <= x + BufSize /\ Stored < x + BufSize
      BY <2>7, <3>0
    <3>2. buf[x % BufSize] = <<k, i>>  BY <3>1 DEF ContentInv
    <3>3. x % BufSize # Stored % BufSize  BY <1>1, <2>5, <3>1, Apart
    <3>4. x % BufSize \in Place  BY <2>5, DivMod, LogAssumption DEF Place
    <3> QED  BY <2>1, <2>4, <3>2, <3>3, <3>4
  <2> QED  BY <2>6, <2>7
<1>5. CASE WritePublish
  <2>1. /\ UNCHANGED <<files, log, buf>> /\ w_pc = "copy" /\ copied = RecordSize
        /\ write_pos' = write_pos + RecordSize /\ copied' = 0
    BY <1>5 DEF WritePublish
  <2>2. Recs' = Recs /\ \A k : Size(k)' = Size(k) /\ Stop(k)' = Stop(k)  BY <2>1, SameLog
  <2>3. Stored' = Stored  BY <1>1, <1>2, <2>1 DEF Stored
  <2> QED  BY <2>1, <2>2, <2>3 DEF ContentInv
<1>6. CASE WriterDies
  <2>1. UNCHANGED <<files, log, buf, write_pos, copied>>
    BY <1>6 DEF WriterDies, fileVars
  <2>2. Recs' = Recs /\ \A k : Size(k)' = Size(k) /\ Stop(k)' = Stop(k)  BY <2>1, SameLog
  <2>3. Stored' = Stored  BY <2>1 DEF Stored
  <2> QED  BY <2>1, <2>2, <2>3 DEF ContentInv
<1>7. CASE Reopen
  <2>1. log' = log /\ files' = files + 1  BY <1>7 DEF Reopen
  <2>2. \A k \in DOMAIN log : log[k].file <= files  BY DEF ChainInv
  <2>3. Recs' = {}  BY <1>1, <2>1, <2>2 DEF Recs
  <2> QED  BY <2>3 DEF ContentInv
<1> QED  BY <1>3, <1>4, <1>5, <1>6, <1>7

-----------------------------------------------------------------------------
(* What the reader finds *)

\* A record that is stored and not overrun can be read back, any part of it.
LEMMA RecordBytes ==
    ASSUME FileInv, ContentInv, NEW k \in Recs,
           Stop(k) <= Stored, Stored <= log[k].pos + BufSize,
           NEW a \in Nat, NEW n \in Nat, a + n <= Size(k)
    PROVE  RingBytes(log[k].pos + a, n) = Bytes(k, a, n)
<1>1. k \in DOMAIN log  BY LogFacts
<1>2. /\ log[k].pos \in Nat /\ Stored \in Nat /\ Size(k) \in Nat
      /\ Stop(k) = log[k].pos + Size(k) /\ BufSize \in Nat
  BY <1>1, LogFacts, LogAssumption
<1>3. ASSUME NEW j \in 1 .. n
      PROVE  buf[(log[k].pos + a + j - 1) % BufSize] = <<k, a + j - 1>>
  <2>1. PICK i : i = a + j - 1  OBVIOUS
  <2>2. i \in 0 .. Size(k) - 1  BY <1>2, <2>1
  <2>3. log[k].pos + i < Stored /\ Stored <= (log[k].pos + i) + BufSize
    BY <1>2, <2>2
  <2>4. buf[(log[k].pos + i) % BufSize] = <<k, i>>  BY <2>2, <2>3 DEF ContentInv
  <2>5. log[k].pos + a + j - 1 = log[k].pos + i  BY <1>2, <2>1
  <2> QED  BY <2>1, <2>4, <2>5
<1> QED  BY <1>3 DEF RingBytes, Bytes

\* The reader stands before record k and the writer has not come round to it.
LEMMA AtRecord ==
    ASSUME IInv, ContentInv, SnapshotInv, r_pc # "closed", ~torn,
           NEW k \in Due, log[k].pos = read_pos, ~Overrun(read_pos)
    PROVE  /\ k \in Recs /\ Stop(k) <= end_pos
           /\ ReadLength(RingBytes(read_pos, HeaderSize)) = {log[k].len}
           /\ buf[read_pos % BufSize][1] = k
           /\ RingBytes(read_pos + HeaderSize, log[k].len) = Bytes(k, HeaderSize, log[k].len)
<1>0. FileInv /\ end_pos \in Nat /\ read_pos \in Nat  BY DEF IInv, PassInv
<1>1. k \in DOMAIN log /\ k \in Recs /\ log[k].pos < end_pos  BY DEF Due, Recs
<1>2. /\ log[k].len \in Nat /\ Size(k) = HeaderSize + log[k].len
      /\ Stop(k) \in Nat /\ write_pos \in Nat /\ copied \in Nat /\ Stored = write_pos + copied
      /\ k # 0 /\ HeaderSize \in Nat \ {0} /\ BufSize \in Nat
  BY <1>0, <1>1, LogFacts, LogAssumption DEF Size, Stored
<1>3. end_pos <= write_pos /\ Stop(k) <= end_pos  BY <1>1 DEF SnapshotInv
<1>4. Stop(k) <= Stored /\ Stored <= log[k].pos + BufSize
  BY <1>0, <1>2, <1>3 DEF Overrun
<1>5. RingBytes(read_pos + 0, HeaderSize) = Bytes(k, 0, HeaderSize)
  BY <1>0, <1>1, <1>2, <1>4, RecordBytes
<1>6. RingBytes(read_pos + HeaderSize, log[k].len) = Bytes(k, HeaderSize, log[k].len)
  BY <1>0, <1>1, <1>2, <1>4, RecordBytes
<1>7. read_pos + 0 = read_pos /\ read_pos + 1 - 1 = read_pos  BY <1>0
<1>8. Bytes(k, 0, HeaderSize)[1] = <<k, 0>>
  BY <1>2 DEF Bytes
<1>9. RingBytes(read_pos, HeaderSize)[1] = buf[read_pos % BufSize]
  BY <1>2, <1>7 DEF RingBytes
<1>10. buf[read_pos % BufSize] = <<k, 0>>  BY <1>5, <1>7, <1>8, <1>9
<1>11. ReadLength(Bytes(k, 0, HeaderSize)) = {log[k].len}
  BY <1>2, <1>8 DEF ReadLength
<1>12. ReadLength(RingBytes(read_pos, HeaderSize)) = {log[k].len}
  BY <1>5, <1>7, <1>11
<1> QED  BY <1>1, <1>3, <1>6, <1>10, <1>12

\* The record that begins where record g ends is g + 1.
LEMMA Successor ==
    ASSUME FileInv, ChainInv, NEW g \in Recs, NEW k \in Recs, log[k].pos = Stop(g)
    PROVE  k = g + 1
<1>1. /\ g \in DOMAIN log /\ k \in DOMAIN log /\ DOMAIN log = 1 .. Len(log) /\ Len(log) \in Nat
      /\ \A j \in DOMAIN log :
            /\ log[j].pos \in Nat /\ Size(j) \in Nat /\ Size(j) >= 1
            /\ Stop(j) \in Nat /\ Stop(j) = log[j].pos + Size(j)
  BY LogFacts
<1>2. \A i, j \in DOMAIN log : (i < j /\ i \in Recs) => j \in Recs /\ Stop(i) <= log[j].pos
  BY DEF ChainInv
<1>3. ~(k < g) /\ k # g
  <2>1. k < g => Stop(k) <= log[g].pos  BY <1>1, <1>2
  <2>2. Stop(k) = log[k].pos + Size(k) /\ Stop(g) = log[g].pos + Size(g)  BY <1>1
  <2>3. /\ log[k].pos \in Nat /\ log[g].pos \in Nat /\ Size(k) \in Nat /\ Size(g) \in Nat
        /\ Size(k) >= 1 /\ Size(g) >= 1
    BY <1>1
  <2> QED  BY <2>1, <2>2, <2>3
<1>4. ~(g + 1 < k)
  <2> SUFFICES ASSUME g + 1 < k PROVE FALSE
    OBVIOUS
  <2>1. g + 1 \in DOMAIN log /\ g < g + 1  BY <1>1
  <2>2. g + 1 \in Recs /\ Stop(g) <= log[g + 1].pos  BY <1>1, <1>2, <2>1
  <2>3. Stop(g + 1) <= log[k].pos  BY <1>1, <1>2, <2>1, <2>2
  <2>4. /\ Stop(g + 1) = log[g + 1].pos + Size(g + 1) /\ Size(g + 1) >= 1
        /\ log[g + 1].pos \in Nat /\ Size(g + 1) \in Nat /\ log[k].pos \in Nat
    BY <1>1, <2>1
  <2> QED  BY <2>2, <2>3, <2>4
<1> QED  BY <1>1, <1>3, <1>4

\* After record k, the snapshot is over or the next record begins.
LEMMA NextDue ==
    ASSUME IInv, ChainInv, SnapshotInv, r_pc # "closed", ~torn, NEW k \in Due
    PROVE  Stop(k) = end_pos \/ \E j \in Due : log[j].pos = Stop(k)
<1>0. FileInv /\ end_pos \in Nat /\ start \in Nat  BY DEF IInv, PassInv
<1>1. k \in DOMAIN log /\ k \in Recs /\ log[k].pos < end_pos /\ log[k].pos >= start
  BY DEF Due, Recs
<1>2. /\ DOMAIN log = 1 .. Len(log) /\ Len(log) \in Nat /\ write_pos \in Nat
      /\ log[k].pos \in Nat /\ Size(k) \in Nat /\ Stop(k) \in Nat /\ Stop(k) = log[k].pos + Size(k)
  BY <1>0, <1>1, LogFacts
<1>3. end_pos <= write_pos /\ Stop(k) <= end_pos  BY <1>1 DEF SnapshotInv
<1>4. CASE k = Len(log)
  <2>1. Stop(k) = write_pos  BY <1>0, <1>1, <1>2, <1>3, <1>4, Published
  <2> QED  BY <1>0, <1>2, <1>3, <2>1
<1>5. CASE k # Len(log)
  <2>1. k + 1 \in DOMAIN log /\ k < k + 1 /\ k < Len(log)  BY <1>1, <1>2, <1>5
  <2>2. k + 1 \in Recs /\ Stop(k) = log[k + 1].pos  BY <1>1, <2>1 DEF ChainInv
  <2>3. Stop(k) # end_pos => k + 1 \in Due
    BY <1>0, <1>1, <1>2, <1>3, <2>1, <2>2 DEF Due, Recs
  <2> QED  BY <2>2, <2>3
<1> QED  BY <1>4, <1>5

\* One more entry, for the record the reader stands before.
LEMMA ReturnRead ==
    ASSUME IInv, ChainInv, ContentInv, SnapshotInv, ReadInv, Sound,
           NEW k \in Due, log[k].pos = read_pos, buf[read_pos % BufSize][1] = k,
           NEW b \in BOOLEAN, Return(log[k].len, b), r_pc' = "idle",
           UNCHANGED <<log, files, start, end_pos, stuck>>,
           b => /\ bounce' = Bytes(k, HeaderSize, log[k].len)
                /\ \A i \in DOMAIN got : ~got[i].bounced,
           ~b => bounce' = bounce /\ r_pc = "idle"
    PROVE  ReadInv'
<1>0. /\ FileInv /\ GotInv /\ end_pos \in Nat /\ read_pos \in Nat
      /\ r_pc # "closed" /\ ~torn
  BY DEF IInv, PassInv, Sound
<1> DEFINE e == [id |-> k, pos |-> read_pos, len |-> log[k].len, bounced |-> b]
<1>1. PICK n : n = Len(got) + 1  OBVIOUS
<1>2. got \in Seq(Entry) /\ DOMAIN got = 1 .. Len(got) /\ Len(got) \in Nat
  BY <1>0, SeqElement DEF GotInv
<1>3. got' = Append(got, e) /\ read_pos' = read_pos + HeaderSize + log[k].len
  BY DEF Return
<1>4. e.id = k /\ e.pos = read_pos /\ e.len = log[k].len /\ e.bounced = b  OBVIOUS
<1> HIDE DEF e
<1>5. /\ Len(got') = n /\ DOMAIN got' = 1 .. n /\ got'[n] = e
      /\ \A i \in DOMAIN got : got'[i] = got[i]
  BY <1>1, <1>2, <1>3
<1>6. Due' = Due /\ \A j : Stop(j)' = Stop(j)  BY DEF Due, Stop, Size
<1>7. k \in Recs /\ k \in DOMAIN log  BY DEF Due, Recs
<1>8. read_pos' = Stop(k)
  <2>1. log[k].len \in Nat  BY <1>0, <1>7, LogFacts
  <2> QED  BY <1>0, <1>3, <2>1, LogAssumption DEF Stop, Size
<1>9. read_pos' = end_pos \/ \E j \in Due : log[j].pos = read_pos'
  BY <1>0, <1>8, NextDue
<1>10. /\ ~stuck
       /\ got = <<>> => read_pos = start
       /\ got # <<>> => got[1].pos = start /\ Stop(got[Len(got)].id) = read_pos
       /\ \A i \in DOMAIN got :
             /\ got[i].id \in Due
             /\ log[got[i].id].pos = got[i].pos /\ log[got[i].id].len = got[i].len
             /\ got[i].id = got[1].id + i - 1
             /\ (got[i].bounced /\ r_pc = "idle") =>
                   bounce = Bytes(got[i].id, HeaderSize, got[i].len)
  BY DEF ReadInv
<1>11. got'[1].pos = start /\ e.id = got'[1].id + n - 1
  <2>1. CASE got = <<>>
    <3>1. n = 1 /\ got'[1] = e  BY <1>1, <1>5, <2>1
    <3>2. k \in Nat  BY <1>0, <1>7, LogFacts
    <3> QED  BY <1>4, <1>10, <2>1, <3>1, <3>2
  <2>2. CASE got # <<>>
    <3>1. 1 \in DOMAIN got /\ Len(got) \in DOMAIN got  BY <1>2, <2>2
    <3>2. PICK g : g = got[Len(got)].id  OBVIOUS
    <3>3. g \in Due /\ g = got[1].id + Len(got) - 1 /\ Stop(g) = read_pos
      BY <1>10, <2>2, <3>1, <3>2
    <3>4. g \in Recs  BY <3>3 DEF Due, Recs
    <3>5. k = g + 1  BY <1>0, <1>7, <3>3, <3>4, Successor
    <3>6. got'[1] = got[1]  BY <1>5, <3>1
    <3>7. got[1].id \in Nat
      <4>1. got[1].id \in DOMAIN log  BY <1>10, <3>1 DEF Due
      <4> QED  BY <1>0, <4>1, LogFacts
    <3> QED  BY <1>1, <1>2, <1>4, <1>10, <2>2, <3>3, <3>5, <3>6, <3>7
  <2> QED  BY <2>1, <2>2
<1>12. ASSUME NEW i \in DOMAIN got'
       PROVE  /\ got'[i].id \in Due
              /\ log[got'[i].id].pos = got'[i].pos /\ log[got'[i].id].len = got'[i].len
              /\ got'[i].id = got'[1].id + i - 1
              /\ got'[i].bounced => bounce' = Bytes(got'[i].id, HeaderSize, got'[i].len)
  <2>1. CASE i = n
    <3>1. got'[i] = e  BY <1>5, <2>1
    <3> QED  BY <1>4, <1>11, <2>1, <3>1
  <2>2. CASE i # n
    <3>1. i \in DOMAIN got /\ 1 \in DOMAIN got  BY <1>1, <1>2, <1>5, <2>2
    <3>2. got'[i] = got[i] /\ got'[1] = got[1]  BY <1>5, <3>1
    <3>3. got[i].bounced => bounce' = Bytes(got[i].id, HeaderSize, got[i].len)
      BY <1>10, <3>1
    <3> QED  BY <1>10, <3>1, <3>2, <3>3
  <2> QED  BY <2>1, <2>2
<1>13. got' # <<>> /\ Stop(got[Len(got)].id)' = read_pos'
  <2>1. got'[Len(got')].id = k  BY <1>4, <1>5
  <2>2. Stop(got[Len(got)].id)' = Stop(k)
    BY <2>1 DEF Stop, Size
  <2>3. got' # <<>>  BY <1>2, <1>3
  <2> QED  BY <1>8, <2>2, <2>3
<1>14. log' = log /\ end_pos' = end_pos /\ start' = start /\ stuck' = stuck /\ r_pc' = "idle"
  OBVIOUS
<1> QED  BY <1>6, <1>9, <1>10, <1>11, <1>12, <1>13, <1>14 DEF ReadInv

-----------------------------------------------------------------------------
(* Steps *)

\* The writer never touches what an open pass relies on.
LEMMA ReadWriter ==
    ASSUME IInv, ChainInv, SnapshotInv, ReadInv,
           \/ \E len \in Length : WriteBegin(len)
           \/ ring_write \/ WritePublish \/ WriterDies
    PROVE  SnapshotInv' /\ ReadInv'
<1>0. FileInv /\ end_pos \in Nat  BY DEF IInv, PassInv
<1>1. /\ Len(log) \in Nat /\ DOMAIN log = 1 .. Len(log) /\ Recs \subseteq DOMAIN log
      /\ write_pos \in Nat
  BY <1>0, LogFacts
<1>2. /\ r_pc' = r_pc /\ read_pos' = read_pos /\ end_pos' = end_pos /\ bounce' = bounce
      /\ start' = start /\ got' = got /\ torn' = torn /\ stuck' = stuck /\ files' = files
  BY DEF WriteBegin, ring_write, WritePublish, WriterDies, readerVars
<1>3. write_pos' \in Nat /\ write_pos <= write_pos'
  <2>1. CASE WritePublish
    <3>1. Len(log) \in DOMAIN log  BY <1>1, <2>1 DEF WritePublish, ChainInv
    <3>2. log[Len(log)].len \in Nat  BY <1>0, <3>1, LogFacts
    <3> QED  BY <1>1, <2>1, <3>2, LogAssumption DEF WritePublish, RecordSize
  <2>2. CASE ~WritePublish
    <3>1. write_pos' = write_pos
      BY <2>2 DEF WriteBegin, ring_write, WriterDies, fileVars
    <3> QED  BY <1>1, <3>1
  <2> QED  BY <2>1, <2>2
<1>4. /\ \A k \in DOMAIN log : k \in DOMAIN log' /\ log'[k] = log[k] /\ Stop(k)' = Stop(k)
      /\ \A k \in Recs' : k \in Recs \/ log'[k].pos = write_pos
      /\ \A k \in DOMAIN log' : k \in DOMAIN log \/ log'[k].pos = write_pos
  <2>1. CASE \E len \in Length : WriteBegin(len)
    <3>1. PICK len \in Length : WriteBegin(len)  BY <2>1
    <3>2. PICK n : n = Len(log) + 1  OBVIOUS
    <3>3. /\ DOMAIN log' = 1 .. n /\ log'[n].pos = write_pos
          /\ \A k \in DOMAIN log : log'[k] = log[k] /\ Stop(k)' = Stop(k)
          /\ Recs' = Recs \cup {n}
      BY <1>0, <3>1, <3>2, BeginLog
    <3> QED  BY <1>1, <3>2, <3>3
  <2>2. CASE ~\E len \in Length : WriteBegin(len)
    <3>1. log' = log  BY <2>2 DEF ring_write, WritePublish, WriterDies
    <3>2. Recs' = Recs /\ \A k : Stop(k)' = Stop(k)  BY <1>2, <3>1, SameLog
    <3> QED  BY <3>1, <3>2
  <2> QED  BY <2>1, <2>2
<1>5. ASSUME r_pc # "closed", ~torn PROVE end_pos <= write_pos  BY <1>5 DEF SnapshotInv
<1>6. SnapshotInv'
  <2> SUFFICES ASSUME r_pc # "closed", ~torn
               PROVE  /\ end_pos <= write_pos'
                      /\ \A k \in Recs' : log'[k].pos < end_pos => Stop(k)' <= end_pos
    BY <1>2 DEF SnapshotInv
  <2>1. end_pos <= write_pos  BY <1>5
  <2>2. end_pos <= write_pos'  BY <1>0, <1>1, <1>3, <2>1
  <2>3. ASSUME NEW k \in Recs', log'[k].pos < end_pos PROVE Stop(k)' <= end_pos
    <3>1. k \in Recs  BY <1>0, <1>1, <1>4, <2>1, <2>3
    <3>2. log'[k] = log[k] /\ Stop(k)' = Stop(k)  BY <1>1, <1>4, <3>1
    <3> QED  BY <2>3, <3>1, <3>2 DEF SnapshotInv
  <2> QED  BY <2>2, <2>3
<1>7. ReadInv'
  <2> SUFFICES ASSUME Sound' PROVE ReadInv'
    BY DEF ReadInv
  <2>1. r_pc # "closed" /\ ~torn  BY <1>2 DEF Sound
  <2>2. end_pos <= write_pos  BY <1>5, <2>1
  <2>3. Due' = Due
    <3>1. \A k \in DOMAIN log' : log'[k].pos < end_pos => k \in DOMAIN log
      BY <1>0, <1>1, <1>4, <2>2
    <3> QED  BY <1>2, <1>4, <3>1 DEF Due
  <2>4. \A k \in Due : log'[k] = log[k] /\ Stop(k)' = Stop(k)  BY <1>4 DEF Due
  <2>5. Sound  BY <1>2, <2>3, <2>4 DEF Sound
  <2>6. got # <<>> => Stop(got[Len(got)].id)' = Stop(got[Len(got)].id)
    <3> SUFFICES ASSUME got # <<>> PROVE Stop(got[Len(got)].id)' = Stop(got[Len(got)].id)
      OBVIOUS
    <3>1. PICK g : g = got[Len(got)].id  OBVIOUS
    <3>2. Len(got) \in DOMAIN got  BY SeqElement DEF IInv, GotInv
    <3>3. g \in Due  BY <2>5, <3>1, <3>2 DEF ReadInv
    <3>4. log'[g] = log[g]  BY <2>4, <3>3
    <3>5. got'[Len(got')].id = g  BY <1>2, <3>1
    <3> QED  BY <3>1, <3>4, <3>5 DEF Stop, Size
  <2>7. /\ ~stuck
        /\ read_pos = end_pos \/ \E k \in Due : log[k].pos = read_pos
        /\ got = <<>> => read_pos = start
        /\ got # <<>> => got[1].pos = start /\ Stop(got[Len(got)].id) = read_pos
        /\ \A i \in DOMAIN got :
              /\ got[i].id \in Due
              /\ log[got[i].id].pos = got[i].pos /\ log[got[i].id].len = got[i].len
              /\ got[i].id = got[1].id + i - 1
              /\ (got[i].bounced /\ r_pc = "idle") =>
                    bounce = Bytes(got[i].id, HeaderSize, got[i].len)
        /\ r_pc = "copy" =>
              \E k \in Due : log[k].pos = read_pos /\ log[k].len = Len(bounce)
    BY <2>5 DEF ReadInv
  <2>8. \A i \in DOMAIN got :
          log'[got[i].id].pos = got[i].pos /\ log'[got[i].id].len = got[i].len
    BY <2>4, <2>7
  <2>9. read_pos = end_pos \/ \E k \in Due : log'[k].pos = read_pos  BY <2>4, <2>7
  <2>10. r_pc = "copy" => \E k \in Due : log'[k].pos = read_pos /\ log'[k].len = Len(bounce)
    BY <2>4, <2>7
  <2> QED  BY <1>2, <2>3, <2>6, <2>7, <2>8, <2>9, <2>10 DEF ReadInv
<1> QED  BY <1>6, <1>7

\* A reader's step leaves the file alone.
LEMMA ReaderFile ==
    ASSUME ChainInv, ContentInv, UNCHANGED <<fileVars, writerVars>>
    PROVE  ChainInv' /\ ContentInv' /\ Recs' = Recs /\ \A k : Stop(k)' = Stop(k)
<1>1. /\ log' = log /\ files' = files /\ buf' = buf /\ write_pos' = write_pos
      /\ copied' = copied /\ w_pc' = w_pc
  BY DEF fileVars, writerVars
<1>2. Recs' = Recs /\ \A k : Size(k)' = Size(k) /\ Stop(k)' = Stop(k)  BY <1>1, SameLog
<1>3. Size(Len(log))' = Size(Len(log)) /\ Stop(Len(log))' = Stop(Len(log))
  BY <1>1 DEF Size, Stop
<1>4. Stored' = Stored  BY <1>1 DEF Stored
<1>5. ChainInv'  BY <1>1, <1>2, <1>3 DEF ChainInv
<1>6. ContentInv'  BY <1>1, <1>2, <1>4 DEF ContentInv
<1> QED  BY <1>2, <1>5, <1>6

\* A pass that goes on is as sound as before.
LEMMA SamePass ==
    ASSUME UNCHANGED <<log, files, start, end_pos>>, r_pc # "closed",
           torn' = (torn \/ Overrun(read_pos)), Sound'
    PROVE  Sound /\ ~Overrun(read_pos) /\ Due' = Due
<1>1. Due' = Due  BY DEF Due
<1>2. ~torn' /\ (start' = end_pos' \/ \E k \in Due' : log'[k].pos = start')  BY DEF Sound
<1>3. ~torn /\ ~Overrun(read_pos)  BY <1>2, Zenon
<1> QED  BY <1>1, <1>2, <1>3 DEF Sound

LEMMA RecordInit == Init => RecordInv
<1> SUFFICES ASSUME Init PROVE RecordInv
  OBVIOUS
<1>1. log = <<>> /\ DOMAIN log = {} /\ w_pc = "idle" /\ copied = 0 /\ r_pc = "closed"
  BY DEF Init
<1>2. Recs = {}  BY <1>1 DEF Recs
<1>3. ChainInv /\ ContentInv  BY <1>1, <1>2 DEF ChainInv, ContentInv
<1>4. SnapshotInv /\ ReadInv  BY <1>1 DEF SnapshotInv, ReadInv, Sound
<1> QED  BY <1>3, <1>4 DEF RecordInv

\* Next steps: the reader goes on within its pass.
LEMMA SnapshotNext ==
    ASSUME SnapshotInv, Recs' = Recs, \A k : Stop(k)' = Stop(k), r_pc # "closed",
           UNCHANGED <<log, write_pos, end_pos>>, torn' = (torn \/ Overrun(read_pos))
    PROVE  SnapshotInv'
<1>1. ~torn' => ~torn  BY Zenon
<1> QED  BY <1>1 DEF SnapshotInv

LEMMA RecordStep == IInv /\ RecordInv /\ IInv' /\ [Next]_vars => RecordInv'
<1> SUFFICES ASSUME IInv, RecordInv, IInv', [Next]_vars PROVE RecordInv'
  OBVIOUS
<1>0. /\ ChainInv /\ ContentInv /\ SnapshotInv /\ ReadInv /\ FileInv
      /\ read_pos \in Nat /\ end_pos \in Nat /\ write_pos \in Nat
  BY DEF RecordInv, IInv, PassInv, FileInv
<1>1. CASE \/ \E len \in Length : WriteBegin(len)
           \/ ring_write \/ WritePublish \/ WriterDies
  <2>1. ChainInv'  BY <1>0, <1>1, ChainBegin, ChainStep
  <2>2. ContentInv'  BY <1>0, <1>1, ContentStep
  <2>3. SnapshotInv' /\ ReadInv'  BY <1>0, <1>1, ReadWriter
  <2> QED  BY <2>1, <2>2, <2>3 DEF RecordInv
<1>2. CASE Reopen
  <2>1. ChainInv' /\ ContentInv'  BY <1>0, <1>2, ChainStep, ContentStep
  <2>2. r_pc' = r_pc /\ torn' = (r_pc # "closed")  BY <1>2 DEF Reopen
  <2>3. ~(r_pc' # "closed" /\ ~torn')  BY <2>2, Zenon
  <2> QED  BY <2>1, <2>3 DEF RecordInv, SnapshotInv, ReadInv, Sound
<1>3. CASE Rewind
  <2>1. /\ UNCHANGED <<fileVars, writerVars>> /\ r_pc' = "idle" /\ end_pos' = write_pos
        /\ read_pos' = Oldest /\ start' = Oldest /\ got' = <<>> /\ stuck' = FALSE
    BY <1>3 DEF Rewind
  <2>2. ChainInv' /\ ContentInv' /\ Recs' = Recs /\ \A k : Stop(k)' = Stop(k)
    BY <1>0, <2>1, ReaderFile
  <2>3. log' = log /\ write_pos' = write_pos  BY <2>1 DEF fileVars, writerVars
  <2>4. SnapshotInv'
    <3>1. \A k \in Recs : log[k].pos < write_pos => Stop(k) <= write_pos
      <4> SUFFICES ASSUME NEW k \in Recs, log[k].pos < write_pos PROVE Stop(k) <= write_pos
        OBVIOUS
      <4>1. log[k].pos \in Nat  BY <1>0, LogFacts
      <4> QED  BY <1>0, <4>1, Published
    <3> QED  BY <1>0, <2>1, <2>2, <2>3, <3>1 DEF SnapshotInv
  <2>5. ReadInv'  BY <2>1 DEF ReadInv, Sound
  <2> QED  BY <2>2, <2>4, <2>5 DEF RecordInv
<1>4. CASE NextEntry
  <2>1. PICK len \in ReadLength(RingBytes(read_pos, HeaderSize)) :
            Complete(len) /\ ~Straddles(len) /\ Return(len, FALSE)
    BY <1>4 DEF NextEntry
  <2>2. /\ UNCHANGED <<fileVars, writerVars>> /\ r_pc' = r_pc /\ r_pc = "idle"
        /\ end_pos' = end_pos /\ bounce' = bounce /\ start' = start /\ stuck' = stuck
        /\ torn' = (torn \/ Overrun(read_pos)) /\ read_pos + HeaderSize <= end_pos
    BY <1>4 DEF NextEntry
  <2>3. ChainInv' /\ ContentInv' /\ Recs' = Recs /\ \A k : Stop(k)' = Stop(k)
    BY <1>0, <2>2, ReaderFile
  <2>4. log' = log /\ files' = files /\ write_pos' = write_pos
    BY <2>2 DEF fileVars, writerVars
  <2>5. SnapshotInv'  BY <1>0, <2>2, <2>3, <2>4, SnapshotNext
  <2>6. ReadInv'
    <3> SUFFICES ASSUME Sound' PROVE ReadInv'
      BY DEF ReadInv
    <3>1. Sound /\ ~Overrun(read_pos)  BY <2>2, <2>4, SamePass
    <3>2. PICK k \in Due : log[k].pos = read_pos
      <4>1. read_pos # end_pos  BY <1>0, <2>2, LogAssumption
      <4> QED  BY <1>0, <3>1, <4>1 DEF ReadInv
    <3>3. /\ ReadLength(RingBytes(read_pos, HeaderSize)) = {log[k].len}
          /\ buf[read_pos % BufSize][1] = k
      BY <1>0, <3>1, <3>2, AtRecord DEF Sound
    <3>4. Return(log[k].len, FALSE)  BY <2>1, <3>3
    <3>5. r_pc' = "idle" /\ FALSE \in BOOLEAN  BY <2>2
    <3> QED  BY <1>0, <2>2, <2>4, <3>1, <3>2, <3>3, <3>4, <3>5, ReturnRead
  <2> QED  BY <2>3, <2>5, <2>6 DEF RecordInv
<1>5. CASE NextStraddling
  <2>1. PICK len \in ReadLength(RingBytes(read_pos, HeaderSize)) :
            bounce' = [i \in 1 .. len |-> Zero]
    BY <1>5 DEF NextStraddling
  <2>2. /\ UNCHANGED <<fileVars, writerVars>> /\ r_pc = "idle" /\ r_pc' = "copy"
        /\ read_pos' = read_pos /\ end_pos' = end_pos /\ start' = start /\ got' = got
        /\ stuck' = stuck
        /\ torn' = (torn \/ Overrun(read_pos)) /\ read_pos + HeaderSize <= end_pos
    BY <1>5 DEF NextStraddling
  <2>3. ChainInv' /\ ContentInv' /\ Recs' = Recs /\ \A k : Stop(k)' = Stop(k)
    BY <1>0, <2>2, ReaderFile
  <2>4. log' = log /\ files' = files /\ write_pos' = write_pos
    BY <2>2 DEF fileVars, writerVars
  <2>5. SnapshotInv'  BY <1>0, <2>2, <2>3, <2>4, SnapshotNext
  <2>6. ReadInv'
    <3> SUFFICES ASSUME Sound' PROVE ReadInv'
      BY DEF ReadInv
    <3>1. Sound /\ ~Overrun(read_pos) /\ Due' = Due  BY <2>2, <2>4, SamePass
    <3>2. PICK k \in Due : log[k].pos = read_pos
      <4>1. read_pos # end_pos  BY <1>0, <2>2, LogAssumption
      <4> QED  BY <1>0, <3>1, <4>1 DEF ReadInv
    <3>3. ReadLength(RingBytes(read_pos, HeaderSize)) = {log[k].len}
      BY <1>0, <3>1, <3>2, AtRecord DEF Sound
    <3>4. len = log[k].len /\ len \in Nat
      <4>1. k \in DOMAIN log  BY DEF Due
      <4> QED  BY <1>0, <2>1, <3>3, <4>1, LogFacts
    <3>5. Len(bounce') = len
      <4>1. bounce' \in [1 .. len -> {Zero}]  BY <2>1
      <4> QED  BY <3>4, <4>1, FunIsSeq
    <3>6. Stop(got[Len(got)].id)' = Stop(got[Len(got)].id)
      BY <2>2, <2>4 DEF Stop, Size
    <3> QED  BY <1>0, <2>2, <2>4, <3>1, <3>2, <3>4, <3>5, <3>6 DEF ReadInv
  <2> QED  BY <2>3, <2>5, <2>6 DEF RecordInv
<1>6. CASE NextCopy
  <2>1. /\ UNCHANGED <<fileVars, writerVars>> /\ r_pc = "copy" /\ r_pc' = "idle"
        /\ bounce' = RingBytes(read_pos + HeaderSize, Len(bounce))
        /\ Return(Len(bounce), TRUE)
        /\ end_pos' = end_pos /\ start' = start /\ stuck' = stuck
        /\ torn' = (torn \/ Overrun(read_pos))
    BY <1>6 DEF NextCopy
  <2>2. ChainInv' /\ ContentInv' /\ Recs' = Recs /\ \A k : Stop(k)' = Stop(k)
    BY <1>0, <2>1, ReaderFile
  <2>3. log' = log /\ files' = files /\ write_pos' = write_pos
    BY <2>1 DEF fileVars, writerVars
  <2>4. SnapshotInv'  BY <1>0, <2>1, <2>2, <2>3, SnapshotNext
  <2>5. ReadInv'
    <3> SUFFICES ASSUME Sound' PROVE ReadInv'
      BY DEF ReadInv
    <3>1. Sound /\ ~Overrun(read_pos)  BY <2>1, <2>3, SamePass
    <3>2. PICK k \in Due : log[k].pos = read_pos /\ log[k].len = Len(bounce)
      BY <1>0, <2>1, <3>1 DEF ReadInv
    <3>3. /\ buf[read_pos % BufSize][1] = k
          /\ RingBytes(read_pos + HeaderSize, log[k].len) = Bytes(k, HeaderSize, log[k].len)
      BY <1>0, <3>1, <3>2, AtRecord DEF Sound
    <3>4. Return(log[k].len, TRUE) /\ bounce' = Bytes(k, HeaderSize, log[k].len)
      BY <2>1, <3>2, <3>3
    <3>5. \A i \in DOMAIN got : ~got[i].bounced
      <4> SUFFICES ASSUME NEW i \in DOMAIN got, got[i].bounced PROVE FALSE
        OBVIOUS
      <4>1. BounceOnce'  BY OneCrossing, PTL
      <4>2. got \in Seq(Entry) /\ Len(got) \in Nat /\ DOMAIN got = 1 .. Len(got)
        BY SeqElement DEF IInv, GotInv
      <4>3. PICK n : n = Len(got) + 1  OBVIOUS
      <4>4. PICK e : e.bounced = TRUE /\ got' = Append(got, e)  BY <3>4 DEF Return
      <4>5. /\ n \in DOMAIN got' /\ i \in DOMAIN got' /\ i # n
            /\ got'[n] = e /\ got'[i] = got[i]
        BY <4>2, <4>3, <4>4
      <4> QED  BY <4>1, <4>4, <4>5 DEF BounceOnce
    <3>6. TRUE \in BOOLEAN  OBVIOUS
    <3> QED  BY <1>0, <2>1, <2>3, <3>1, <3>2, <3>3, <3>4, <3>5, <3>6, ReturnRead
  <2> QED  BY <2>2, <2>4, <2>5 DEF RecordInv
<1>7. CASE NextIncomplete
  <2>1. PICK len \in ReadLength(RingBytes(read_pos, HeaderSize)) : ~Complete(len)
    BY <1>7 DEF NextIncomplete
  <2>2. /\ UNCHANGED <<fileVars, writerVars>> /\ r_pc = "idle" /\ r_pc' = r_pc
        /\ end_pos' = end_pos /\ start' = start
        /\ torn' = (torn \/ Overrun(read_pos)) /\ read_pos + HeaderSize <= end_pos
    BY <1>7 DEF NextIncomplete
  <2>3. ChainInv' /\ ContentInv' /\ Recs' = Recs /\ \A k : Stop(k)' = Stop(k)
    BY <1>0, <2>2, ReaderFile
  <2>4. log' = log /\ files' = files /\ write_pos' = write_pos
    BY <2>2 DEF fileVars, writerVars
  <2>5. SnapshotInv'  BY <1>0, <2>2, <2>3, <2>4, SnapshotNext
  <2>6. ReadInv'
    <3> SUFFICES ASSUME Sound' PROVE FALSE
      BY DEF ReadInv
    <3>1. Sound /\ ~Overrun(read_pos)  BY <2>2, <2>4, SamePass
    <3>2. PICK k \in Due : log[k].pos = read_pos
      <4>1. read_pos # end_pos  BY <1>0, <2>2, LogAssumption
      <4> QED  BY <1>0, <3>1, <4>1 DEF ReadInv
    <3>3. /\ ReadLength(RingBytes(read_pos, HeaderSize)) = {log[k].len}
          /\ Stop(k) <= end_pos
      BY <1>0, <3>1, <3>2, AtRecord DEF Sound
    <3>4. log[k].len \in Nat
      <4>1. k \in DOMAIN log  BY DEF Due
      <4> QED  BY <1>0, <4>1, LogFacts
    <3>5. len = log[k].len  BY <2>1, <3>3
    <3> QED  BY <1>0, <2>1, <3>2, <3>3, <3>4, <3>5, LogAssumption DEF Complete, Stop, Size
  <2> QED  BY <2>3, <2>5, <2>6 DEF RecordInv
<1>8. CASE UNCHANGED vars
  <2>1. UNCHANGED <<fileVars, writerVars>> /\ UNCHANGED readerVars  BY <1>8 DEF vars
  <2>2. ChainInv' /\ ContentInv' /\ Recs' = Recs /\ \A k : Stop(k)' = Stop(k)
    BY <1>0, <2>1, ReaderFile
  <2>3. /\ log' = log /\ files' = files /\ write_pos' = write_pos
        /\ r_pc' = r_pc /\ read_pos' = read_pos /\ end_pos' = end_pos /\ bounce' = bounce
        /\ start' = start /\ got' = got /\ torn' = torn /\ stuck' = stuck
    BY <2>1 DEF fileVars, writerVars, readerVars
  <2>4. Due' = Due /\ (Sound' <=> Sound)  BY <2>3 DEF Due, Sound
  <2>5. Stop(got[Len(got)].id)' = Stop(got[Len(got)].id)  BY <2>3 DEF Stop, Size
  <2>6. SnapshotInv'  BY <1>0, <2>2, <2>3 DEF SnapshotInv
  <2>7. ReadInv'  BY <1>0, <2>3, <2>4, <2>5 DEF ReadInv
  <2> QED  BY <2>2, <2>6, <2>7 DEF RecordInv
<1> QED  BY <1>1, <1>2, <1>3, <1>4, <1>5, <1>6, <1>7, <1>8 DEF Next

-----------------------------------------------------------------------------
(* Theorems *)

\* Whatever bytes next() meets, it stays within the snapshot and within one turn.
THEOREM Bounded == Spec => []ReaderBounded
<1>1. IInv => ReaderBounded  BY LogAssumption DEF IInv, PassInv, ReaderBounded
<1> QED  BY InitInv, StepInv, <1>1, PTL DEF Spec

\* Among the entries of a pass at most one lies in the bounce buffer.
THEOREM OneBounce == Spec => []BounceOnce
<1> QED  BY InitInv, StepInv, OneCrossing, PTL DEF Spec

\* Whatever the writer does meanwhile, its death inside a record included: a pass that
\* began at a record and was not overrun returns the records of its snapshot in the order
\* in which they were written, each with its own length, none skipped and none invented.
THEOREM InOrder == Spec => []RecordsInOrder
<1>1. RecordInv => RecordsInOrder
  <2> SUFFICES ASSUME RecordInv, Sound, NEW i \in DOMAIN got
               PROVE  /\ got[i].id \in Due
                      /\ log[got[i].id].pos = got[i].pos /\ log[got[i].id].len = got[i].len
                      /\ got[i].id = got[1].id + i - 1 /\ got[1].pos = start
    BY DEF RecordsInOrder
  <2>1. got # <<>>  OBVIOUS
  <2> QED  BY <2>1 DEF RecordInv, ReadInv
<1> QED  BY InitInv, StepInv, RecordInit, RecordStep, <1>1, PTL DEF Spec

\* next() takes no record of such a pass for incomplete, and stops only at its end.
THEOREM NoneWithheld == Spec => []NothingWithheld
<1>1. IInv /\ RecordInv => NothingWithheld
  <2> SUFFICES ASSUME IInv, RecordInv, Sound
               PROVE  ~stuck /\ (read_pos + HeaderSize > end_pos => read_pos = end_pos)
    BY DEF NothingWithheld
  <2>1. ~stuck  BY DEF RecordInv, ReadInv
  <2>2. ASSUME read_pos + HeaderSize > end_pos, NEW k \in Due, log[k].pos = read_pos
        PROVE  FALSE
    <3>1. FileInv /\ k \in DOMAIN log /\ end_pos \in Nat /\ read_pos \in Nat
      BY DEF IInv, PassInv, Due
    <3>2. log[k].len \in Nat  BY <3>1, LogFacts
    <3>3. Stop(k) <= end_pos
      BY DEF RecordInv, SnapshotInv, Due, Recs, Sound
    <3> QED  BY <2>2, <3>1, <3>2, <3>3, LogAssumption DEF Stop, Size
  <2> QED  BY <2>1, <2>2 DEF RecordInv, ReadInv
<1> QED  BY InitInv, StepInv, RecordInit, RecordStep, <1>1, PTL DEF Spec

\* The data of every entry of such a pass stays what was written, the one in the bounce
\* buffer for the whole pass, the others until the writer comes round to the record.
THEOREM DataStaysValid == Spec => []EntriesStayValid
<1>1. IInv /\ RecordInv => EntriesStayValid
  <2> SUFFICES ASSUME IInv, RecordInv, Sound, r_pc = "idle", NEW i \in DOMAIN got,
                      got[i].bounced \/ ~Overrun(got[i].pos)
               PROVE  Data(got[i]) = Bytes(got[i].id, HeaderSize, got[i].len)
    BY DEF EntriesStayValid
  <2>1. PICK k : k = got[i].id  OBVIOUS
  <2>2. k \in Due /\ log[k].pos = got[i].pos /\ log[k].len = got[i].len
    BY <2>1 DEF RecordInv, ReadInv
  <2>3. CASE got[i].bounced
    BY <2>3 DEF RecordInv, ReadInv, Data
  <2>4. CASE ~got[i].bounced
    <3>1. FileInv /\ k \in DOMAIN log /\ k \in Recs /\ end_pos \in Nat /\ ContentInv
      BY <2>2 DEF IInv, PassInv, Due, Recs, RecordInv
    <3>2. /\ log[k].len \in Nat /\ log[k].pos \in Nat /\ Stop(k) \in Nat
          /\ Size(k) = HeaderSize + log[k].len /\ write_pos \in Nat /\ copied \in Nat
          /\ Stored = write_pos + copied
      BY <3>1, LogFacts DEF Size, Stored
    <3>3. Stop(k) <= end_pos /\ end_pos <= write_pos
      BY <2>2, <3>1 DEF RecordInv, SnapshotInv, Due, Sound
    <3>4. Stop(k) <= Stored /\ Stored <= log[k].pos + BufSize
      BY <2>2, <2>4, <3>1, <3>2, <3>3, LogAssumption DEF Overrun
    <3>5. RingBytes(log[k].pos + HeaderSize, log[k].len) = Bytes(k, HeaderSize, log[k].len)
      BY <3>1, <3>2, <3>4, LogAssumption, RecordBytes
    <3> QED  BY <2>1, <2>2, <2>4, <3>5 DEF Data
  <2> QED  BY <2>3, <2>4
<1> QED  BY InitInv, StepInv, RecordInit, RecordStep, <1>1, PTL DEF Spec
=============================================================================
