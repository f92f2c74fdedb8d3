------------------------ MODULE FirmwareUploadProofs ------------------------
(***************************************************************************)
(* Theorems about FirmwareUpload, for every file and every size of pages   *)
(* and flash: the flash is touched only for a file that is whole, and      *)
(* success means that it holds the file.                                   *)
(***************************************************************************)
EXTENDS FirmwareUpload, SequenceTheorems, TLAPS

-----------------------------------------------------------------------------
(* The inductive invariant *)

\* The data lines read, and where each ends.
DataRead == {k \in 1 .. linenum : file[k].type = "data"}
End(k) == Start(k) + Len(file[k].data)

\* Data lines follow each other without gaps and make up what was read.
Contiguous ==
    /\ \A k \in DataRead : Start(k) \in Nat /\ End(k) <= firmwarelen
    /\ \A j, k \in DataRead : j < k => End(j) <= Start(k)
    /\ \A a \in 0 .. firmwarelen - 1 : \E k \in DataRead : Covers(k, a)
    /\ \A k \in DataRead : \A a \in 0 .. Start(k) - 1 : \E j \in DataRead : j < k /\ Covers(j, a)

\* Was the whole file read, and turned the right way round?
Parsed == pc \notin {"read", "exited"} \/ exitcode # -1
Oriented == Parsed /\ pc # "orient"

FileInv ==
    /\ file \in Files
    /\ linenum \in 0 .. Len(file)
    /\ curseg \in Int /\ curseg = SegmentOf(linenum + 1)
    /\ firmwarelen \in 0 .. Size - 1
    /\ \A k \in 1 .. linenum : \/ file[k].type \in {"data", "segment"}
                               \/ file[k].type = "eof" /\ k = Len(file)
    /\ pc \in {"read", "orient"} => exitcode = -1
    /\ pc = "read" => \A k \in 1 .. linenum : file[k].type # "eof"
    /\ Parsed => linenum = Len(file) /\ file # <<>> /\ file[Len(file)].type = "eof"
    /\ Contiguous

\* The image is what the lines read so far say, and later the file turned
\* round when need be.
Copied ==
    /\ \A k \in DataRead, a \in 0 .. Size - 1 :
          Covers(k, a) => firmware[a] = file[k].data[a - Start(k) + 1]
    /\ \A a \in firmwarelen .. Size - 1 : firmware[a] = 255
Upright ==
    /\ firmware[SyncAt] = 170
    /\ FileByte(SyncAt) \in {85, 170}
    /\ SyncAt < firmwarelen
    /\ \A a \in 0 .. Size - 1 :
          firmware[a] = IF FileByte(SyncAt) = 170 THEN FileByte(a) ELSE Swapped(FileByte(a))

ContentInv ==
    /\ DOMAIN firmware = 0 .. Size - 1
    /\ pc \in {"read", "orient"} => Copied
    /\ Oriented => Upright

\* Only pages of the image are written, now or late, and those verified hold
\* it whatever takes effect later.
Verified(n) == \A p \in 0 .. n - 1 : flash[p] = PageData(p)
FlashInv ==
    /\ pc \in {"read", "orient", "search", "configure", "write", "verify", "restart", "exited"}
    /\ DOMAIN flash = 0 .. PageCount - 1
    /\ page \in Nat
    /\ late # {} \/ restarts => Oriented
    /\ late \subseteq 0 .. Pages - 1
    /\ \A p \in DOMAIN flash : flash[p] = OldPage \/ (Oriented /\ p < Pages)
    /\ pc = "verify" => page < Pages /\ Verified(page)
    /\ pc = "restart" \/ exitcode = 0 \/ restarts => Verified(Pages)

IInv == FileInv /\ ContentInv /\ FlashInv

-----------------------------------------------------------------------------
(* What the lines of a file say *)

\* Lines have types, addresses and bytes.
LEMMA FileLines ==
    ASSUME file \in Files
    PROVE  /\ Len(file) \in Nat /\ DOMAIN file = 1 .. Len(file)
           /\ \A k \in 1 .. Len(file) :
                 /\ file[k].type \in {"data", "segment", "eof", "bad"}
                 /\ file[k].addr \in Nat
                 /\ file[k].data \in Seq(Bytes) /\ Len(file[k].data) \in Nat
<1>1. file \in Seq(Lines)
  BY FilesAssumption
<1>2. Len(file) \in Nat /\ DOMAIN file = 1 .. Len(file) /\ \A k \in 1 .. Len(file) : file[k] \in Lines
  BY <1>1
<1> QED BY <1>2 DEF Lines

\* What a file says does not change.
LEMMA FileKept ==
    ASSUME file' = file
    PROVE  /\ \A k : SegmentOf(k)' = SegmentOf(k) /\ Start(k)' = Start(k) /\ End(k)' = End(k)
           /\ \A k, a : Covers(k, a)' <=> Covers(k, a)
           /\ \A a : FileByte(a)' = FileByte(a)
<1>1. \A k : SegmentOf(k)' = SegmentOf(k)
  BY DEF SegmentOf
<1>2. \A k : Start(k)' = Start(k)
  BY <1>1 DEF Start
<1>3. \A k : End(k)' = End(k)
  BY <1>2 DEF End
<1>4. \A k, a : Covers(k, a)' <=> Covers(k, a)
  BY <1>2 DEF Covers
<1>5. \A a : FileByte(a)' = FileByte(a)
  BY <1>2, <1>4 DEF FileByte, DataLines
<1> QED BY <1>1, <1>2, <1>3, <1>4, <1>5

\* A segment line sets the segment of the lines after it, other lines keep it.
LEMMA NextSegment ==
    ASSUME NEW n \in Nat \ {0}
    PROVE  /\ file[n].type = "segment" => SegmentOf(n + 1) = SegmentSize * file[n].addr
           /\ file[n].type # "segment" => SegmentOf(n + 1) = SegmentOf(n)
<1> DEFINE before(k) == {j \in 1 .. k - 1 : file[j].type = "segment"}
           segment(S) == IF S = {} THEN -1
                         ELSE SegmentSize * file[CHOOSE j \in S : \A i \in S : i <= j].addr
<1>0. \A k : SegmentOf(k) = segment(before(k))
  BY DEF SegmentOf
<1>1. CASE file[n].type = "segment"
  <2>1. n \in before(n + 1) /\ \A i \in before(n + 1) : i <= n
    BY <1>1
  <2>2. \A j \in before(n + 1) : (\A i \in before(n + 1) : i <= j) => j = n
    BY <2>1
  <2>3. (CHOOSE j \in before(n + 1) : \A i \in before(n + 1) : i <= j) = n
    BY <2>1, <2>2
  <2> QED BY <1>0, <1>1, <2>1, <2>3
<1>2. CASE file[n].type # "segment"
  <2>1. before(n + 1) = before(n)
    BY <1>2
  <2> HIDE DEF before, segment
  <2> QED BY <1>0, <1>2, <2>1
<1> QED BY <1>1, <1>2

\* The lines of the file, of which linenum have been read.
LEMMA LinesRead ==
    ASSUME FileInv
    PROVE  /\ Len(file) \in Nat /\ DOMAIN file = 1 .. Len(file)
           /\ linenum \in 0 .. Len(file) /\ linenum \in Nat
           /\ \A k \in DataRead : /\ k \in 1 .. Len(file) /\ k \in 1 .. linenum /\ k \in Nat
                                  /\ file[k].type = "data"
                                  /\ Start(k) \in Nat /\ End(k) <= firmwarelen
                                  /\ Len(file[k].data) \in Nat
<1>1. /\ file \in Files /\ linenum \in 0 .. Len(file)
      /\ \A k \in DataRead : Start(k) \in Nat /\ End(k) <= firmwarelen
  BY DEF FileInv, Contiguous
<1>2. /\ Len(file) \in Nat /\ DOMAIN file = 1 .. Len(file)
      /\ \A k \in 1 .. Len(file) : Len(file[k].data) \in Nat
  BY <1>1, FileLines
<1>3. \A k \in DataRead : k \in 1 .. Len(file) /\ k \in 1 .. linenum /\ k \in Nat
                          /\ file[k].type = "data"
  BY <1>1, <1>2 DEF DataRead
<1> QED BY <1>1, <1>2, <1>3

\* The bytes a data line covers are those from its start to its end.
LEMMA Covered ==
    ASSUME FileInv, NEW k \in DataRead
    PROVE  /\ Start(k) \in Nat /\ End(k) \in Nat /\ Start(k) <= End(k)
           /\ End(k) = Start(k) + Len(file[k].data)
           /\ \A a \in Int : Covers(k, a) <=> Start(k) <= a /\ a < End(k)
<1>1. Start(k) \in Nat /\ Len(file[k].data) \in Nat
  BY LinesRead
<1> QED BY <1>1 DEF End, Covers

\* At most one data line covers an address.
LEMMA CoveredOnce ==
    ASSUME FileInv, NEW j \in DataRead, NEW k \in DataRead, NEW a \in Int,
           Covers(j, a), Covers(k, a)
    PROVE  j = k
<1>1. j \in Nat /\ k \in Nat
  BY LinesRead
<1>2. \A x, y \in DataRead : x < y => End(x) <= Start(y)
  BY DEF FileInv, Contiguous
<1>3. Start(j) <= a /\ a < End(j) /\ Start(k) <= a /\ a < End(k)
  BY Covered
<1>4. /\ Start(j) \in Nat /\ End(j) \in Nat
      /\ Start(k) \in Nat /\ End(k) \in Nat
  BY Covered
<1> QED BY <1>1, <1>2, <1>3, <1>4

-----------------------------------------------------------------------------
(* Reading the file *)

\* A line read is the newest of the lines read.
LEMMA LineTaken ==
    ASSUME FileInv, linenum < Len(file), linenum' = linenum + 1, file' = file
    PROVE  /\ linenum + 1 \in 1 .. Len(file) /\ linenum' \in 0 .. Len(file)
           /\ \A k : k \in 1 .. linenum' <=> k \in 1 .. linenum \/ k = linenum + 1
           /\ Line.type = "data" => DataRead' = DataRead \cup {linenum + 1}
           /\ Line.type # "data" => DataRead' = DataRead
           /\ \A k \in DataRead : k \in Nat /\ k < linenum + 1
<1>1. linenum \in Nat /\ Len(file) \in Nat
  BY LinesRead
<1>2. \A k : k \in 1 .. linenum' <=> k \in 1 .. linenum \/ k = linenum + 1
  BY <1>1
<1> QED BY <1>1, <1>2 DEF DataRead, Line

\* Reading a data line keeps the invariant: its bytes go behind those read.
LEMMA ReadDataInvariant ==
    ASSUME IInv, ReadData
    PROVE  FileInv' /\ ContentInv'
<1> DEFINE n == linenum + 1
           d == file[n].data
<1>1. /\ linenum < Len(file) /\ Line.type = "data" /\ linenum' = linenum + 1
      /\ file' = file /\ curseg' = curseg /\ pc = "read" /\ pc' = pc /\ exitcode' = exitcode
      /\ Address = firmwarelen
      /\ Address + Len(Line.data) < Size
      /\ firmwarelen' = firmwarelen + Len(Line.data)
      /\ firmware' = [a \in DOMAIN firmware |->
            IF a \in firmwarelen .. firmwarelen + Len(Line.data) - 1
            THEN Line.data[a - firmwarelen + 1] ELSE firmware[a]]
  BY DEF ReadData, Reading, LineRead, NotContiguous, Fits, countVars
<1>2. FileInv /\ ContentInv
  BY DEF IInv
<1>3. /\ n \in 1 .. Len(file) /\ linenum' \in 0 .. Len(file)
      /\ \A k : k \in 1 .. linenum' <=> k \in 1 .. linenum \/ k = n
      /\ DataRead' = DataRead \cup {n}
      /\ \A k \in DataRead : k \in Nat /\ k < n
  BY <1>1, <1>2, LineTaken
<1>4. Line = file[n] /\ Line.data = d /\ file[n].type = "data"
  BY <1>1 DEF Line
<1>5. d \in Seq(Bytes) /\ Len(d) \in Nat /\ n \in Nat \ {0}
  <2>1. file \in Files
    BY <1>2 DEF FileInv
  <2> QED BY <1>3, <2>1, FileLines
<1>6. /\ firmwarelen \in Nat /\ firmwarelen' \in 0 .. Size - 1
      /\ firmwarelen' = firmwarelen + Len(d) /\ Size \in Int
  <2>1. Size \in Int
    BY SizesAssumption, PagesAssumption DEF Size
  <2> QED BY <1>1, <1>2, <1>4, <1>5, <2>1 DEF FileInv
<1>7. Start(n) = firmwarelen /\ End(n) = firmwarelen'
  BY <1>1, <1>2, <1>4, <1>6 DEF Start, End, Address, FileInv
<1>8. (curseg \in Int /\ curseg = SegmentOf(linenum + 1))'
  <2>1. SegmentOf(n + 1) = SegmentOf(n)
    BY <1>4, <1>5, NextSegment
  <2>2. curseg \in Int /\ curseg = SegmentOf(n)
    BY <1>2 DEF FileInv
  <2>3. \A k : SegmentOf(k)' = SegmentOf(k)
    BY <1>1, FileKept
  <2> QED BY <1>1, <2>1, <2>2, <2>3
<1>9. \A k \in DataRead : /\ Start(k) \in Nat /\ End(k) \in Nat /\ Start(k) <= End(k)
                          /\ End(k) <= firmwarelen
  BY <1>2, Covered DEF FileInv, Contiguous
<1>10. \A a \in Int : Covers(n, a) <=> firmwarelen <= a /\ a < firmwarelen'
  BY <1>4, <1>5, <1>6, <1>7 DEF Covers
<1>11. Contiguous'
  <2>1. \A k \in DataRead' : Start(k) \in Nat /\ End(k) <= firmwarelen'
    BY <1>3, <1>5, <1>6, <1>7, <1>9
  <2>2. \A j, k \in DataRead' : j < k => End(j) <= Start(k)
    <3> SUFFICES ASSUME NEW j \in DataRead', NEW k \in DataRead', j < k
                 PROVE  End(j) <= Start(k)
      OBVIOUS
    <3>1. CASE k \in DataRead /\ j \in DataRead
      BY <1>2, <3>1 DEF FileInv, Contiguous
    <3>2. CASE k = n /\ j \in DataRead
      BY <1>7, <1>9, <3>2
    <3>3. CASE j = n
      BY <1>3, <1>5, <3>3
    <3> QED BY <1>3, <3>1, <3>2, <3>3
  <2>3. \A a \in 0 .. firmwarelen' - 1 : \E k \in DataRead' : Covers(k, a)
    <3> SUFFICES ASSUME NEW a \in 0 .. firmwarelen' - 1 PROVE \E k \in DataRead' : Covers(k, a)
      OBVIOUS
    <3>1. CASE a < firmwarelen
      BY <1>2, <1>3, <1>6, <3>1 DEF FileInv, Contiguous
    <3>2. CASE firmwarelen <= a
      BY <1>3, <1>6, <1>10, <3>2
    <3> QED BY <1>6, <3>1, <3>2
  <2>4. \A k \in DataRead' : \A a \in 0 .. Start(k) - 1 : \E j \in DataRead' : j < k /\ Covers(j, a)
    <3> SUFFICES ASSUME NEW k \in DataRead', NEW a \in 0 .. Start(k) - 1
                 PROVE  \E j \in DataRead' : j < k /\ Covers(j, a)
      OBVIOUS
    <3>1. CASE k \in DataRead
      BY <1>2, <1>3, <3>1 DEF FileInv, Contiguous
    <3>2. CASE k = n
      <4>1. a \in 0 .. firmwarelen - 1
        BY <1>7, <3>2
      <4>2. PICK j \in DataRead : Covers(j, a)
        BY <1>2, <4>1 DEF FileInv, Contiguous
      <4> QED BY <1>3, <3>2, <4>2
    <3> QED BY <1>3, <3>1, <3>2
  <2> QED BY <1>1, <2>1, <2>2, <2>3, <2>4, FileKept, Zenon DEF Contiguous
<1>12. FileInv'
  <2>1. file' \in Files /\ pc' = "read" /\ exitcode' = -1 /\ ~Parsed'
    <3>1. file \in Files /\ exitcode = -1
      BY <1>1, <1>2 DEF FileInv
    <3> QED BY <1>1, <3>1 DEF Parsed
  <2>2. (linenum \in 0 .. Len(file))'
    BY <1>1, <1>3
  <2>3. (\A k \in 1 .. linenum : file[k].type \in {"data", "segment"})'
    BY <1>1, <1>2, <1>3, <1>4 DEF FileInv
  <2>4. /\ (\A k \in 1 .. linenum : \/ file[k].type \in {"data", "segment"}
                                    \/ file[k].type = "eof" /\ k = Len(file))'
        /\ (\A k \in 1 .. linenum : file[k].type # "eof")'
    BY <2>3
  <2>5. (pc \in {"read", "orient"} => exitcode = -1)'
    BY <2>1
  <2>6. (Parsed => linenum = Len(file) /\ file # <<>> /\ file[Len(file)].type = "eof")'
    BY <2>1
  <2> QED BY <1>6, <1>8, <1>11, <2>1, <2>2, <2>4, <2>5, <2>6, Zenon DEF FileInv
<1>13. ContentInv'
  <2>1. DOMAIN firmware = 0 .. Size - 1 /\ DOMAIN firmware' = 0 .. Size - 1
    BY <1>1, <1>2 DEF ContentInv
  <2>2. \A k \in DataRead', a \in 0 .. Size - 1 :
            Covers(k, a) => firmware'[a] = file[k].data[a - Start(k) + 1]
    <3> SUFFICES ASSUME NEW k \in DataRead', NEW a \in 0 .. Size - 1, Covers(k, a)
                 PROVE  firmware'[a] = file[k].data[a - Start(k) + 1]
      OBVIOUS
    <3>1. CASE k \in DataRead
      <4>1. a < firmwarelen
        BY <1>2, <1>6, <1>9, <3>1, Covered
      <4>2. firmware'[a] = firmware[a]
        BY <1>1, <1>6, <2>1, <4>1
      <4> QED BY <1>1, <1>2, <3>1, <4>2 DEF ContentInv, Copied
    <3>2. CASE k = n
      <4>1. a \in firmwarelen .. firmwarelen + Len(Line.data) - 1
        BY <1>4, <1>6, <1>10, <3>2
      <4> QED BY <1>1, <1>4, <1>7, <2>1, <3>2, <4>1
    <3> QED BY <1>3, <3>1, <3>2
  <2>3. \A a \in firmwarelen' .. Size - 1 : firmware'[a] = 255
    <3> SUFFICES ASSUME NEW a \in firmwarelen' .. Size - 1
                 PROVE  firmware'[a] = 255
      OBVIOUS
    <3>1. a \in firmwarelen .. Size - 1 /\ a \in 0 .. Size - 1
          /\ a \notin firmwarelen .. firmwarelen + Len(Line.data) - 1
      BY <1>4, <1>5, <1>6
    <3>2. firmware[a] = 255
      BY <1>1, <1>2, <3>1 DEF ContentInv, Copied
    <3> QED BY <1>1, <2>1, <3>1, <3>2
  <2>4. ~Oriented' /\ pc' = "read"
    BY <1>1, <1>2 DEF Oriented, Parsed, FileInv
  <2>5. (\A k \in DataRead, a \in 0 .. Size - 1 :
            Covers(k, a) => firmware[a] = file[k].data[a - Start(k) + 1])'
    BY <1>1, <2>2, FileKept
  <2>6. Copied'
    BY <2>3, <2>5 DEF Copied
  <2> QED BY <2>1, <2>4, <2>6 DEF ContentInv
<1> QED BY <1>12, <1>13

\* Lines without bytes leave the data lines as they are.
LEMMA DataKept ==
    ASSUME FileInv, file' = file, firmwarelen' = firmwarelen, DataRead' = DataRead
    PROVE  Contiguous'
<1>1. /\ \A k \in DataRead : Start(k) \in Nat /\ End(k) <= firmwarelen
      /\ \A j, k \in DataRead : j < k => End(j) <= Start(k)
      /\ \A a \in 0 .. firmwarelen - 1 : \E k \in DataRead : Covers(k, a)
      /\ \A k \in DataRead : \A a \in 0 .. Start(k) - 1 : \E j \in DataRead : j < k /\ Covers(j, a)
  BY DEF FileInv, Contiguous
<1>2. /\ \A k : Start(k)' = Start(k) /\ End(k)' = End(k)
      /\ \A k, a : Covers(k, a)' <=> Covers(k, a)
  BY FileKept
<1>3. /\ (\A k \in DataRead : Start(k) \in Nat /\ End(k) <= firmwarelen)'
      /\ (\A j, k \in DataRead : j < k => End(j) <= Start(k))'
  BY <1>1, <1>2
<1>4. (\A a \in 0 .. firmwarelen - 1 : \E k \in DataRead : Covers(k, a))'
  BY <1>1, <1>2
<1>5. (\A k \in DataRead : \A a \in 0 .. Start(k) - 1 : \E j \in DataRead : j < k /\ Covers(j, a))'
  BY <1>1, <1>2
<1> QED BY <1>3, <1>4, <1>5 DEF Contiguous

\* What was copied stays as long as image and data lines do.
LEMMA CopiedKept ==
    ASSUME Copied, file' = file, firmwarelen' = firmwarelen, firmware' = firmware,
           DataRead' = DataRead
    PROVE  Copied'
<1>1. /\ \A k : Start(k)' = Start(k)
      /\ \A k, a : Covers(k, a)' <=> Covers(k, a)
  BY FileKept
<1>2. (\A k \in DataRead, a \in 0 .. Size - 1 :
          Covers(k, a) => firmware[a] = file[k].data[a - Start(k) + 1])'
  BY <1>1 DEF Copied
<1>3. (\A a \in firmwarelen .. Size - 1 : firmware[a] = 255)'
  BY DEF Copied
<1> QED BY <1>2, <1>3 DEF Copied

\* And what was turned round stays so.
LEMMA UprightKept ==
    ASSUME Upright, file' = file, firmwarelen' = firmwarelen, firmware' = firmware
    PROVE  Upright'
<1>1. \A a : FileByte(a)' = FileByte(a)
  BY FileKept
<1>2. FileByte(SyncAt)' = FileByte(SyncAt)
  BY <1>1
<1> QED BY <1>1, <1>2 DEF Upright

\* A segment line sets the segment and nothing else.
LEMMA ReadSegmentInvariant ==
    ASSUME IInv, ReadSegment
    PROVE  FileInv' /\ ContentInv'
<1> DEFINE n == linenum + 1
<1>1. /\ linenum < Len(file) /\ Line.type = "segment" /\ linenum' = linenum + 1
      /\ file' = file /\ pc = "read" /\ pc' = pc /\ exitcode' = exitcode
      /\ curseg' = Line.addr * SegmentSize
      /\ firmwarelen' = firmwarelen /\ firmware' = firmware
  BY DEF ReadSegment, Reading, LineRead, countVars
<1>2. FileInv /\ ContentInv
  BY DEF IInv
<1>3. /\ n \in 1 .. Len(file) /\ linenum' \in 0 .. Len(file)
      /\ \A k : k \in 1 .. linenum' <=> k \in 1 .. linenum \/ k = n
      /\ DataRead' = DataRead
  BY <1>1, <1>2, LineTaken
<1>4. /\ file \in Files /\ exitcode = -1 /\ firmwarelen \in 0 .. Size - 1
      /\ \A k \in 1 .. linenum : file[k].type \in {"data", "segment"}
  BY <1>1, <1>2 DEF FileInv
<1>5. file[n].type = "segment" /\ file[n].addr \in Nat /\ n \in Nat \ {0}
  BY <1>1, <1>3, <1>4, FileLines DEF Line
<1>6. (curseg \in Int /\ curseg = SegmentOf(linenum + 1))'
  <2>1. SegmentOf(n + 1) = SegmentSize * file[n].addr
    BY <1>5, NextSegment
  <2>2. curseg' = SegmentSize * file[n].addr /\ curseg' \in Int
    <3>1. SegmentSize \in Nat
      BY SizesAssumption
    <3>2. curseg' = file[n].addr * SegmentSize
      BY <1>1 DEF Line
    <3> QED BY <1>5, <3>1, <3>2
  <2>3. \A k : SegmentOf(k)' = SegmentOf(k)
    BY <1>1, FileKept
  <2> QED BY <1>1, <2>1, <2>2, <2>3
<1>7. Contiguous'
  BY <1>1, <1>2, <1>3, DataKept
<1>8. file' \in Files /\ pc' = "read" /\ exitcode' = -1 /\ ~Parsed' /\ ~Oriented'
  BY <1>1, <1>4 DEF Parsed, Oriented
<1>9. FileInv'
  <2>1. (\A k \in 1 .. linenum : file[k].type \in {"data", "segment"})'
    BY <1>1, <1>3, <1>4, <1>5
  <2>2. /\ (\A k \in 1 .. linenum : \/ file[k].type \in {"data", "segment"}
                                    \/ file[k].type = "eof" /\ k = Len(file))'
        /\ (\A k \in 1 .. linenum : file[k].type # "eof")'
    BY <2>1
  <2>3. (linenum \in 0 .. Len(file))' /\ (firmwarelen \in 0 .. Size - 1)'
    BY <1>1, <1>3, <1>4
  <2> QED BY <1>6, <1>7, <1>8, <2>2, <2>3, Zenon DEF FileInv
<1>10. ContentInv'
  <2>1. Copied'
    BY <1>1, <1>2, <1>3, CopiedKept DEF ContentInv
  <2> QED BY <1>1, <1>2, <1>8, <2>1 DEF ContentInv
<1> QED BY <1>9, <1>10

\* The end-of-file line, last in the file, completes it.
LEMMA ReadEofInvariant ==
    ASSUME IInv, ReadEof
    PROVE  FileInv' /\ ContentInv'
<1> DEFINE n == linenum + 1
<1>1. /\ linenum < Len(file) /\ Line.type = "eof" /\ linenum' = linenum + 1
      /\ linenum + 1 = Len(file)
      /\ file' = file /\ pc = "read" /\ pc' = "orient" /\ exitcode' = exitcode
      /\ curseg' = curseg
      /\ firmwarelen' = firmwarelen /\ firmware' = firmware
  BY DEF ReadEof, Reading, LineRead, countVars
<1>2. FileInv /\ ContentInv
  BY DEF IInv
<1>3. /\ n \in 1 .. Len(file) /\ linenum' \in 0 .. Len(file)
      /\ \A k : k \in 1 .. linenum' <=> k \in 1 .. linenum \/ k = n
      /\ DataRead' = DataRead
  BY <1>1, <1>2, LineTaken
<1>4. /\ file \in Files /\ exitcode = -1 /\ firmwarelen \in 0 .. Size - 1
      /\ \A k \in 1 .. linenum : file[k].type \in {"data", "segment"}
      /\ curseg \in Int /\ curseg = SegmentOf(n)
  BY <1>1, <1>2 DEF FileInv
<1>5. file[n].type = "eof" /\ n \in Nat \ {0} /\ n = Len(file)
  BY <1>1, <1>3 DEF Line
<1>6. (curseg \in Int /\ curseg = SegmentOf(linenum + 1))'
  <2>1. SegmentOf(n + 1) = SegmentOf(n)
    BY <1>5, NextSegment
  <2>2. \A k : SegmentOf(k)' = SegmentOf(k)
    BY <1>1, FileKept
  <2> QED BY <1>1, <1>4, <2>1, <2>2
<1>7. Contiguous'
  BY <1>1, <1>2, <1>3, DataKept
<1>8. file' \in Files /\ pc' = "orient" /\ exitcode' = -1 /\ ~Oriented'
  BY <1>1, <1>4 DEF Oriented
<1>9. FileInv'
  <2>1. (\A k \in 1 .. linenum : \/ file[k].type \in {"data", "segment"}
                                 \/ file[k].type = "eof" /\ k = Len(file))'
    BY <1>1, <1>3, <1>4, <1>5
  <2>2. (linenum \in 0 .. Len(file))' /\ (firmwarelen \in 0 .. Size - 1)'
    BY <1>1, <1>3, <1>4
  <2>3. (linenum = Len(file) /\ file # <<>> /\ file[Len(file)].type = "eof")'
    BY <1>1, <1>3, <1>5
  <2> QED BY <1>6, <1>7, <1>8, <2>1, <2>2, <2>3, Zenon DEF FileInv
<1>10. ContentInv'
  <2>1. Copied'
    BY <1>1, <1>2, <1>3, CopiedKept DEF ContentInv
  <2> QED BY <1>1, <1>2, <1>8, <2>1 DEF ContentInv
<1> QED BY <1>9, <1>10

\* Steps that leave the image and the lines read alone keep what is said of them.
LEMMA ImageKept ==
    ASSUME IInv, UNCHANGED imageVars,
           pc' \in {"read", "orient"} => pc' = pc /\ exitcode' = exitcode,
           Parsed' => Parsed, Oriented' => Oriented
    PROVE  FileInv' /\ ContentInv'
<1>1. FileInv /\ ContentInv
  BY DEF IInv
<1>2. /\ file' = file /\ linenum' = linenum /\ curseg' = curseg
      /\ firmware' = firmware /\ firmwarelen' = firmwarelen
  BY DEF imageVars
<1>3. DataRead' = DataRead
  BY <1>2 DEF DataRead
<1>4. Contiguous'
  BY <1>1, <1>2, <1>3, DataKept
<1>5. /\ (pc \in {"read", "orient"} => exitcode = -1)'
      /\ (pc = "read" => \A k \in 1 .. linenum : file[k].type # "eof")'
  <2>1. pc \in {"read", "orient"} => exitcode = -1
    BY <1>1 DEF FileInv
  <2>2. pc = "read" => \A k \in 1 .. linenum : file[k].type # "eof"
    BY <1>1 DEF FileInv
  <2> QED BY <1>2, <2>1, <2>2
<1>6. FileInv'
  <2>1. (curseg \in Int /\ curseg = SegmentOf(linenum + 1))'
    BY <1>1, <1>2, FileKept DEF FileInv
  <2>2. /\ (file \in Files /\ linenum \in 0 .. Len(file) /\ firmwarelen \in 0 .. Size - 1)'
        /\ (\A k \in 1 .. linenum : \/ file[k].type \in {"data", "segment"}
                                    \/ file[k].type = "eof" /\ k = Len(file))'
    BY <1>1, <1>2 DEF FileInv
  <2>3. (Parsed => linenum = Len(file) /\ file # <<>> /\ file[Len(file)].type = "eof")'
    BY <1>1, <1>2 DEF FileInv
  <2> QED BY <1>4, <1>5, <2>1, <2>2, <2>3, Zenon DEF FileInv
<1>7. ContentInv'
  <2>1. (DOMAIN firmware = 0 .. Size - 1)'
    BY <1>1, <1>2 DEF ContentInv
  <2>2. pc' \in {"read", "orient"} => Copied'
    BY <1>1, <1>2, <1>3, CopiedKept DEF ContentInv
  <2>3. Oriented' => Upright'
    BY <1>1, <1>2, UprightKept DEF ContentInv
  <2> QED BY <2>1, <2>2, <2>3 DEF ContentInv
<1> QED BY <1>6, <1>7

-----------------------------------------------------------------------------
(* What a file says that was read to its end *)

\* All data lines have been read when the file has been.
LEMMA WholeRead ==
    ASSUME FileInv, linenum = Len(file)
    PROVE  DataLines = DataRead
<1>1. DOMAIN file = 1 .. Len(file)
  BY LinesRead
<1> QED BY <1>1 DEF DataLines, DataRead

\* The byte a file has for an address is a byte.
LEMMA FileByteType ==
    ASSUME FileInv, linenum = Len(file), NEW a \in Int
    PROVE  FileByte(a) \in Bytes
<1>1. CASE \E k \in DataLines : Covers(k, a)
  <2> DEFINE k == CHOOSE j \in DataLines : Covers(j, a)
  <2>1. k \in DataLines /\ Covers(k, a) /\ FileByte(a) = file[k].data[a - Start(k) + 1]
    BY <1>1 DEF FileByte
  <2> HIDE DEF k
  <2>2. k \in DataRead
    BY <2>1, WholeRead
  <2>3. /\ Start(k) \in Nat /\ Start(k) <= a /\ a < End(k)
        /\ End(k) = Start(k) + Len(file[k].data)
    BY <2>1, <2>2, Covered
  <2>4. file[k].data \in Seq(Bytes) /\ Len(file[k].data) \in Nat
    <3>1. file \in Files
      BY DEF FileInv
    <3>2. k \in 1 .. Len(file)
      BY <2>2, LinesRead
    <3> QED BY <3>1, <3>2, FileLines
  <2>5. a - Start(k) + 1 \in 1 .. Len(file[k].data)
    BY <2>3, <2>4
  <2>6. file[k].data[a - Start(k) + 1] \in Bytes
    BY <2>4, <2>5, ElementOfSeq
  <2> QED BY <2>1, <2>6
<1>2. CASE ~ \E k \in DataLines : Covers(k, a)
  BY <1>2 DEF FileByte, Bytes
<1> QED BY <1>1, <1>2

\* What was copied is what the file says.
LEMMA CopiedMeans ==
    ASSUME FileInv, linenum = Len(file), Copied, NEW a \in 0 .. Size - 1
    PROVE  firmware[a] = FileByte(a) /\ (firmwarelen <= a => firmware[a] = 255)
<1>1. DataLines = DataRead
  BY WholeRead
<1>2. a \in Int /\ firmwarelen \in Int
  BY DEF FileInv
<1>3. firmwarelen <= a => firmware[a] = 255
  BY <1>2 DEF Copied
<1>4. CASE \E k \in DataLines : Covers(k, a)
  <2> DEFINE k == CHOOSE j \in DataLines : Covers(j, a)
  <2>1. k \in DataLines /\ Covers(k, a) /\ FileByte(a) = file[k].data[a - Start(k) + 1]
    BY <1>4 DEF FileByte
  <2> HIDE DEF k
  <2> QED BY <1>1, <1>3, <2>1 DEF Copied
<1>5. CASE ~ \E k \in DataLines : Covers(k, a)
  <2>1. \A x \in 0 .. firmwarelen - 1 : \E k \in DataRead : Covers(k, x)
    BY DEF FileInv, Contiguous
  <2>2. firmwarelen <= a
    BY <1>1, <1>2, <1>5, <2>1
  <2>3. FileByte(a) = 255
    BY <1>5 DEF FileByte
  <2> QED BY <1>3, <2>2, <2>3
<1> QED BY <1>3, <1>4, <1>5

\* A file read to its end is whole.
LEMMA ParsedWhole ==
    ASSUME FileInv, Parsed
    PROVE  Whole
<1>1. /\ linenum = Len(file) /\ file # <<>> /\ file[Len(file)].type = "eof"
      /\ \A k \in 1 .. linenum : \/ file[k].type \in {"data", "segment"}
                                 \/ file[k].type = "eof" /\ k = Len(file)
      /\ firmwarelen \in 0 .. Size - 1
  BY DEF FileInv
<1>2. Len(file) \in Nat /\ DataLines = DataRead
  BY <1>1, LinesRead, WholeRead
<1>3. \A k \in 1 .. Len(file) - 1 : file[k].type \in {"data", "segment"}
  BY <1>1, <1>2
<1>4. ASSUME NEW k \in DataRead
      PROVE  {a \in 0 .. Size - 1 : \E j \in DataRead : j < k /\ Covers(j, a)} = 0 .. Start(k) - 1
  <2>1. /\ Start(k) \in Nat /\ End(k) \in Nat /\ Start(k) <= End(k)
        /\ End(k) <= firmwarelen
    BY Covered, LinesRead
  <2>2. ASSUME NEW a \in 0 .. Start(k) - 1
        PROVE  a \in 0 .. Size - 1 /\ \E j \in DataRead : j < k /\ Covers(j, a)
    <3>1. \E j \in DataRead : j < k /\ Covers(j, a)
      BY DEF FileInv, Contiguous
    <3>2. Size \in Int
      BY SizesAssumption, PagesAssumption DEF Size
    <3> QED BY <1>1, <2>1, <3>1, <3>2
  <2>3. ASSUME NEW a \in 0 .. Size - 1, NEW j \in DataRead, j < k, Covers(j, a)
        PROVE  a \in 0 .. Start(k) - 1
    <3>1. End(j) <= Start(k)
      BY <2>3 DEF FileInv, Contiguous
    <3>2. a < End(j) /\ End(j) \in Nat
      BY <2>3, Covered
    <3> QED BY <2>1, <3>1, <3>2
  <2> QED BY <2>2, <2>3
<1> QED BY <1>1, <1>2, <1>3, <1>4 DEF Whole

\* The last byte of a file that has bytes is the last one read.
LEMMA LastByteRead ==
    ASSUME FileInv, linenum = Len(file), firmwarelen > 0
    PROVE  LastByte = firmwarelen - 1
<1> DEFINE last(a) == (\E k \in DataLines : Covers(k, a)) /\ (\A k \in DataLines : ~Covers(k, a + 1))
<1>1. /\ DataLines = DataRead
      /\ firmwarelen \in 0 .. Size - 1 /\ firmwarelen \in Nat /\ Size \in Int
  <2>1. Size \in Int
    BY SizesAssumption, PagesAssumption DEF Size
  <2> QED BY <2>1, WholeRead DEF FileInv
<1>2. \A a \in 0 .. firmwarelen - 1 : \E k \in DataRead : Covers(k, a)
  BY DEF FileInv, Contiguous
<1>3. \A a \in Int : \A k \in DataRead : Covers(k, a) => a < firmwarelen
  <2> SUFFICES ASSUME NEW a \in Int, NEW k \in DataRead, Covers(k, a) PROVE a < firmwarelen
    OBVIOUS
  <2>1. a < End(k) /\ End(k) \in Nat /\ End(k) <= firmwarelen
    BY Covered, LinesRead
  <2> QED BY <1>1, <2>1
<1>4. last(firmwarelen - 1) /\ firmwarelen - 1 \in 0 .. Size
  BY <1>1, <1>2, <1>3
<1>5. \A a \in 0 .. Size : last(a) => a = firmwarelen - 1
  <2> SUFFICES ASSUME NEW a \in 0 .. Size, last(a) PROVE a = firmwarelen - 1
    OBVIOUS
  <2>1. a < firmwarelen
    BY <1>1, <1>3
  <2>2. ~(a + 1 < firmwarelen)
    BY <1>1, <1>2
  <2> QED BY <1>1, <2>1, <2>2
<1>6. DataLines # {}
  BY <1>4
<1>7. LastByte = CHOOSE a \in 0 .. Size : last(a)
  BY <1>6 DEF LastByte
<1> HIDE DEF last
<1> QED BY <1>4, <1>5, <1>7

-----------------------------------------------------------------------------
(* The bits of a byte *)

\* A byte put together from bits has them.
LEMMA BitsOf ==
    ASSUME NEW b1 \in {0, 1}, NEW b2 \in {0, 1}, NEW b3 \in {0, 1}, NEW b4 \in {0, 1},
           NEW b5 \in {0, 1}, NEW b6 \in {0, 1}, NEW b7 \in {0, 1}, NEW b8 \in {0, 1},
           NEW b, b = 128 * b8 + 64 * b7 + 32 * b6 + 16 * b5 + 8 * b4 + 4 * b3 + 2 * b2 + b1
    PROVE  /\ b \in Bytes
           /\ Bit(b, 1) = b1 /\ Bit(b, 2) = b2 /\ Bit(b, 3) = b3 /\ Bit(b, 4) = b4
           /\ Bit(b, 5) = b5 /\ Bit(b, 6) = b6 /\ Bit(b, 7) = b7 /\ Bit(b, 8) = b8
<1>0. b \in Bytes /\ b \in Int
  BY DEF Bytes
<1>1. /\ Bit(b, 1) = (b \div 1) % 2 /\ Bit(b, 2) = (b \div 2) % 2 /\ Bit(b, 3) = (b \div 4) % 2
      /\ Bit(b, 4) = (b \div 8) % 2 /\ Bit(b, 5) = (b \div 16) % 2 /\ Bit(b, 6) = (b \div 32) % 2
      /\ Bit(b, 7) = (b \div 64) % 2 /\ Bit(b, 8) = (b \div 128) % 2
  BY DEF Bit, Weight
<1>2. (b \div 1) % 2 = b1
  BY <1>0
<1>3. (b \div 2) % 2 = b2
  BY <1>0
<1>4. (b \div 4) % 2 = b3
  BY <1>0
<1>5. (b \div 8) % 2 = b4
  BY <1>0
<1>6. (b \div 128) % 2 = b8
  BY <1>0
<1>7. (b \div 64) % 2 = b7
  BY <1>0
<1>8. (b \div 32) % 2 = b6
  BY <1>0
<1>9. (b \div 16) % 2 = b5
  BY <1>0
<1> QED BY <1>0, <1>1, <1>2, <1>3, <1>4, <1>5, <1>6, <1>7, <1>8, <1>9

\* Every byte is put together from bits.
LEMMA BytesHaveBits ==
    ASSUME NEW b \in Bytes
    PROVE  \E b1, b2, b3, b4, b5, b6, b7, b8 \in 0 .. 1 :
        b = 128 * b8 + 64 * b7 + 32 * b6 + 16 * b5 + 8 * b4 + 4 * b3 + 2 * b2 + b1
<1>1. \A n \in Nat : \E q \in Nat, r \in 0 .. 1 : n = 2 * q + r
  <2> TAKE n \in Nat
  <2>1. n \div 2 \in Nat /\ n % 2 \in 0 .. 1 /\ n = 2 * (n \div 2) + (n % 2)
    OBVIOUS
  <2> QED BY <2>1
<1>2. PICK q1 \in Nat, b1 \in 0 .. 1 : b = 2 * q1 + b1
  <2>1. b \in Nat
    BY DEF Bytes
  <2> QED BY <1>1, <2>1
<1>3. PICK q2 \in Nat, b2 \in 0 .. 1 : q1 = 2 * q2 + b2
  BY <1>1
<1>4. PICK q3 \in Nat, b3 \in 0 .. 1 : q2 = 2 * q3 + b3
  BY <1>1
<1>5. PICK q4 \in Nat, b4 \in 0 .. 1 : q3 = 2 * q4 + b4
  BY <1>1
<1>6. PICK q5 \in Nat, b5 \in 0 .. 1 : q4 = 2 * q5 + b5
  BY <1>1
<1>7. PICK q6 \in Nat, b6 \in 0 .. 1 : q5 = 2 * q6 + b6
  BY <1>1
<1>8. PICK q7 \in Nat, b7 \in 0 .. 1 : q6 = 2 * q7 + b7
  BY <1>1
<1>9. PICK q8 \in Nat, b8 \in 0 .. 1 : q7 = 2 * q8 + b8
  BY <1>1
<1>10. b = 256 * q8 + 128 * b8 + 64 * b7 + 32 * b6 + 16 * b5 + 8 * b4 + 4 * b3 + 2 * b2 + b1
  BY <1>2, <1>3, <1>4, <1>5, <1>6, <1>7, <1>8, <1>9
<1>11. q8 = 0
  BY <1>10 DEF Bytes
<1>12. b = 128 * b8 + 64 * b7 + 32 * b6 + 16 * b5 + 8 * b4 + 4 * b3 + 2 * b2 + b1
  BY <1>10, <1>11
<1> QED BY <1>12

\* Turning a byte round turns its bits round.
LEMMA SwappedTurned ==
    ASSUME NEW b \in Bytes
    PROVE  Turned(Swapped(b), b)
<1>1. PICK b1, b2, b3, b4, b5, b6, b7, b8 \in 0 .. 1 :
          b = 128 * b8 + 64 * b7 + 32 * b6 + 16 * b5 + 8 * b4 + 4 * b3 + 2 * b2 + b1
  BY BytesHaveBits
<1>2. /\ Bit(b, 1) = b1 /\ Bit(b, 2) = b2 /\ Bit(b, 3) = b3 /\ Bit(b, 4) = b4
      /\ Bit(b, 5) = b5 /\ Bit(b, 6) = b6 /\ Bit(b, 7) = b7 /\ Bit(b, 8) = b8
  BY <1>1, BitsOf
<1> DEFINE x == Swapped(b)
<1>3. x = 128 * b1 + 64 * b2 + 32 * b3 + 16 * b4 + 8 * b5 + 4 * b6 + 2 * b7 + b8
  BY <1>2 DEF Swapped
<1> HIDE DEF x
<1>4. /\ x \in Bytes
      /\ Bit(x, 1) = b8 /\ Bit(x, 2) = b7 /\ Bit(x, 3) = b6 /\ Bit(x, 4) = b5
      /\ Bit(x, 5) = b4 /\ Bit(x, 6) = b3 /\ Bit(x, 7) = b2 /\ Bit(x, 8) = b1
  BY <1>1, <1>3, BitsOf
<1>5. \A j \in 1 .. 8 : Bit(x, j) = Bit(b, 9 - j)
  <2> SUFFICES ASSUME NEW j \in 1 .. 8 PROVE Bit(x, j) = Bit(b, 9 - j)
    OBVIOUS
  <2>1. j \in {1, 2, 3, 4, 5, 6, 7, 8}
    OBVIOUS
  <2>2. /\ 9 - 1 = 8 /\ 9 - 2 = 7 /\ 9 - 3 = 6 /\ 9 - 4 = 5
        /\ 9 - 5 = 4 /\ 9 - 6 = 3 /\ 9 - 7 = 2 /\ 9 - 8 = 1
    OBVIOUS
  <2> QED BY <1>2, <1>4, <2>1, <2>2
<1> QED BY <1>4, <1>5 DEF Turned, x

\* The two forms of the sync byte are each other's mirror images.
LEMMA SyncByte == Swapped(85) = 170
<1>1. /\ Bit(85, 1) = 1 /\ Bit(85, 2) = 0 /\ Bit(85, 3) = 1 /\ Bit(85, 4) = 0
      /\ Bit(85, 5) = 1 /\ Bit(85, 6) = 0 /\ Bit(85, 7) = 1 /\ Bit(85, 8) = 0
  <2>1. 85 = 128 * 0 + 64 * 1 + 32 * 0 + 16 * 1 + 8 * 0 + 4 * 1 + 2 * 0 + 1
    OBVIOUS
  <2> QED BY <2>1, BitsOf
<1> QED BY <1>1 DEF Swapped

-----------------------------------------------------------------------------
(* Pages *)

\* A product distributes over sums and grows with its factors.
LEMMA Products ==
    ASSUME NEW a \in Int, NEW b \in Int, NEW c \in Int
    PROVE  /\ a * c \in Int /\ c * a \in Int /\ a * c = c * a
           /\ (a + b) * c = a * c + b * c
           /\ (a <= b /\ c >= 0) => a * c <= b * c
  OBVIOUS

\* Dividing with remainder.
LEMMA Remainder ==
    ASSUME NEW a \in Int, NEW M \in Nat \ {0}
    PROVE  /\ a \div M \in Int
           /\ a % M \in 0 .. M - 1
           /\ a = (a \div M) * M + (a % M)
  OBVIOUS

\* A quotient is known by the multiples around it.
LEMMA Below ==
    ASSUME NEW p \in Int, NEW q \in Int, NEW M \in Nat \ {0}, p * M < (q + 1) * M
    PROVE  p <= q
<1>1. p > q => (q + 1) * M <= p * M
  BY Products
<1>2. p * M \in Int /\ (q + 1) * M \in Int
  BY Products
<1> QED BY <1>1, <1>2

\* The flash of the firmware is a number of whole pages.
LEMMA FlashPages ==
    /\ PageSize \in Nat \ {0} /\ PageCount \in Nat \ {0} /\ Size \in Nat
    /\ \E h \in Nat : h <= PageCount /\ Size = h * PageSize
<1>1. PageSize \in Nat \ {0} /\ PageCount \in Nat \ {0}
  BY SizesAssumption
<1> DEFINE h == PageCount \div 2
<1>2. h \in Nat /\ PageCount = 2 * h
  BY <1>1, PagesAssumption
<1>3. Size = (PageSize * (2 * h)) \div 2
  BY <1>2 DEF Size
<1> HIDE DEF h
<1>4. h * PageSize \in Nat /\ PageSize * (2 * h) = 2 * (h * PageSize)
  BY <1>1, <1>2
<1>5. Size = h * PageSize
  BY <1>3, <1>4
<1> QED BY <1>1, <1>2, <1>4, <1>5

\* The pages written are those that begin in the image, all of them in its half
\* of the flash.
LEMMA PagesOfImage ==
    ASSUME firmwarelen \in 0 .. Size - 1
    PROVE  /\ Pages \in 0 .. PageCount
           /\ firmwarelen > 0 => Pages > 0
           /\ \A p \in Nat : p < Pages <=> p * PageSize < firmwarelen
           /\ \A p \in Nat, k \in 0 .. PageSize - 1 : p < Pages => p * PageSize + k \in 0 .. Size - 1
<1>1. PICK h \in Nat : h <= PageCount /\ Size = h * PageSize
  BY FlashPages
<1>2. PageSize \in Nat \ {0} /\ PageCount \in Nat \ {0} /\ Size \in Nat /\ firmwarelen \in Nat
  BY FlashPages
<1> DEFINE n == firmwarelen + PageSize - 1
           P == n \div PageSize
           r == n % PageSize
<1>3. n \in Nat /\ n \in Int
  BY <1>2
<1>4. P \in Int /\ r \in 0 .. PageSize - 1 /\ n = P * PageSize + r
  BY <1>2, <1>3, Remainder
<1>5. Pages = P
  BY DEF Pages
<1>6. n = firmwarelen + PageSize - 1
  OBVIOUS
<1> HIDE DEF n, P, r
<1>7. /\ \A p \in Int : p * PageSize \in Int /\ (p + 1) * PageSize = p * PageSize + PageSize
      /\ \A p, q \in Int : p <= q => p * PageSize <= q * PageSize
  BY <1>2, Products
<1>8. 0 <= P
  <2>1. 0 * PageSize < (P + 1) * PageSize
    BY <1>2, <1>3, <1>4, <1>7
  <2> QED BY <1>2, <1>4, <2>1, Below
<1>9. P <= h
  <2>1. P * PageSize < (h + 1) * PageSize
    BY <1>1, <1>2, <1>4, <1>6, <1>7
  <2> QED BY <1>1, <1>2, <1>4, <2>1, Below
<1>10. ASSUME NEW p \in Nat PROVE p < P <=> p * PageSize < firmwarelen
  <2>1. CASE p < P
    <3>1. (p + 1) * PageSize <= P * PageSize
      BY <1>4, <1>7, <2>1
    <3> QED BY <1>2, <1>4, <1>6, <1>7, <2>1, <3>1
  <2>2. CASE P <= p
    <3>1. P * PageSize <= p * PageSize
      BY <1>4, <1>7, <2>2
    <3> QED BY <1>2, <1>4, <1>6, <1>7, <2>2, <3>1
  <2> QED BY <1>4, <2>1, <2>2
<1>11. ASSUME NEW p \in Nat, NEW k \in 0 .. PageSize - 1, p < P
       PROVE  p * PageSize + k \in 0 .. Size - 1
  <2>1. (p + 1) * PageSize <= h * PageSize
    BY <1>1, <1>4, <1>7, <1>9, <1>11
  <2>2. 0 * PageSize <= p * PageSize /\ 0 * PageSize = 0
    BY <1>2, <1>7
  <2> QED BY <1>1, <1>2, <1>7, <2>1, <2>2
<1>12. firmwarelen > 0 => P > 0
  <2>1. 0 < P <=> 0 * PageSize < firmwarelen
    BY <1>10
  <2> QED BY <1>2, <2>1
<1> QED BY <1>1, <1>2, <1>4, <1>5, <1>8, <1>9, <1>10, <1>11, <1>12

-----------------------------------------------------------------------------
(* Orienting the image *)

\* Orienting the image leaves the sync byte of a camera in it.
LEMMA OrientInvariant ==
    ASSUME IInv, Orient
    PROVE  FileInv' /\ ContentInv'
<1>1. /\ pc = "orient" /\ FileInv /\ ContentInv
      /\ file' = file /\ linenum' = linenum /\ curseg' = curseg /\ firmwarelen' = firmwarelen
  BY DEF IInv, Orient
<1>2. /\ Parsed /\ ~Oriented /\ exitcode = -1 /\ Copied /\ linenum = Len(file)
      /\ DOMAIN firmware = 0 .. Size - 1
  BY <1>1 DEF Parsed, Oriented, FileInv, ContentInv
<1>3. /\ \A a \in 0 .. Size - 1 : firmware[a] = FileByte(a)
      /\ \A a \in 0 .. Size - 1 : firmwarelen <= a => firmware[a] = 255
  BY <1>1, <1>2, CopiedMeans
<1>4. SyncAt \in 0 .. Size - 1 /\ firmwarelen \in Int
  BY <1>1, SyncAssumption DEF FileInv
<1>5. /\ pc' \in {"search", "exited"}
      /\ pc' = "exited" => exitcode' = -1
      /\ DOMAIN firmware' = 0 .. Size - 1
      /\ pc' = "search" => Upright'
  <2>1. CASE firmware[SyncAt] = 85 /\ pc' = "search"
             /\ firmware' = [a \in DOMAIN firmware |-> Swapped(firmware[a])]
    <3>1. /\ \A a \in 0 .. Size - 1 : firmware'[a] = Swapped(FileByte(a))
          /\ DOMAIN firmware' = 0 .. Size - 1
      BY <1>2, <1>3, <2>1
    <3>2. FileByte(SyncAt) = 85 /\ SyncAt < firmwarelen
      BY <1>3, <1>4, <2>1
    <3>3. firmware'[SyncAt] = 170
      BY <1>4, <3>1, <3>2, SyncByte
    <3>4. \A a : FileByte(a)' = FileByte(a)
      BY <1>1, FileKept
    <3>5. Upright'
      BY <1>1, <3>1, <3>2, <3>3, <3>4 DEF Upright
    <3> QED BY <2>1, <3>1, <3>5
  <2>2. CASE firmware[SyncAt] = 170 /\ pc' = "search" /\ firmware' = firmware
    <3>1. FileByte(SyncAt) = 170 /\ SyncAt < firmwarelen
      BY <1>3, <1>4, <2>2
    <3>2. Upright
      BY <1>3, <2>2, <3>1 DEF Upright
    <3>3. Upright'
      BY <1>1, <2>2, <3>2, UprightKept
    <3> QED BY <1>2, <2>2, <3>3
  <2>3. CASE pc' = "exited" /\ exitcode' = -1 /\ firmware' = firmware
    BY <1>2, <2>3
  <2> QED BY <2>1, <2>2, <2>3 DEF Orient, Exit
<1>6. DataRead' = DataRead
  BY <1>1 DEF DataRead
<1>7. FileInv'
  <2>1. Contiguous'
    BY <1>1, <1>6, DataKept
  <2>2. (curseg \in Int /\ curseg = SegmentOf(linenum + 1))'
    BY <1>1, FileKept DEF FileInv
  <2>3. /\ (file \in Files /\ linenum \in 0 .. Len(file) /\ firmwarelen \in 0 .. Size - 1)'
        /\ (\A k \in 1 .. linenum : \/ file[k].type \in {"data", "segment"}
                                    \/ file[k].type = "eof" /\ k = Len(file))'
        /\ (linenum = Len(file) /\ file # <<>> /\ file[Len(file)].type = "eof")'
    BY <1>1, <1>2 DEF FileInv
  <2>4. pc' \notin {"read", "orient"}
    BY <1>5
  <2> QED BY <2>1, <2>2, <2>3, <2>4, Zenon DEF FileInv
<1>8. ContentInv'
  <2>1. Oriented' => pc' = "search"
    BY <1>5 DEF Oriented, Parsed
  <2> QED BY <1>5, <2>1 DEF ContentInv
<1> QED BY <1>7, <1>8

\* Before the image is oriented no step touches the flash.
LEMMA FlashUntouched ==
    ASSUME IInv, pc \in {"read", "orient"}, exitcode' = -1,
           pc' \in {"read", "orient", "search", "exited"},
           flash' = flash, late' = late, restarts' = restarts, page' = page
    PROVE  FlashInv'
<1>1. FlashInv /\ exitcode = -1
  BY DEF IInv, FileInv
<1>2. ~Oriented
  BY <1>1 DEF Oriented, Parsed
<1>3. /\ late = {} /\ ~restarts
      /\ \A p \in DOMAIN flash : flash[p] = OldPage
      /\ DOMAIN flash = 0 .. PageCount - 1 /\ page \in Nat
  BY <1>1, <1>2 DEF FlashInv
<1>4. /\ late' = {} /\ ~restarts' /\ exitcode' # 0 /\ pc' \notin {"verify", "restart"}
      /\ \A p \in DOMAIN flash' : flash'[p] = OldPage'
      /\ DOMAIN flash' = 0 .. PageCount - 1 /\ page' \in Nat
  BY <1>3 DEF OldPage
<1>5. /\ pc' \in {"read", "orient", "search", "configure", "write", "verify", "restart", "exited"}
      /\ late' \subseteq (0 .. Pages - 1)'
  BY <1>4
<1> QED BY <1>4, <1>5, Zenon DEF FlashInv

-----------------------------------------------------------------------------
(* Writing and verifying *)

\* The stages that have an image to write.
Stages == {"search", "configure", "write", "verify", "restart"}

\* In these stages the image is oriented, and so it is after success.
LEMMA StageOriented ==
    ASSUME IInv
    PROVE  pc \in Stages \/ late # {} \/ restarts \/ exitcode = 0 => Oriented
<1>1. pc \in {"read", "orient"} => exitcode = -1
  BY DEF IInv, FileInv
<1>2. late # {} \/ restarts => Oriented
  BY DEF IInv, FlashInv
<1> QED BY <1>1, <1>2 DEF Stages, Oriented, Parsed

\* Steps with an oriented image keep it.
LEMMA StageKept ==
    ASSUME IInv, UNCHANGED imageVars, Oriented,
           \/ pc' \in Stages
           \/ pc' = "exited" /\ exitcode' # -1
           \/ pc' = pc /\ exitcode' = exitcode
    PROVE  FileInv' /\ ContentInv' /\ Oriented'
<1>1. pc # "orient" /\ Parsed
  BY DEF Oriented
<1>2. Oriented'
  BY <1>1 DEF Oriented, Parsed, Stages
<1>3. pc' \in {"read", "orient"} => pc' = pc /\ exitcode' = exitcode
  BY DEF Stages
<1>4. (Parsed' => Parsed) /\ (Oriented' => Oriented)
  BY <1>1
<1>5. FileInv' /\ ContentInv'
  BY <1>3, <1>4, ImageKept
<1> QED BY <1>2, <1>5

\* The pages of an image that is kept.
LEMMA PagesKept ==
    ASSUME UNCHANGED imageVars
    PROVE  Pages' = Pages /\ \A p : PageData(p)' = PageData(p)
  BY DEF imageVars, Pages, PageData

\* Pages that hold the image keep it: only the image is written.
LEMMA VerifiedKept ==
    ASSUME UNCHANGED imageVars, NEW n \in 0 .. PageCount, Verified(n),
           DOMAIN flash = 0 .. PageCount - 1,
           \/ flash' = flash
           \/ \E p \in 0 .. PageCount - 1 : flash' = [flash EXCEPT ![p] = PageData(p)]
    PROVE  Verified(n)'
<1>1. \A p : PageData(p)' = PageData(p)
  BY PagesKept
<1>2. PageCount \in Nat
  BY FlashPages
<1>3. \A q \in 0 .. n - 1 : q \in DOMAIN flash /\ flash[q] = PageData(q)
  BY <1>2 DEF Verified
<1>4. \A q \in 0 .. n - 1 : flash'[q] = PageData(q)
  BY <1>3
<1> QED BY <1>1, <1>4 DEF Verified

\* The flash keeps its invariant when pages of the image are written, when the
\* pages that are said to hold it do, and when the counters stay in range.
LEMMA FlashKept ==
    ASSUME IInv, UNCHANGED imageVars, Oriented, Oriented',
           pc' \in Stages \cup {pc, "exited"}, page' \in Nat,
           late' \subseteq 0 .. Pages - 1,
           \/ flash' = flash
           \/ \E p \in 0 .. Pages - 1 : flash' = [flash EXCEPT ![p] = PageData(p)],
           pc' = "verify" => page' < Pages /\ Verified(page'),
           pc' = "restart" \/ exitcode' = 0 \/ restarts' => Verified(Pages)
    PROVE  FlashInv'
<1>1. FileInv /\ FlashInv
  BY DEF IInv
<1>2. Pages \in 0 .. PageCount /\ PageCount \in Nat /\ Pages' = Pages
  BY <1>1, PagesOfImage, PagesKept, FlashPages DEF FileInv
<1>3. DOMAIN flash = 0 .. PageCount - 1 /\ DOMAIN flash' = 0 .. PageCount - 1
  BY <1>1 DEF FlashInv
<1>4. \/ flash' = flash
      \/ \E p \in 0 .. PageCount - 1 : flash' = [flash EXCEPT ![p] = PageData(p)]
  BY <1>2
<1>5. ASSUME NEW n \in 0 .. PageCount, Verified(n)
      PROVE  Verified(n)'
  BY <1>3, <1>4, <1>5, VerifiedKept
<1>6. (late # {} \/ restarts => Oriented)' /\ (late \subseteq 0 .. Pages - 1)'
  BY <1>2
<1>7. (\A p \in DOMAIN flash : flash[p] = OldPage \/ (Oriented /\ p < Pages))'
  <2>1. \A p \in DOMAIN flash : flash[p] = OldPage \/ p < Pages
    BY <1>1 DEF FlashInv
  <2>2. \A p \in DOMAIN flash' : flash'[p] = OldPage \/ p < Pages
    BY <1>2, <1>3, <2>1
  <2>3. OldPage' = OldPage
    BY DEF OldPage
  <2> QED BY <1>2, <2>2, <2>3
<1>8. (pc = "verify" => page < Pages /\ Verified(page))'
  <2> SUFFICES ASSUME pc' = "verify" PROVE (page < Pages /\ Verified(page))'
    OBVIOUS
  <2>1. PICK n \in 0 .. PageCount : n = page'
    BY <1>2
  <2>2. Verified(n)
    BY <2>1
  <2>3. Verified(n)'
    BY <1>5, <2>2
  <2> QED BY <1>2, <2>1, <2>3 DEF Verified
<1>9. (pc = "restart" \/ exitcode = 0 \/ restarts => Verified(Pages))'
  <2> SUFFICES ASSUME pc' = "restart" \/ exitcode' = 0 \/ restarts' PROVE Verified(Pages)'
    OBVIOUS
  <2>1. PICK n \in 0 .. PageCount : n = Pages
    BY <1>2
  <2>2. Verified(n)
    BY <2>1
  <2>3. Verified(n)'
    BY <1>5, <2>2
  <2> QED BY <1>2, <2>1, <2>3 DEF Verified
<1>10. (pc \in {"read", "orient", "search", "configure", "write", "verify", "restart", "exited"})'
  BY <1>1 DEF FlashInv, Stages
<1> QED BY <1>3, <1>6, <1>7, <1>8, <1>9, <1>10 DEF FlashInv

\* A failed attempt keeps the invariant.
LEMMA FailureInvariant ==
    ASSUME IInv, NEW code \in 1 .. 3, AttemptFails(code), pc \in Stages,
           UNCHANGED <<imageVars, flash, restarts>>, late' \subseteq 0 .. Pages - 1
    PROVE  IInv'
<1>1. Oriented
  BY StageOriented
<1>2. \/ pc' = "search" /\ exitcode' = exitcode
      \/ pc' = "exited" /\ exitcode' = code
  BY DEF AttemptFails, Exit
<1>3. FileInv' /\ ContentInv' /\ Oriented'
  BY <1>1, <1>2, StageKept DEF Stages
<1>4. page' \in Nat /\ pc' \in Stages \cup {pc, "exited"}
  BY <1>2 DEF AttemptFails, Stages
<1>5. exitcode' = 0 \/ restarts' => Verified(Pages)
  BY <1>2 DEF IInv, FlashInv
<1>6. FlashInv'
  BY <1>1, <1>2, <1>3, <1>4, <1>5, FlashKept
<1> QED BY <1>3, <1>6 DEF IInv

\* Searching and configuring keep the invariant.
LEMMA SearchInvariant ==
    ASSUME IInv, Search \/ Configure
    PROVE  IInv'
<1>1. /\ pc \in Stages /\ FlashInv
      /\ UNCHANGED <<imageVars, flash, late, restarts>>
  BY DEF IInv, Search, Configure, Stages
<1>2. CASE AttemptFails(1)
  <2>1. late' \subseteq 0 .. Pages - 1 /\ 1 \in 1 .. 3
    BY <1>1 DEF FlashInv
  <2> QED BY <1>1, <1>2, <2>1, FailureInvariant
<1>3. CASE pc' \in {"search", "configure", "write"} /\ exitcode' = exitcode /\ page' \in Nat
  <2>1. Oriented
    BY <1>1, StageOriented
  <2>2. FileInv' /\ ContentInv' /\ Oriented'
    BY <1>1, <1>3, <2>1, StageKept DEF Stages
  <2>3. FlashInv'
    BY <1>1, <1>3, <2>1, <2>2, FlashKept DEF FlashInv, Stages
  <2> QED BY <2>2, <2>3 DEF IInv
<1>4. page \in Nat
  BY <1>1 DEF FlashInv
<1> QED BY <1>1, <1>2, <1>3, <1>4 DEF Search, Configure, countVars

\* Going on to the next page, or to the stage after the last one.
LEMMA PageAdvance ==
    ASSUME IInv, NEW after \in {"verify", "restart"}, NextPage(after), pc \in Stages
    PROVE  /\ exitcode' = exitcode /\ page' \in Nat /\ Pages \in Nat
           /\ \/ page' = page + 1 /\ page' < Pages /\ pc' = pc
              \/ page' = 0 /\ pc' = after /\ Pages <= page + 1 /\ 0 < Pages
<1>1. Pages \in Nat /\ (firmwarelen > 0 => Pages > 0) /\ firmwarelen \in Nat
  BY PagesOfImage, FlashPages DEF IInv, FileInv
<1>2. Upright
  BY StageOriented DEF IInv, ContentInv
<1>3. 0 < Pages
  BY <1>1, <1>2, SyncAssumption DEF Upright
<1>4. page \in Nat
  BY DEF IInv, FlashInv
<1> QED BY <1>1, <1>3, <1>4 DEF NextPage

\* Writing a page keeps the invariant, stored or not.
LEMMA WriteInvariant ==
    ASSUME IInv, WritePage
    PROVE  IInv'
<1>1. /\ pc = "write" /\ pc \in Stages /\ FlashInv /\ page < Pages
      /\ UNCHANGED <<imageVars, restarts>>
  BY DEF IInv, WritePage, Stages
<1>2. Oriented
  BY <1>1, StageOriented
<1>3. /\ page \in Nat /\ page \in 0 .. Pages - 1 /\ late \subseteq 0 .. Pages - 1
      /\ (exitcode = 0 \/ restarts => Verified(Pages))
  BY <1>1, PagesOfImage, FlashPages DEF FlashInv, IInv, FileInv
<1>4. late' \subseteq 0 .. Pages - 1
  BY <1>3 DEF WritePage
<1>5. CASE AttemptFails(2) /\ flash' = flash
  BY <1>1, <1>4, <1>5, FailureInvariant
<1>6. CASE /\ NextPage("verify")
           /\ flash' = flash \/ flash' = [flash EXCEPT ![page] = PageData(page)]
  <2>1. /\ exitcode' = exitcode /\ page' \in Nat /\ Pages \in Nat
        /\ \/ page' = page + 1 /\ page' < Pages /\ pc' = pc
           \/ page' = 0 /\ pc' = "verify" /\ Pages <= page + 1 /\ 0 < Pages
    BY <1>1, <1>6, PageAdvance
  <2>2. FileInv' /\ ContentInv' /\ Oriented'
    BY <1>1, <1>2, <2>1, StageKept DEF Stages
  <2>3. pc' = "verify" => page' < Pages /\ Verified(page')
    BY <1>1, <2>1 DEF Verified
  <2>4. pc' \in Stages \cup {pc, "exited"} /\ pc' # "restart"
    BY <1>1, <2>1 DEF Stages
  <2>5. \/ flash' = flash
        \/ \E p \in 0 .. Pages - 1 : flash' = [flash EXCEPT ![p] = PageData(p)]
    BY <1>3, <1>6
  <2>6. pc' = "restart" \/ exitcode' = 0 \/ restarts' => Verified(Pages)
    BY <1>1, <1>3, <2>1, <2>4
  <2>7. FlashInv'
    BY <1>1, <1>2, <1>4, <2>1, <2>2, <2>3, <2>4, <2>5, <2>6, FlashKept
  <2> QED BY <2>2, <2>7 DEF IInv
<1> QED BY <1>5, <1>6 DEF WritePage

\* A write that takes effect late keeps the invariant: it stores the image.
LEMMA LateInvariant ==
    ASSUME IInv, NEW p \in 0 .. PageCount - 1, LateWrite(p)
    PROVE  IInv'
<1>1. /\ p \in late /\ late' = late \ {p} /\ flash' = [flash EXCEPT ![p] = PageData(p)]
      /\ UNCHANGED <<imageVars, pc, countVars, restarts>> /\ FlashInv
  BY DEF IInv, LateWrite
<1>2. /\ pc' = pc /\ page' = page /\ exitcode' = exitcode /\ restarts' = restarts
      /\ UNCHANGED imageVars
  BY <1>1 DEF countVars
<1>3. Oriented
  BY <1>1, StageOriented
<1>4. FileInv' /\ ContentInv' /\ Oriented'
  BY <1>2, <1>3, StageKept
<1>5. /\ page \in Nat /\ late \subseteq 0 .. Pages - 1
      /\ pc = "verify" => page < Pages /\ Verified(page)
      /\ pc = "restart" \/ exitcode = 0 \/ restarts => Verified(Pages)
  BY <1>1 DEF FlashInv
<1>6. FlashInv'
  <2>1. pc' = "verify" => page' < Pages /\ Verified(page')
    BY <1>2, <1>5 DEF Verified
  <2>2. \E q \in 0 .. Pages - 1 : flash' = [flash EXCEPT ![q] = PageData(q)]
    BY <1>1, <1>5
  <2>3. /\ late' \subseteq 0 .. Pages - 1 /\ page' \in Nat
        /\ pc' \in Stages \cup {pc, "exited"}
        /\ pc' = "restart" \/ exitcode' = 0 \/ restarts' => Verified(Pages)
    BY <1>1, <1>2, <1>5
  <2> QED BY <1>2, <1>3, <1>4, <2>1, <2>2, <2>3, FlashKept
<1> QED BY <1>4, <1>6 DEF IInv

\* Verifying a page keeps the invariant: one more holds the image.
LEMMA VerifyInvariant ==
    ASSUME IInv, VerifyPage
    PROVE  IInv'
<1>1. /\ pc = "verify" /\ pc \in Stages /\ FlashInv
      /\ UNCHANGED <<imageVars, flash, late, restarts>>
  BY DEF IInv, VerifyPage, Stages
<1>2. Oriented
  BY <1>1, StageOriented
<1>3. /\ page \in Nat /\ page < Pages /\ Verified(page) /\ late \subseteq 0 .. Pages - 1
      /\ (exitcode = 0 \/ restarts => Verified(Pages))
  BY <1>1 DEF FlashInv
<1>4. CASE AttemptFails(2) \/ AttemptFails(3)
  <2>1. late' \subseteq 0 .. Pages - 1 /\ 2 \in 1 .. 3 /\ 3 \in 1 .. 3
    BY <1>1, <1>3
  <2> QED BY <1>1, <1>4, <2>1, FailureInvariant
<1>5. CASE flash[page] = Compared /\ NextPage("restart")
  <2>1. /\ exitcode' = exitcode /\ page' \in Nat /\ Pages \in Nat
        /\ \/ page' = page + 1 /\ page' < Pages /\ pc' = pc
           \/ page' = 0 /\ pc' = "restart" /\ Pages <= page + 1 /\ 0 < Pages
    BY <1>1, <1>5, PageAdvance
  <2>2. FileInv' /\ ContentInv' /\ Oriented'
    BY <1>1, <1>2, <2>1, StageKept DEF Stages
  <2>3. \A p \in 0 .. page : flash[p] = PageData(p)
    BY <1>3, <1>5 DEF Verified, Compared
  <2>4. pc' = "verify" => page' < Pages /\ Verified(page')
    BY <1>1, <1>3, <2>1, <2>3 DEF Verified
  <2>5. pc' = "restart" \/ exitcode' = 0 \/ restarts' => Verified(Pages)
    BY <1>1, <1>3, <2>1, <2>3 DEF Verified
  <2>6. pc' \in Stages \cup {pc, "exited"}
    BY <1>1, <2>1 DEF Stages
  <2>7. FlashInv'
    BY <1>1, <1>2, <1>3, <2>1, <2>2, <2>4, <2>5, <2>6, FlashKept
  <2> QED BY <2>2, <2>7 DEF IInv
<1> QED BY <1>4, <1>5 DEF VerifyPage

\* Restarting the camera keeps the invariant: all pages are verified.
LEMMA RestartInvariant ==
    ASSUME IInv, Restart
    PROVE  IInv'
<1>1. /\ pc = "restart" /\ pc \in Stages /\ FlashInv /\ pc' = "exited" /\ exitcode' = 0
      /\ UNCHANGED <<imageVars, flash, late>> /\ page' = page
  BY DEF IInv, Restart, Stages, Exit
<1>2. Oriented
  BY <1>1, StageOriented
<1>3. FileInv' /\ ContentInv' /\ Oriented'
  BY <1>1, <1>2, StageKept
<1>4. Verified(Pages) /\ page \in Nat /\ late \subseteq 0 .. Pages - 1
  BY <1>1 DEF FlashInv
<1>5. FlashInv'
  BY <1>1, <1>2, <1>3, <1>4, FlashKept
<1> QED BY <1>3, <1>5 DEF IInv

\* Reading, refusing and orienting keep the invariant.
LEMMA ReadInvariant ==
    ASSUME IInv, ReadData \/ ReadSegment \/ ReadEof \/ Refuse \/ Orient
    PROVE  IInv'
<1>1. FileInv' /\ ContentInv'
  <2>1. CASE Refuse
    <3>1. /\ pc = "read" /\ exitcode = -1 /\ pc' = "exited" /\ exitcode' = -1
          /\ UNCHANGED imageVars
      BY <2>1 DEF IInv, FileInv, Refuse, Reading, Exit
    <3>2. ~Parsed' /\ ~Oriented'
      BY <3>1 DEF Parsed, Oriented
    <3> QED BY <3>1, <3>2, ImageKept
  <2> QED BY <2>1, ReadDataInvariant, ReadSegmentInvariant, ReadEofInvariant, OrientInvariant
<1>2. pc \in {"read", "orient"} /\ exitcode = -1
  <2>1. pc \in {"read", "orient"}
    BY DEF ReadData, ReadSegment, ReadEof, Refuse, Orient, Reading
  <2> QED BY <2>1 DEF IInv, FileInv
<1>3. /\ flash' = flash /\ late' = late /\ restarts' = restarts /\ page' = page
      /\ exitcode' = -1
      /\ pc' \in {"read", "orient", "search", "exited"}
  BY <1>2 DEF ReadData, ReadSegment, ReadEof, Refuse, Orient, Reading, LineRead, Exit, countVars
<1>4. FlashInv'
  BY <1>2, <1>3, FlashUntouched
<1> QED BY <1>1, <1>4 DEF IInv

-----------------------------------------------------------------------------
(* The theorems *)

\* The program starts in the invariant.
LEMMA InitInvariant ==
    ASSUME Init
    PROVE  IInv
<1>1. /\ file \in Files /\ linenum = 0 /\ curseg = -1 /\ firmware = Erased /\ firmwarelen = 0
      /\ pc = "read" /\ page = 0 /\ exitcode = -1
      /\ flash = [p \in 0 .. PageCount - 1 |-> OldPage] /\ late = {} /\ restarts = FALSE
  BY DEF Init
<1>2. DataRead = {} /\ SegmentOf(1) = -1 /\ ~Parsed /\ ~Oriented
  BY <1>1 DEF DataRead, SegmentOf, Parsed, Oriented
<1>3. Len(file) \in Nat /\ Size \in Nat \ {0}
  BY <1>1, FileLines, FlashPages, SyncAssumption
<1>4. Contiguous
  BY <1>1, <1>2 DEF Contiguous
<1>5. FileInv
  BY <1>1, <1>2, <1>3, <1>4 DEF FileInv
<1>6. ContentInv
  BY <1>1, <1>2 DEF ContentInv, Copied, Erased
<1>7. FlashInv
  BY <1>1 DEF FlashInv
<1> QED BY <1>5, <1>6, <1>7 DEF IInv

\* Nothing changes when the program and the network do nothing.
LEMMA StutterInvariant ==
    ASSUME IInv, UNCHANGED vars
    PROVE  IInv'
<1>1. /\ UNCHANGED imageVars /\ pc' = pc /\ page' = page /\ exitcode' = exitcode
      /\ flash' = flash /\ late' = late /\ restarts' = restarts
  BY DEF vars, countVars
<1>2. (Parsed' <=> Parsed) /\ (Oriented' <=> Oriented)
  BY <1>1 DEF Parsed, Oriented
<1>3. FileInv' /\ ContentInv'
  BY <1>1, <1>2, ImageKept
<1>4. Pages' = Pages /\ \A p : PageData(p)' = PageData(p)
  BY <1>1, PagesKept
<1>5. FlashInv'
  <2>1. FlashInv /\ OldPage' = OldPage
    BY DEF IInv, OldPage
  <2>2. /\ Verified(page) => Verified(page)'
        /\ Verified(Pages) => Verified(Pages)'
    BY <1>1, <1>4 DEF Verified
  <2> QED BY <1>1, <1>2, <1>4, <2>1, <2>2 DEF FlashInv
<1> QED BY <1>3, <1>5 DEF IInv

(***************************************************************************)
(* At every moment what was read is what the lines say, the flash holds    *)
(* nothing but old pages and pages of the image, and the pages that were   *)
(* verified hold the image whatever write takes effect late.               *)
(***************************************************************************)
THEOREM Invariant == Spec => []IInv
<1>1. Init => IInv
  BY InitInvariant
<1>2. IInv /\ [Next]_vars => IInv'
  <2> SUFFICES ASSUME IInv, [Next]_vars PROVE IInv'
    OBVIOUS
  <2>1. CASE ReadData \/ ReadSegment \/ ReadEof \/ Refuse \/ Orient
    BY <2>1, ReadInvariant
  <2>2. CASE Search \/ Configure
    BY <2>2, SearchInvariant
  <2>3. CASE WritePage
    BY <2>3, WriteInvariant
  <2>4. CASE VerifyPage
    BY <2>4, VerifyInvariant
  <2>5. CASE Restart
    BY <2>5, RestartInvariant
  <2>6. CASE \E p \in 0 .. PageCount - 1 : LateWrite(p)
    BY <2>6, LateInvariant
  <2>7. CASE UNCHANGED vars
    BY <2>7, StutterInvariant
  <2> QED BY <2>1, <2>2, <2>3, <2>4, <2>5, <2>6, <2>7 DEF Next, ProgramStep
<1> QED BY <1>1, <1>2, PTL DEF Spec

(***************************************************************************)
(* upload_mcs touches the flash only for a file all of whose lines it read *)
(* and that its end-of-file line ends, and only pages of that file.        *)
(***************************************************************************)
THEOREM OnlyWholeFilesTouchFlash == Spec => []OnlyWholeFiles
<1>1. IInv => OnlyWholeFiles
  <2> SUFFICES ASSUME IInv, NEW p \in 0 .. PageCount - 1, flash[p] # OldPage
               PROVE  Whole /\ p * PageSize <= LastByte
    BY DEF OnlyWholeFiles
  <2>1. FileInv /\ Oriented /\ Upright /\ p < Pages
    BY DEF IInv, FlashInv, ContentInv
  <2>2. Parsed /\ linenum = Len(file) /\ firmwarelen \in 0 .. Size - 1
    BY <2>1 DEF Oriented, FileInv
  <2>3. Whole
    BY <2>1, <2>2, ParsedWhole
  <2>4. p \in Nat /\ PageSize \in Nat /\ firmwarelen \in Nat
    BY <2>2, FlashPages
  <2>5. p * PageSize < firmwarelen /\ p * PageSize \in Nat
    BY <2>1, <2>2, <2>4, PagesOfImage
  <2>6. LastByte = firmwarelen - 1
    BY <2>1, <2>2, <2>4, <2>5, LastByteRead
  <2> QED BY <2>3, <2>4, <2>5, <2>6
<1> QED BY <1>1, Invariant, PTL

(***************************************************************************)
(* When upload_mcs reports success or restarts the camera, the flash holds *)
(* the whole file the right way round.                                     *)
(***************************************************************************)
THEOREM SuccessMeansStored == Spec => []UploadedMeansStored
<1>1. IInv => UploadedMeansStored
  <2> SUFFICES ASSUME IInv, exitcode = 0 \/ restarts
               PROVE  /\ \A p \in 0 .. LastByte \div PageSize : Stored(p)
                      /\ flash[SyncAt \div PageSize][SyncAt % PageSize] = 170
    BY DEF UploadedMeansStored
  <2>1. FileInv /\ Oriented /\ Upright /\ Verified(Pages)
    BY StageOriented DEF IInv, FlashInv, ContentInv
  <2>2. linenum = Len(file) /\ firmwarelen \in 0 .. Size - 1
    BY <2>1 DEF Oriented, FileInv
  <2>3. /\ PageSize \in Nat \ {0} /\ PageCount \in Nat /\ firmwarelen \in Nat
        /\ SyncAt \in Nat /\ SyncAt \in 0 .. Size - 1
        /\ SyncAt < firmwarelen
    BY <2>1, <2>2, FlashPages, SyncAssumption DEF Upright
  <2>4. /\ Pages \in Nat
        /\ \A p \in Nat : p < Pages <=> p * PageSize < firmwarelen
        /\ \A p \in Nat, k \in 0 .. PageSize - 1 : p < Pages => p * PageSize + k \in 0 .. Size - 1
    BY <2>2, <2>3, PagesOfImage
  <2>5. ASSUME NEW p \in Nat, NEW k \in 0 .. PageSize - 1, p < Pages
        PROVE  flash[p][k] = firmware[p * PageSize + k]
    <3>1. p \in 0 .. Pages - 1
      BY <2>4, <2>5
    <3>2. flash[p] = PageData(p)
      BY <2>1, <3>1 DEF Verified
    <3> QED BY <3>2 DEF PageData
  <2>6. ASSUME NEW p \in Nat, p < Pages
        PROVE  Stored(p)
    <3> SUFFICES ASSUME NEW k \in 0 .. PageSize - 1
                 PROVE  IF FileByte(SyncAt) = 170 THEN flash[p][k] = FileByte(p * PageSize + k)
                        ELSE Turned(flash[p][k], FileByte(p * PageSize + k))
      BY DEF Stored
    <3> DEFINE a == p * PageSize + k
    <3>1. a \in 0 .. Size - 1 /\ flash[p][k] = firmware[a]
      BY <2>4, <2>5, <2>6
    <3> HIDE DEF a
    <3>2. a \in Int /\ FileByte(a) \in Bytes
      BY <2>1, <2>2, <3>1, FileByteType
    <3>3. Turned(Swapped(FileByte(a)), FileByte(a))
      BY <3>2, SwappedTurned
    <3>4. firmware[a] = IF FileByte(SyncAt) = 170 THEN FileByte(a) ELSE Swapped(FileByte(a))
      BY <2>1, <3>1 DEF Upright
    <3>5. IF FileByte(SyncAt) = 170 THEN flash[p][k] = FileByte(a)
          ELSE Turned(flash[p][k], FileByte(a))
      BY <3>1, <3>3, <3>4
    <3> QED BY <3>5 DEF a
  <2>7. ASSUME NEW b \in Nat, b < firmwarelen
        PROVE  /\ b \div PageSize \in Nat /\ b % PageSize \in 0 .. PageSize - 1
               /\ b = (b \div PageSize) * PageSize + (b % PageSize)
               /\ b \div PageSize < Pages
    <3>1. /\ b \div PageSize \in Int /\ b % PageSize \in 0 .. PageSize - 1
          /\ b = (b \div PageSize) * PageSize + (b % PageSize)
      BY <2>3, Remainder
    <3> DEFINE q == b \div PageSize
    <3>2. q \in Nat
      <4>1. /\ 0 * PageSize = 0 /\ (q + 1) * PageSize = q * PageSize + PageSize
            /\ q * PageSize \in Int
        BY <2>3, <3>1, Products
      <4>2. 0 * PageSize < (q + 1) * PageSize
        BY <2>3, <3>1, <4>1
      <4>3. 0 <= q
        BY <2>3, <3>1, <4>2, Below
      <4> QED BY <3>1, <4>3
    <3>3. q * PageSize < firmwarelen
      <4>1. q * PageSize \in Int
        BY <2>3, <3>2, Products
      <4> QED BY <2>3, <2>7, <3>1, <4>1
    <3> QED BY <2>4, <3>1, <3>2, <3>3
  <2>8. ASSUME NEW p \in 0 .. LastByte \div PageSize
        PROVE  Stored(p)
    <3>1. LastByte = firmwarelen - 1 /\ LastByte \in Nat /\ LastByte < firmwarelen
      BY <2>1, <2>2, <2>3, LastByteRead
    <3>2. LastByte \div PageSize \in Nat /\ LastByte \div PageSize < Pages
      BY <2>7, <3>1
    <3>3. p \in Nat /\ p < Pages
      BY <2>4, <3>2
    <3> QED BY <2>6, <3>3
  <2>9. flash[SyncAt \div PageSize][SyncAt % PageSize] = 170
    <3>1. flash[SyncAt \div PageSize][SyncAt % PageSize] = firmware[SyncAt]
      <4> DEFINE q == SyncAt \div PageSize
                 x == SyncAt % PageSize
      <4>1. q \in Nat /\ q < Pages /\ x \in 0 .. PageSize - 1 /\ SyncAt = q * PageSize + x
        BY <2>3, <2>7
      <4> HIDE DEF q, x
      <4>2. flash[q][x] = firmware[q * PageSize + x]
        BY <2>5, <4>1
      <4>3. flash[q][x] = firmware[SyncAt]
        BY <4>1, <4>2
      <4> QED BY <4>3 DEF q, x
    <3> QED BY <2>1, <3>1 DEF Upright
  <2> QED BY <2>8, <2>9
<1> QED BY <1>1, Invariant, PTL
=============================================================================
