--------------------------- MODULE FirmwareUpload ---------------------------
(***************************************************************************)
(* upload_mcs.cpp: reads a firmware file, finds the camera, writes its     *)
(* flash page by page, reads all pages back and restarts the camera, and   *)
(* tries again when any of this fails.                                     *)
(*                                                                         *)
(* A file is the sequence of its lines, read one by one.  A data line has  *)
(* an address and bytes; "bad" stands for a line that cannot be read.      *)
(* Before the first segment line curseg is -1, so that data at address 0   *)
(* is refused.  Finding and configuring (Discovery) succeed or not.        *)
(* wge100ReliableFlashWrite (FlashAccess) stores the page when its compare *)
(* succeeded; when it fails or returns 0 without that, the page may be     *)
(* stored, now or later.                                                   *)
(***************************************************************************)
EXTENDS Integers, Sequences

CONSTANTS Files,
          SegmentSize,  \* bytes an extended address counts (65536)
          PageSize,     \* FLASH_PAGE_SIZE
          PageCount,    \* FLASH_MAX_PAGENO + 1
          SyncAt,       \* where the sync byte is (4)
          MaxFinds,     \* searches in an attempt (5)
          MaxRetries    \* attempts (5)

ASSUME SizesAssumption ==
    {SegmentSize, PageSize, PageCount, MaxFinds, MaxRetries} \subseteq Nat \ {0}
Size == (PageSize * PageCount) \div 2   \* FLASH_SIZE
Bytes == 0 .. 255
Lines == [type : {"data", "segment", "eof", "bad"}, addr : Nat, data : Seq(Bytes)]

ASSUME FilesAssumption == Files \subseteq Seq(Lines)
ASSUME PagesAssumption == PageCount % 2 = 0   \* the reserved half is whole pages
ASSUME SyncAssumption == SyncAt \in 0 .. Size - 1

VARIABLES file,
          linenum, curseg,        \* lines read, and the segment they left
          firmware, firmwarelen,  \* what was read
          pc, page, finds, attempt, exitcode,
          flash,                  \* the pages of the camera
          late,                   \* pages whose write may still take effect
          restarts                \* did the camera restart?

imageVars == <<file, linenum, curseg, firmware, firmwarelen>>
countVars == <<page, finds, attempt, exitcode>>
vars == <<imageVars, pc, countVars, flash, late, restarts>>

\* A page no firmware of the model has.
OldPage == [k \in 0 .. PageSize - 1 |-> 0]
Erased == [a \in 0 .. Size - 1 |-> 255]

Init ==
    /\ file \in Files
    /\ linenum = 0
    /\ curseg = -1
    /\ firmware = Erased
    /\ firmwarelen = 0
    /\ pc = "read"
    /\ page = 0
    /\ finds = 0
    /\ attempt = 0
    /\ exitcode = -1
    /\ flash = [p \in 0 .. PageCount - 1 |-> OldPage]
    /\ late = {}
    /\ restarts = FALSE

-----------------------------------------------------------------------------
(* read_mcs and bitswap *)

Exit(code) ==
    /\ pc' = "exited"
    /\ exitcode' = code

\* The line that is read next, and where its bytes belong.
Line == file[linenum + 1]
Address == curseg + Line.addr

Reading(type) ==
    /\ pc = "read"
    /\ linenum < Len(file)
    /\ Line.type = type

LineRead ==
    /\ linenum' = linenum + 1
    /\ UNCHANGED <<file, countVars, flash, late, restarts>>

\* Is there room for n bytes?  The last byte is never used.
Fits(at, n) == at + n < Size

\* Does a data line not follow the last one?  A fault: gaps are let pass.
FallsBack(at) == at < firmwarelen
NotContiguous(at) == at # firmwarelen

ReadData ==
    /\ Reading("data")
    /\ ~NotContiguous(Address)
    /\ Fits(Address, Len(Line.data))
    /\ firmware' = [a \in DOMAIN firmware |->
          IF a \in firmwarelen .. firmwarelen + Len(Line.data) - 1
          THEN Line.data[a - firmwarelen + 1] ELSE firmware[a]]
    /\ firmwarelen' = firmwarelen + Len(Line.data)
    /\ LineRead
    /\ UNCHANGED <<curseg, pc>>

ReadSegment ==
    /\ Reading("segment")
    /\ curseg' = Line.addr * SegmentSize
    /\ LineRead
    /\ UNCHANGED <<firmware, firmwarelen, pc>>

\* Nothing but white space may follow the end-of-file line.
ReadEof ==
    /\ Reading("eof")
    /\ linenum + 1 = Len(file)
    /\ pc' = "orient"
    /\ LineRead
    /\ UNCHANGED <<curseg, firmware, firmwarelen>>

\* read_mcs returns -1, and so does main.
Refuse ==
    /\ \/ Reading("data") /\ NotContiguous(Address)
       \/ Reading("data") /\ ~Fits(Address, Len(Line.data))
       \/ Reading("eof") /\ linenum + 1 < Len(file)
       \/ Reading("bad")
       \/ pc = "read" /\ linenum = Len(file)
    /\ Exit(-1)
    /\ UNCHANGED <<imageVars, page, finds, attempt, flash, late, restarts>>

\* Bit j of a byte, the first being the lowest.
Weight == <<1, 2, 4, 8, 16, 32, 64, 128>>
Bit(b, j) == (b \div Weight[j]) % 2

Swapped(b) ==
    128 * Bit(b, 1) + 64 * Bit(b, 2) + 32 * Bit(b, 3) + 16 * Bit(b, 4)
      + 8 * Bit(b, 5) + 4 * Bit(b, 6) + 2 * Bit(b, 7) + Bit(b, 8)

\* The sync byte tells which way round the bits of the file are.
Orient ==
    /\ pc = "orient"
    /\ \/ /\ firmware[SyncAt] = 85
          /\ firmware' = [a \in DOMAIN firmware |-> Swapped(firmware[a])]
          /\ pc' = "search"
          /\ UNCHANGED exitcode
       \/ /\ firmware[SyncAt] = 170
          /\ pc' = "search"
          /\ UNCHANGED <<firmware, exitcode>>
       \/ /\ firmware[SyncAt] \notin {85, 170}
          /\ Exit(-1)
          /\ UNCHANGED firmware
    /\ UNCHANGED <<file, linenum, curseg, firmwarelen, page, finds, attempt, flash, late, restarts>>

-----------------------------------------------------------------------------
(* write_flash and the loop of main around it *)

Pages == (firmwarelen + PageSize - 1) \div PageSize
PageData(p) == [k \in 0 .. PageSize - 1 |-> firmware[p * PageSize + k]]

\* write_flash returns -code.
AttemptFails(code) ==
    /\ attempt' = attempt + 1
    /\ finds' = 0
    /\ page' = 0
    /\ IF attempt + 1 < MaxRetries
       THEN pc' = "search" /\ UNCHANGED exitcode
       ELSE Exit(code)

Search ==
    /\ pc = "search"
    /\ \/ /\ pc' = "configure"
          /\ UNCHANGED countVars
       \/ /\ finds + 1 < MaxFinds
          /\ finds' = finds + 1
          /\ UNCHANGED <<pc, page, attempt, exitcode>>
       \/ /\ finds + 1 = MaxFinds
          /\ AttemptFails(1)
    /\ UNCHANGED <<imageVars, flash, late, restarts>>

\* wge100Configure and wge100TriggerControl.
Configure ==
    /\ pc = "configure"
    /\ \/ /\ pc' = "write"
          /\ page' = 0
          /\ UNCHANGED <<finds, attempt, exitcode>>
       \/ AttemptFails(1)
    /\ UNCHANGED <<imageVars, flash, late, restarts>>

NextPage(after) ==
    /\ IF page + 1 < Pages
       THEN page' = page + 1 /\ UNCHANGED pc
       ELSE page' = 0 /\ pc' = after
    /\ UNCHANGED <<finds, attempt, exitcode>>

WritePage ==
    /\ pc = "write"
    /\ page < Pages
    /\ \/ /\ flash' = [flash EXCEPT ![page] = PageData(page)]
          /\ late' = late \ {page}
          /\ NextPage("verify")
       \/ /\ late' = late \cup {page}
          /\ NextPage("verify") \/ AttemptFails(2)
          /\ UNCHANGED flash
    /\ UNCHANGED <<imageVars, restarts>>

\* A write that was given up on takes effect.
LateWrite(p) ==
    /\ p \in late
    /\ late' = late \ {p}
    /\ flash' = [flash EXCEPT ![p] = PageData(p)]
    /\ UNCHANGED <<imageVars, pc, countVars, restarts>>

\* What a page is compared with, and a fault: it is not.
AsFound == flash[page]
Compared == PageData(page)

VerifyPage ==
    /\ pc = "verify"
    /\ \/ /\ flash[page] = Compared
          /\ NextPage("restart")
       \/ /\ flash[page] # Compared
          /\ AttemptFails(3)
       \/ AttemptFails(2)
    /\ UNCHANGED <<imageVars, flash, late, restarts>>

\* wge100ReconfigureFPGA: nobody answers, and its result is not looked at.
Restart ==
    /\ pc = "restart"
    /\ restarts' \in BOOLEAN
    /\ Exit(0)
    /\ UNCHANGED <<imageVars, page, finds, attempt, flash, late>>

ProgramStep ==
    \/ ReadData
    \/ ReadSegment
    \/ ReadEof
    \/ Refuse
    \/ Orient
    \/ Search
    \/ Configure
    \/ WritePage
    \/ VerifyPage
    \/ Restart

Next ==
    \/ ProgramStep
    \/ \E p \in 0 .. PageCount - 1 : LateWrite(p)

Spec == Init /\ [][Next]_vars

-----------------------------------------------------------------------------
(***************************************************************************)
(* What the file says, read off its lines: the byte it gives to address a. *)
(* The segment of a line is the one named last before it.                  *)
(***************************************************************************)
SegmentOf(k) ==
    LET before == {j \in 1 .. k - 1 : file[j].type = "segment"} IN
    IF before = {} THEN -1
    ELSE SegmentSize * file[CHOOSE j \in before : \A i \in before : i <= j].addr
DataLines == {k \in DOMAIN file : file[k].type = "data"}
Start(k) == SegmentOf(k) + file[k].addr
Covers(k, a) == a \in Start(k) .. Start(k) + Len(file[k].data) - 1
FileByte(a) ==
    IF \E k \in DataLines : Covers(k, a)
    THEN LET k == CHOOSE k \in DataLines : Covers(k, a) IN file[k].data[a - Start(k) + 1]
    ELSE 255
LastByte == IF DataLines = {} THEN -1
            ELSE CHOOSE a \in 0 .. Size : /\ \E k \in DataLines : Covers(k, a)
                                          /\ \A k \in DataLines : ~Covers(k, a + 1)

\* Page p holds what a camera needs: the bytes of the file, all of them turned
\* round when its sync byte is.
Turned(x, b) == x \in Bytes /\ \A j \in 1 .. 8 : Bit(x, j) = Bit(b, 9 - j)
Stored(p) ==
    \A k \in 0 .. PageSize - 1 :
        LET b == FileByte(p * PageSize + k)
        IN  IF FileByte(SyncAt) = 170 THEN flash[p][k] = b ELSE Turned(flash[p][k], b)

(***************************************************************************)
(* When the program reports success or restarts the camera, every page up  *)
(* to the last byte of the file holds what the file says, and the sync     *)
(* byte is the right way round; a write that takes effect after the        *)
(* verification changes nothing.                                           *)
(***************************************************************************)
UploadedMeansStored ==
    exitcode = 0 \/ restarts =>
      /\ \A p \in 0 .. LastByte \div PageSize : Stored(p)
      /\ flash[SyncAt \div PageSize][SyncAt % PageSize] = 170

(***************************************************************************)
(* The flash is touched only for a file that is whole: every line readable *)
(* and in its place, an end-of-file line last.  And pages beyond the file, *)
(* the camera's own configuration among them, are never touched.           *)
(***************************************************************************)
Whole ==
    /\ file # <<>> /\ file[Len(file)].type = "eof"
    /\ \A k \in 1 .. Len(file) - 1 : file[k].type \in {"data", "segment"}
    /\ \A k \in DataLines :
          {a \in 0 .. Size - 1 : \E j \in DataLines : j < k /\ Covers(j, a)} = 0 .. Start(k) - 1
OnlyWholeFiles ==
    \A p \in 0 .. PageCount - 1 :
        flash[p] # OldPage => Whole /\ p * PageSize <= LastByte
=============================================================================
