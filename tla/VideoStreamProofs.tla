-------------------------- MODULE VideoStreamProofs --------------------------
(***************************************************************************)
(* Theorems about VideoStream, for every size of the frames, of the frame  *)
(* numbers and of the network, as long as fewer frames are missing in a    *)
(* row than half of the frame numbers.                                     *)
(***************************************************************************)
EXTENDS VideoStream, FiniteSetTheorems, SequenceTheorems, TLAPS

-----------------------------------------------------------------------------
(* Products and remainders, for the numbers that wrap *)

(***************************************************************************)
(* A product with a constant distributes, and grows with its factors.      *)
(***************************************************************************)
LEMMA Products ==
    ASSUME NEW a \in Int, NEW b \in Int, NEW c \in Int
    PROVE  /\ a * c \in Int /\ c * a \in Int
           /\ (a + b) * c = a * c + b * c
           /\ c * (a + b) = c * a + c * b
           /\ (a <= b /\ c >= 0) => a * c <= b * c /\ c * a <= c * b
  OBVIOUS

(***************************************************************************)
(* Dividing with remainder, and that the remainder is unique.              *)
(***************************************************************************)
LEMMA Remainder ==
    ASSUME NEW a \in Int, NEW M \in Nat \ {0}
    PROVE  /\ a \div M \in Int
           /\ a % M \in 0 .. M - 1
           /\ a = M * (a \div M) + (a % M)
  OBVIOUS

\* A number has one remainder only.
LEMMA RemainderUnique ==
    ASSUME NEW M \in Nat \ {0}, NEW q \in Int, NEW r \in 0 .. M - 1,
           NEW p \in Int, NEW s \in 0 .. M - 1, M * q + r = M * p + s
    PROVE  r = s
<1>1. ASSUME NEW x \in Int, NEW y \in Int, x > y PROVE M * x >= M * y + M
  <2>1. y + 1 <= x /\ M * (y + 1) = M * y + M * 1
    BY <1>1, Products
  <2> QED BY <2>1, Products
<1>2. M * q \in Int /\ M * p \in Int
  BY Products
<1>3. CASE q > p
  BY <1>1, <1>2, <1>3
<1>4. CASE p > q
  BY <1>1, <1>2, <1>4
<1> QED BY <1>2, <1>3, <1>4

\* Multiples do not change a remainder.
LEMMA RemainderOfSum ==
    ASSUME NEW M \in Nat \ {0}, NEW q \in Int, NEW r \in 0 .. M - 1
    PROVE  (r + M * q) % M = r
<1> DEFINE a == r + M * q
<1>1. M * q \in Int
  BY Products
<1>2. a \in Int /\ a = M * q + r
  BY <1>1
<1> HIDE DEF a
<1>3. a \div M \in Int /\ a % M \in 0 .. M - 1 /\ a = M * (a \div M) + (a % M)
  BY <1>2, Remainder
<1>4. a % M = r
  BY <1>2, <1>3, RemainderUnique
<1> QED BY <1>4 DEF a

(***************************************************************************)
(* The masked difference of two frame numbers is the difference of the     *)
(* frames, as long as that is below the modulus.                           *)
(***************************************************************************)
LEMMA MaskedDifference ==
    ASSUME NEW M \in Nat \ {0}, NEW a \in Int, NEW d \in 0 .. M - 1
    PROVE  (((a + d) % M) - (a % M)) % M = d
<1> DEFINE x == ((a + d) % M) - (a % M)
           q == (a + d) \div M
           p == a \div M
<1>1. /\ a + d = M * q + ((a + d) % M)
      /\ a = M * p + (a % M)
      /\ q \in Int /\ p \in Int /\ x \in Int
      /\ (a + d) % M \in Int /\ a % M \in Int
  <2>1. a + d \in Int /\ M \in Int
    OBVIOUS
  <2>2. a + d = M * q + ((a + d) % M) /\ q \in Int /\ (a + d) % M \in 0 .. M - 1
    BY <2>1, Remainder
  <2>3. a = M * p + (a % M) /\ p \in Int /\ a % M \in 0 .. M - 1
    BY Remainder
  <2> QED BY <2>2, <2>3
<1>2. x = M * (x \div M) + (x % M) /\ x \div M \in Int /\ x % M \in 0 .. M - 1
  BY <1>1, Remainder
<1>3. x = M * p - M * q + d
  <2>1. M * p \in Int /\ M * q \in Int
    BY <1>1, Products
  <2> QED BY <1>1, <2>1
<1>4. M * (p - q) + M * q = M * p
  <2>1. p - q \in Int /\ (p - q) + q = p
    BY <1>1
  <2> QED BY <1>1, <2>1, Products
<1> HIDE DEF x, q, p
<1>5. M * (p - q) + d = M * (x \div M) + (x % M) /\ p - q \in Int
  BY <1>1, <1>2, <1>3, <1>4, Products
<1> QED BY <1>2, <1>5, RemainderUnique DEF x

\* The same when only the later number was reduced.
LEMMA MaskedDistance ==
    ASSUME NEW M \in Nat \ {0}, NEW a \in Int, NEW d \in 0 .. M - 1
    PROVE  (((a + d) % M) - a) % M = d
<1>1. PICK t \in Int : t = a + d
  OBVIOUS
<1>2. PICK q \in Int, r \in 0 .. M - 1 : t = M * q + r /\ t % M = r
  BY Remainder
<1>3. M * q \in Int /\ M * (-q) \in Int /\ M * (-q) = -(M * q)
  BY Products
<1>4. r - a = d + M * (-q)
  BY <1>1, <1>2, <1>3
<1>5. (d + M * (-q)) % M = d
  BY RemainderOfSum
<1> QED BY <1>1, <1>2, <1>4, <1>5

(***************************************************************************)
(* Numbers less than the modulus apart have the same remainder only when   *)
(* they are equal.                                                         *)
(***************************************************************************)
LEMMA SameRemainder ==
    ASSUME NEW M \in Nat \ {0}, NEW a \in Int, NEW d \in 0 .. M - 1, (a + d) % M = a % M
    PROVE  d = 0
<1>1. (((a + d) % M) - (a % M)) % M = d
  BY MaskedDifference
<1>2. a % M \in 0 .. M - 1
  BY Remainder
<1>3. ((a + d) % M) - (a % M) = 0
  BY <1>2
<1>4. 0 % M = 0
  <2>1. 0 % M \in 0 .. M - 1 /\ 0 \div M \in Int /\ 0 = M * (0 \div M) + (0 % M)
    BY Remainder
  <2>2. M * 0 + 0 = 0 /\ 0 \in 0 .. M - 1
    OBVIOUS
  <2> QED BY <2>1, <2>2, RemainderUnique
<1> QED BY <1>1, <1>3, <1>4

(***************************************************************************)
(* The remainder of the successor.                                         *)
(***************************************************************************)
LEMMA NextRemainder ==
    ASSUME NEW M \in Nat \ {0}, NEW a \in Int
    PROVE  ((a % M) + 1) % M = (a + 1) % M
<1> DEFINE r == a % M
           q == a \div M
           p == (r + 1) \div M
           t == (r + 1) % M
<1>1. q \in Int /\ r \in Int /\ a = M * q + r
  BY Remainder
<1>2. p \in Int /\ t \in 0 .. M - 1 /\ r + 1 = M * p + t
  <2> HIDE DEF r
  <2> QED BY <1>1, Remainder
<1> HIDE DEF r, q, p, t
<1>3. M * (q + p) = M * q + M * p /\ M * q \in Int /\ M * p \in Int /\ q + p \in Int
  BY <1>1, <1>2, Products
<1>4. a + 1 = M * (q + p) + t
  BY <1>1, <1>2, <1>3
<1>5. /\ (a + 1) \div M \in Int /\ (a + 1) % M \in 0 .. M - 1
      /\ a + 1 = M * ((a + 1) \div M) + ((a + 1) % M)
  BY Remainder
<1>6. (a + 1) % M = t
  BY <1>2, <1>3, <1>4, <1>5, RemainderUnique
<1> QED BY <1>6 DEF t, r


-----------------------------------------------------------------------------
(* Packets *)

FailureLines == {LINENO_ERR, LINENO_OVF, LINENO_ABORT, Rows}

\* The packets of a frame have indices: the rows, the XOR row, the EOF.
Indices == 0 .. Rows + 1
Code(f, k) == IF k < Rows THEN LineField(f, k, FrameBits)
              ELSE IF k = Rows THEN LINENO_XOR ELSE LINENO_EOF
Index(e) == IF e.pkt.line = LINENO_EOF THEN Rows + 1
            ELSE IF e.pkt.line = LINENO_XOR THEN Rows ELSE MaskLine(e.pkt.line)

AllRows(f) == { <<f, l>> : l \in Lines }
Payload(f, k) == IF k < Rows THEN Row(f, k) ELSE IF k = Rows THEN AllRows(f) ELSE Black

Pixels == SUBSET (Nat \X Nat)
Entry == [pkt : [frame : Int, line : Int, data : Pixels, fits : BOOLEAN], origin : Nat]
Failure(e) == e.pkt.line \in FailureLines

Flight == Range(net)

\* Was packet k of frame f sent?  Is it lost or in flight?
WasSent(f, k) ==
    IF f = frame_number THEN k < line_number
    ELSE f < frame_number /\ f \notin aborted /\ (k = Rows => SendXor)
Gone(f, k) == <<f, Code(f, k)>> \in lost
Flying(f, k) == \E e \in Flight : e.origin = f /\ e.pkt.line = Code(f, k)
Out(f, k) == Gone(f, k) \/ Flying(f, k)
RowsGone(f) == \A l \in Lines : Gone(f, l)

-----------------------------------------------------------------------------
(* The camera and the network *)

SourceInv ==
    /\ frame_number \in 0 .. MaxFrame + 1
    /\ line_number \in -1 .. Rows - 1
    /\ inframe => frame_number <= MaxFrame
    /\ exposure = IF inframe THEN frame_number ELSE frame_number - 1
    /\ inframe => xorram = { <<frame_number, l>> : l \in 0 .. line_number - 1 }
    /\ aborted \subseteq 0 .. frame_number - 1
    /\ Cardinality(aborted) <= MaxAborts

(***************************************************************************)
(* A packet in flight is one the camera announces a failure with, or       *)
(* packet number Index(e) of its frame, and was sent.                      *)
(***************************************************************************)
Genuine(e) ==
    /\ e.origin \in 0 .. frame_number
    /\ e.pkt.frame = e.origin % FrameMod
    /\ \/ Failure(e)
       \/ /\ e.pkt.fits
          /\ Index(e) \in Indices
          /\ e.pkt.line = Code(e.origin, Index(e))
          /\ e.pkt.data = Payload(e.origin, Index(e))
          /\ e.origin = frame_number => Index(e) < line_number
          /\ Index(e) >= Rows => e.origin \notin aborted
          /\ Index(e) = Rows => SendXor

\* The order of two packets: by frame, in a frame by index.
Before(d, e) ==
    \/ d.origin < e.origin
    \/ /\ d.origin = e.origin
       /\ d.pkt.line # LINENO_EOF
       /\ Failure(d) \/ Failure(e) \/ Index(d) < Index(e)

Ordered(s) == \A i, j \in DOMAIN s : i < j => Before(s[i], s[j])

NetInv ==
    /\ net \in Seq(Entry)
    /\ Len(net) <= NetCapacity
    /\ \A e \in Flight : Genuine(e)
    /\ Ordered(net)

\* A packet that is lost was sent: x is the record the history keeps of it.
LostWasSent(x) ==
    \E f \in 0 .. frame_number :
       \/ \E c \in FailureLines : x = <<f, c>>
       \/ \E k \in Indices : x = <<f, Code(f, k)>> /\ (f = frame_number => k < line_number)

LostInv ==
    /\ IsFiniteSet(lost)
    /\ Cardinality(lost) <= MaxLost
    /\ \A x \in lost : LostWasSent(x)
    /\ \A e \in Flight : ~Failure(e) => <<e.origin, e.pkt.line>> \notin lost

-----------------------------------------------------------------------------
(* The host *)

FrameSet == [frame_number : 0 .. FrameMod - 1, lineCount : Nat, lastMissingLine : Int,
             missingLines : Int, has_xor : BOOLEAN, xorline : Pixels,
             frame_buf : [Lines -> Pixels]]

Held(fr) == { l \in Lines : fr.frame_buf[l] # Black }

(***************************************************************************)
(* The count of missing rows never runs ahead of the rows that came; when  *)
(* row 0 came, lastMissingLine is the last row that is missing among them. *)
(***************************************************************************)
GapsNoted(fr) ==
    LET top == fr.lineCount + fr.missingLines IN
    /\ fr.missingLines \in 0 .. Rows - 1 /\ fr.lastMissingLine \in -1 .. Rows - 2
    /\ \/ Held(fr) = {} /\ fr.missingLines = 0 /\ fr.lastMissingLine = -1
       \/ \E t \in Held(fr) : top <= t + 1 /\ fr.lastMissingLine < t
    /\ 0 \in Held(fr) =>
         /\ \A l \in Held(fr) : l < top
         /\ \A l \in Lines : l < top => l \in Held(fr) \/ l <= fr.lastMissingLine
         /\ fr.lastMissingLine \notin Held(fr)

\* The frame under assembly is frame h.
FrameAt(h, fr) ==
    /\ fr \in FrameSet
    /\ fr.frame_number = h % FrameMod
    /\ \A l \in Lines : fr.frame_buf[l] \in {Black, Row(h, l)}
    /\ fr.lineCount = Cardinality(Held(fr))
    /\ fr.has_xor => SendXor /\ fr.xorline = AllRows(h)
    /\ GapsNoted(fr)

(***************************************************************************)
(* Every packet of frame h that was sent is held, lost or in flight, or    *)
(* was of no use as no row of the frame came.                              *)
(***************************************************************************)
Accounted(h, fr) ==
    /\ \A e \in Flight : e.origin >= h
    /\ \A e \in Flight : e.origin = h /\ ~Failure(e) => \A l \in Held(fr) : l < Index(e)
    /\ \A l \in Held(fr) : ~Gone(h, l) /\ (h = frame_number => l < line_number)
    /\ ~FrameBits => \A l \in Lines : WasSent(h, l) => l \in Held(fr) \/ Out(h, l)
    /\ WasSent(h, Rows) => fr.has_xor \/ Out(h, Rows) \/ RowsGone(h)
    /\ WasSent(h, Rows + 1) => Out(h, Rows + 1) \/ RowsGone(h)

\* Of the frames after h nothing was received.
Ahead(h) ==
    \A f \in 0 .. frame_number : f > h => \A k \in Indices : WasSent(f, k) => Out(f, k)

\* What could be delivered of the frames before h was.
Settled(h) ==
    ~FrameBits => \A f \in Frames : f < h /\ f \notin aborted /\ Recoverable(f) => f \in delivered

HalfRange == (FrameMod - 1) \div 2

\* The host waits for the rest of frame h, of which it has fr.
Receiving(h, fr) ==
    /\ FrameAt(h, fr)
    /\ Accounted(h, fr)
    /\ Ahead(h)
    /\ Settled(h)
    /\ h - handed \in 1 .. HalfRange

HostInv ==
    status = "receiving" =>
      IF firstPacket
      THEN frame = FreshFrame(0, Black) /\ report = NoReport /\ handed = -1 /\ Ahead(-1)
      ELSE \E h \in 0 .. frame_number : Receiving(h, frame)

HandedInv == handed \in -1 .. frame_number - 1 /\ delivered \subseteq 0 .. frame_number - 1

\* The last report is one of frame f.
ReportOf(f) ==
    /\ f < frame_number /\ f % FrameMod = report.frame_number
    /\ \A l \in Lines : /\ report.frame_buf[l] \subseteq AllRows(f)
                        /\ \/ report.frame_buf[l] \in {Black, Row(f, l)}
                           \/ report.repaired /\ l = report.lastMissingLine
    /\ Complete(report) => \/ report.frame_buf = Image(f)
                           \/ report.repaired /\ LostRows(f) \cap {0, Rows - 1} # {}
    /\ (~FrameBits /\ report.eof /\ report.shortFrame) =>
          report.missingLines = Cardinality(LostRows(f))
    /\ report.eof => \A e \in Flight : e.origin > f

\* The history counts the reports on as the driver does: it knows the frame.
ReportInv == IF report = NoReport THEN handed = -1 ELSE handed \in Frames /\ ReportOf(handed)

IInv == /\ TypeOK /\ SourceInv /\ NetInv /\ LostInv /\ HostInv /\ HandedInv /\ ReportInv

-----------------------------------------------------------------------------
(* Lemmas about packets *)

\* What the assumptions say of the constants, in the form the provers need.
LEMMA Constants ==
    /\ Rows \in Nat /\ Rows >= 1 /\ Rows <= 1008
    /\ FrameMod \in Nat \ {0} /\ FrameMod >= 2
    /\ MaxFrame \in Nat /\ MaxAborts \in Nat /\ NetCapacity \in Nat /\ MaxLost \in Nat
    /\ FrameBits \in BOOLEAN /\ SendXor \in BOOLEAN /\ ~(FrameBits /\ SendXor)
  BY RowsAssumption, FrameModAssumption, BuildAssumption, SourceAssumption, AliasAssumption

(***************************************************************************)
(* The reserved line numbers are distinct and above those of rows.         *)
(***************************************************************************)
LEMMA Reserved ==
    /\ LINENO_XOR \in Int /\ LINENO_ABORT \in Int /\ LINENO_OVF \in Int /\ LINENO_ERR \in Int
    /\ LINENO_EOF \in Int
    /\ 1024 * 63 + 1008 < LINENO_XOR
    /\ LINENO_XOR < LINENO_ABORT /\ LINENO_ABORT < LINENO_OVF /\ LINENO_OVF < LINENO_ERR
    /\ LINENO_ERR < LINENO_EOF
  BY SMT DEF LINENO_XOR, LINENO_ABORT, LINENO_OVF, LINENO_ERR, LINENO_EOF

(***************************************************************************)
(* A row's line number field: the mask finds the row, and no failure and   *)
(* no other packet has it.                                                 *)
(***************************************************************************)
LEMMA RowCode ==
    ASSUME NEW f \in Nat, NEW l \in Lines, NEW b \in BOOLEAN
    PROVE  /\ LineField(f, l, b) \in Nat /\ LineField(f, l, b) < LINENO_XOR
           /\ MaskLine(LineField(f, l, b)) = l
           /\ ~b => LineField(f, l, b) = l
           /\ LineField(f, l, b) # Rows
<1> DEFINE M == 1024
           q == f % 64
<1>0. /\ Rows \in Nat /\ l \in Nat /\ l < Rows /\ l \in Int
      /\ M \in Nat \ {0} /\ Rows < M /\ l \in 0 .. M - 1
  BY Constants, SMT DEF Lines
<1>1. q \in 0 .. 63
  BY Remainder
<1>2. /\ l + M * q \in Nat /\ l + M * q < LINENO_XOR
      /\ q = 0 => l + M * q = l
      /\ q # 0 => l + M * q >= M
      /\ l < LINENO_XOR
  <2> HIDE DEF q
  <2> QED BY <1>0, <1>1, Constants, Reserved, SMT
<1>3. LineField(f, l, b) = IF b THEN l + M * q ELSE l
  BY DEF LineField
<1>4. MaskLine(LineField(f, l, b)) = LineField(f, l, b) % M
  BY DEF MaskLine
<1> HIDE DEF M, q
<1>5. l % M = l /\ (l + M * q) % M = l
  <2>1. q \in Int /\ M * 0 = 0 /\ l + 0 = l
    BY <1>0, <1>1
  <2>2. (l + M * 0) % M = l /\ (l + M * q) % M = l
    BY <1>0, <2>1, RemainderOfSum
  <2> QED BY <2>1, <2>2
<1>6. CASE b
  <2>1. LineField(f, l, b) = l + M * q
    BY <1>3, <1>6
  <2>2. l + M * q # Rows
    BY <1>0, <1>2
  <2> QED BY <1>2, <1>4, <1>5, <1>6, <2>1, <2>2
<1>7. CASE ~b
  <2>1. LineField(f, l, b) = l
    BY <1>3, <1>7
  <2>2. l # Rows
    BY <1>0
  <2> QED BY <1>0, <1>2, <1>4, <1>5, <1>7, <2>1, <2>2
<1> QED BY <1>6, <1>7

(***************************************************************************)
(* The codes of the packets of a frame are distinct and differ from those  *)
(* of the failures.                                                        *)
(***************************************************************************)
LEMMA Codes ==
    ASSUME NEW f \in Nat, NEW k \in Indices
    PROVE  /\ Code(f, k) \in Int /\ Code(f, k) \notin FailureLines
           /\ k < Rows => Code(f, k) < LINENO_XOR /\ MaskLine(Code(f, k)) = k
           /\ k = Rows => Code(f, k) = LINENO_XOR
           /\ k = Rows + 1 => Code(f, k) = LINENO_EOF
           /\ \A j \in Indices : Code(f, j) = Code(f, k) => j = k
           /\ ~FrameBits /\ k < Rows => Code(f, k) = k
<1>0. /\ Rows \in Nat /\ Rows >= 1 /\ Rows <= 1008 /\ FrameBits \in BOOLEAN
  BY Constants
<1>1. ASSUME NEW j \in Indices
      PROVE  /\ j < Rows => /\ Code(f, j) \in Nat /\ Code(f, j) < LINENO_XOR
                            /\ MaskLine(Code(f, j)) = j
                            /\ Code(f, j) # Rows
                            /\ ~FrameBits => Code(f, j) = j
             /\ j = Rows => Code(f, j) = LINENO_XOR
             /\ j = Rows + 1 => Code(f, j) = LINENO_EOF
             /\ j < Rows \/ j = Rows \/ j = Rows + 1
             /\ j \in Nat
  <2>1. CASE j < Rows
    <3>1. j \in Lines /\ Code(f, j) = LineField(f, j, FrameBits) /\ j # Rows /\ j # Rows + 1
      BY <1>0, <2>1, SMT DEF Indices, Code, Lines
    <3>2. /\ Code(f, j) \in Nat /\ Code(f, j) < LINENO_XOR
          /\ MaskLine(Code(f, j)) = j
          /\ Code(f, j) # Rows
          /\ ~FrameBits => Code(f, j) = j
      BY <1>0, <3>1, RowCode
    <3>3. j \in Nat
      BY <1>0 DEF Indices
    <3> QED BY <2>1, <3>1, <3>2, <3>3
  <2>2. CASE j >= Rows
    BY <1>0, <2>2, SMT DEF Indices, Code
  <2> QED BY <1>0, <2>1, <2>2, SMT DEF Indices
<1>3. Code(f, k) \notin FailureLines /\ Code(f, k) \in Int
  BY <1>0, <1>1, Reserved, SMT DEF FailureLines
<1>4. ASSUME NEW j \in Indices, Code(f, j) = Code(f, k) PROVE j = k
  BY <1>0, <1>1, <1>4, Reserved, SMT
<1> QED BY <1>1, <1>3, <1>4

\* Packet k of frame f.
Ent(f, k) == Sent(f, Code(f, k), Payload(f, k))

\* The fields of the packet with index k of frame f.
LEMMA Entries ==
    ASSUME NEW f \in Nat, NEW k \in Indices
    PROVE  /\ Ent(f, k) \in Entry
           /\ Ent(f, k).origin = f /\ Ent(f, k).pkt.line = Code(f, k)
           /\ Ent(f, k).pkt.frame = f % FrameMod /\ Ent(f, k).pkt.fits
           /\ Ent(f, k).pkt.data = Payload(f, k)
           /\ Index(Ent(f, k)) = k /\ ~Failure(Ent(f, k))
<1>0. Rows \in Nat /\ FrameMod \in Nat \ {0}
  BY Constants
<1>1. Code(f, k) \in Int
  BY Codes
<1>2. f % FrameMod \in Int
  BY <1>0, Remainder
<1>3. Payload(f, k) \in Pixels
  BY <1>0 DEF Payload, Row, AllRows, Lines, Black, Pixels, Indices
<1>4. /\ Ent(f, k).origin = f /\ Ent(f, k).pkt.line = Code(f, k)
      /\ Ent(f, k).pkt.frame = f % FrameMod /\ Ent(f, k).pkt.fits
      /\ Ent(f, k).pkt.data = Payload(f, k)
  BY DEF Ent, Sent, Packet
<1>5. Index(Ent(f, k)) = k
  BY <1>0, <1>4, Codes, Reserved DEF Index, Indices
<1>6. ~Failure(Ent(f, k))
  BY <1>4, Codes DEF Failure
<1>7. Ent(f, k) \in Entry
  BY <1>1, <1>2, <1>3 DEF Ent, Sent, Packet, Entry
<1> QED BY <1>4, <1>5, <1>6, <1>7

-----------------------------------------------------------------------------
(* Lemmas about the packets in flight *)

(***************************************************************************)
(* A packet put behind those in flight.                                    *)
(***************************************************************************)
LEMMA Pushed ==
    ASSUME NEW s \in Seq(Entry), NEW e \in Entry
    PROVE  /\ s \o <<e>> \in Seq(Entry) /\ Len(s \o <<e>>) = Len(s) + 1
           /\ Range(s \o <<e>>) = Range(s) \cup {e}
           /\ Ordered(s) /\ (\A d \in Range(s) : Before(d, e)) => Ordered(s \o <<e>>)
<1>1. <<e>> \in Seq(Entry) /\ Len(<<e>>) = 1 /\ Range(<<e>>) = {e} /\ <<e>>[1] = e
  BY DEF Range
<1> DEFINE t == s \o <<e>>
<1>2. /\ t \in Seq(Entry) /\ Len(t) = Len(s) + 1
      /\ \A i \in 1 .. Len(s) + 1 : t[i] = IF i <= Len(s) THEN s[i] ELSE <<e>>[i - Len(s)]
  BY <1>1, ConcatProperties
<1>3. Range(t) = Range(s) \cup {e}
  <2>1. Range(t) = Range(s) \cup Range(<<e>>)
    BY <1>1, RangeConcatenation
  <2> QED BY <1>1, <2>1
<1>4. /\ DOMAIN t = 1 .. Len(s) + 1 /\ DOMAIN s = 1 .. Len(s) /\ Len(s) \in Nat
      /\ \A i \in 1 .. Len(s) : t[i] = s[i] /\ s[i] \in Range(s)
      /\ t[Len(s) + 1] = e
  BY <1>1, <1>2 DEF Range
<1> HIDE DEF t
<1>5. ASSUME Ordered(s), \A d \in Range(s) : Before(d, e),
             NEW i \in DOMAIN t, NEW j \in DOMAIN t, i < j
      PROVE  Before(t[i], t[j])
  <2>1. CASE j <= Len(s)
    BY <1>4, <1>5, <2>1 DEF Ordered
  <2>2. CASE j = Len(s) + 1
    BY <1>4, <1>5, <2>2
  <2> QED BY <1>4, <2>1, <2>2
<1> QED BY <1>2, <1>3, <1>5 DEF t, Ordered

(***************************************************************************)
(* The oldest packet taken away.                                           *)
(***************************************************************************)
LEMMA Popped ==
    ASSUME NEW s \in Seq(Entry), s # <<>>
    PROVE  /\ Head(s) \in Entry /\ Tail(s) \in Seq(Entry) /\ Len(Tail(s)) = Len(s) - 1
           /\ Range(s) = Range(Tail(s)) \cup {Head(s)}
           /\ Ordered(s) => Ordered(Tail(s)) /\ \A e \in Range(Tail(s)) : Before(Head(s), e)
<1> DEFINE t == Tail(s)
<1>1. /\ Head(s) \in Entry /\ t \in Seq(Entry) /\ Len(t) = Len(s) - 1
      /\ \A i \in 1 .. Len(t) : t[i] = s[i + 1]
  BY HeadTailProperties
<1>2. /\ Len(s) \in Nat /\ Len(s) >= 1 /\ DOMAIN s = 1 .. Len(s) /\ DOMAIN t = 1 .. Len(s) - 1
      /\ Head(s) = s[1] /\ \A i \in DOMAIN t : t[i] = s[i + 1]
  BY <1>1, EmptySeq
<1> HIDE DEF t
<1>3. Range(s) = Range(t) \cup {Head(s)}
  <2>1. ASSUME NEW e \in Range(s) PROVE e \in Range(t) \cup {Head(s)}
    <3>1. PICK i \in DOMAIN s : e = s[i]
      BY DEF Range
    <3>2. CASE i = 1
      BY <1>2, <3>1, <3>2
    <3>3. CASE i # 1
      <4>1. i - 1 \in DOMAIN t /\ t[i - 1] = e
        BY <1>2, <3>1, <3>3
      <4> QED BY <4>1 DEF Range
    <3> QED BY <3>2, <3>3
  <2>2. ASSUME NEW e \in Range(t) \cup {Head(s)} PROVE e \in Range(s)
    <3>1. CASE e = Head(s)
      BY <1>2, <3>1 DEF Range
    <3>2. CASE e \in Range(t)
      <4>1. PICK i \in DOMAIN t : e = t[i]
        BY <3>2 DEF Range
      <4>2. i + 1 \in DOMAIN s /\ s[i + 1] = e
        BY <1>2, <4>1
      <4> QED BY <4>2 DEF Range
    <3> QED BY <3>1, <3>2
  <2> QED BY <2>1, <2>2
<1>4. ASSUME Ordered(s) PROVE Ordered(t) /\ \A e \in Range(t) : Before(Head(s), e)
  <2>1. ASSUME NEW i \in DOMAIN t, NEW j \in DOMAIN t, i < j PROVE Before(t[i], t[j])
    <3>1. i + 1 \in DOMAIN s /\ j + 1 \in DOMAIN s /\ i + 1 < j + 1
      BY <1>2, <2>1
    <3> QED BY <1>2, <1>4, <3>1 DEF Ordered
  <2>2. ASSUME NEW e \in Range(t) PROVE Before(Head(s), e)
    <3>1. PICK i \in DOMAIN t : e = t[i]
      BY DEF Range
    <3>2. 1 \in DOMAIN s /\ i + 1 \in DOMAIN s /\ 1 < i + 1
      BY <1>2
    <3> QED BY <1>2, <1>4, <3>1, <3>2 DEF Ordered
  <2> QED BY <2>1, <2>2 DEF Ordered
<1> QED BY <1>1, <1>3, <1>4 DEF t

-----------------------------------------------------------------------------
(* Steps of the camera and the network *)

(***************************************************************************)
(* What a step that is no delivery leaves to the host: packets put behind  *)
(* those in flight or lost from their front, and nothing unsent.           *)
(***************************************************************************)
Steady ==
    /\ UNCHANGED <<frame, firstPacket, report, delivered, handed>>
    /\ status' = "receiving" => status = "receiving"
    /\ frame_number' \in {frame_number, frame_number + 1}
    /\ frame_number' = frame_number => line_number' >= line_number
    /\ aborted \subseteq aborted'
    /\ lost \subseteq lost'
    /\ \A x \in lost' : x \in lost \/ \E e \in Flight : x = <<e.origin, e.pkt.line>>
    /\ \A e \in Flight' : \/ e \in Flight
                          \/ /\ e.origin = frame_number
                             /\ Failure(e) \/ Index(e) >= line_number
    /\ \A f \in Nat, k \in Indices : Out(f, k) => Out(f, k)'
    /\ \A f \in Nat, k \in Indices : WasSent(f, k)' => WasSent(f, k) \/ Out(f, k)'

Grounded == SourceInv /\ NetInv /\ LostInv

\* Cutting one more frame short stays within the bound on such frames.
LEMMA AbortOne ==
    ASSUME SourceInv, Cardinality(aborted) < MaxAborts, aborted' = aborted \cup {frame_number}
    PROVE  Cardinality(aborted') <= MaxAborts /\ aborted' \subseteq 0 .. frame_number
<1>1. aborted \subseteq 0 .. frame_number - 1 /\ frame_number \in Nat /\ MaxAborts \in Nat
  BY Constants DEF SourceInv
<1>2. IsFiniteSet(0 .. frame_number - 1)
  BY <1>1, FS_Interval
<1>3. IsFiniteSet(aborted) /\ Cardinality(aborted) \in Nat
  BY <1>1, <1>2, FS_Subset, FS_CardinalityType
<1>4. Cardinality(aborted') <= Cardinality(aborted) + 1
  BY <1>3, FS_AddElement
<1>5. Cardinality(aborted') \in Nat
  BY <1>3, FS_AddElement, FS_CardinalityType
<1> QED BY <1>1, <1>3, <1>4, <1>5

(***************************************************************************)
(* A frame is started or given up: the packets stay where they are.        *)
(***************************************************************************)
LEMMA Restart ==
    ASSUME Grounded, UNCHANGED <<hostVars, history, net>>,
           frame_number' \in {frame_number, frame_number + 1},
           line_number' \in -1 .. 0,
           frame_number' = frame_number => line_number = -1 /\ aborted' = aborted,
           frame_number' # frame_number => inframe /\ aborted' = aborted \cup {frame_number}
    PROVE  NetInv' /\ LostInv' /\ Steady
<1>1. /\ frame_number \in Nat /\ line_number \in -1 .. Rows - 1 /\ Rows \in Nat /\ Rows >= 1
      /\ line_number' \in Int /\ line_number' <= 0 /\ line_number' >= -1
      /\ aborted \subseteq aborted'
      /\ frame_number' \in Nat /\ frame_number' >= frame_number
      /\ aborted \subseteq 0 .. frame_number - 1
  BY Constants DEF Grounded, SourceInv
<1>2. UNCHANGED <<frame, firstPacket, report, status, delivered, handed, lost, net>>
  BY DEF hostVars, history
<1>3. Flight' = Flight
  BY <1>2 DEF Flight
<1>4. ASSUME NEW e \in Flight PROVE Genuine(e)'
  <2>1. Genuine(e)
    BY DEF Grounded, NetInv
  <2>2. CASE frame_number' = frame_number
    BY <1>1, <2>1, <2>2 DEF Genuine, Indices
  <2>3. CASE frame_number' = frame_number + 1
    <3>1. aborted' = aborted \cup {frame_number}
      BY <1>1, <2>3
    <3> QED BY <1>1, <2>1, <2>3, <3>1 DEF Genuine, Indices
  <2> QED BY <2>2, <2>3
<1>5. NetInv'
  BY <1>2, <1>3, <1>4 DEF Grounded, NetInv
<1>6. LostInv'
  <2>1. ASSUME NEW x \in lost PROVE LostWasSent(x)'
    <3>1. PICK f \in 0 .. frame_number :
             \/ \E c \in FailureLines : x = <<f, c>>
             \/ \E k \in Indices : x = <<f, Code(f, k)>> /\ (f = frame_number => k < line_number)
      BY DEF Grounded, LostInv, LostWasSent
    <3>2. f \in 0 .. frame_number' /\ (f = frame_number' => f = frame_number /\ line_number = -1)
      BY <1>1
    <3>3. \A k \in Indices : k >= 0 /\ k \in Int
      BY <1>1 DEF Indices
    <3> QED BY <1>1, <3>1, <3>2, <3>3 DEF LostWasSent
  <2>2. \A e \in Flight : (~Failure(e) => <<e.origin, e.pkt.line>> \notin lost)'
    BY <1>2, <1>3 DEF Grounded, LostInv, Failure
  <2> QED BY <1>2, <1>3, <2>1, <2>2 DEF Grounded, LostInv
<1>7. ASSUME NEW f \in Nat, NEW k \in Indices PROVE Out(f, k)' <=> Out(f, k)
  BY <1>2, <1>3 DEF Out, Gone, Flying
<1>8. ASSUME NEW f \in Nat, NEW k \in Indices, WasSent(f, k)' PROVE WasSent(f, k)
  <2>1. k \in Nat
    BY <1>1 DEF Indices
  <2>2. CASE frame_number' = frame_number
    BY <1>1, <1>8, <2>1, <2>2 DEF WasSent
  <2>3. CASE frame_number' = frame_number + 1
    <3>1. aborted' = aborted \cup {frame_number}
      BY <1>1, <2>3
    <3> QED BY <1>1, <1>8, <2>1, <2>3, <3>1 DEF WasSent
  <2> QED BY <2>2, <2>3
<1>9. Steady
  <2>1. frame_number' = frame_number => line_number' >= line_number
    BY <1>1
  <2> QED BY <1>1, <1>2, <1>3, <1>7, <1>8, <2>1 DEF Steady
<1> QED BY <1>5, <1>6, <1>9

\* A frame start keeps camera and network sound, and the host does not see it.
LEMMA FrameStartStep ==
    ASSUME Grounded, FrameStart, UNCHANGED <<hostVars, history>>
    PROVE  Grounded' /\ Steady
<1>1. /\ frame_number < MaxFrame /\ line_number' = 0 /\ xorram' = {} /\ UNCHANGED net
      /\ exposure' = exposure + 1
      /\ IF inframe
         THEN /\ Cardinality(aborted) < MaxAborts
              /\ frame_number' = frame_number + 1
              /\ aborted' = aborted \cup {frame_number}
         ELSE UNCHANGED <<frame_number, aborted>>
  BY DEF FrameStart, NumberAbandoned, NextNumber, Erased, Black
<1>2. /\ frame_number \in Nat /\ MaxFrame \in Nat /\ Rows \in Nat /\ Rows >= 1
  BY Constants DEF Grounded, SourceInv
<1>3. NetInv' /\ LostInv' /\ Steady
  BY <1>1, <1>2, Restart DEF inframe
<1>4. SourceInv'
  <2>1. frame_number' \in 0 .. MaxFrame /\ frame_number' \in 0 .. MaxFrame + 1
    BY <1>1, <1>2
  <2>2. aborted' \subseteq 0 .. frame_number' - 1 /\ Cardinality(aborted') <= MaxAborts
    <3>1. CASE inframe
      <4>1. Cardinality(aborted') <= MaxAborts /\ aborted' \subseteq 0 .. frame_number
        BY <1>1, <3>1, AbortOne DEF Grounded
      <4> QED BY <1>1, <1>2, <3>1, <4>1
    <3>2. CASE ~inframe
      BY <1>1, <3>2 DEF Grounded, SourceInv
    <3> QED BY <3>1, <3>2
  <2>3. xorram' = { <<frame_number', l>> : l \in 0 .. line_number' - 1 }
    BY <1>1
  <2>4. line_number' \in -1 .. Rows - 1 /\ inframe'
    BY <1>1, <1>2 DEF inframe
  <2>5. exposure' = frame_number'
    BY <1>1, <1>2 DEF Grounded, SourceInv
  <2> QED BY <2>1, <2>2, <2>3, <2>4, <2>5 DEF SourceInv
<1> QED BY <1>3, <1>4 DEF Grounded

\* So does a FIFO overflow.
LEMMA OverflowStep ==
    ASSUME Grounded, Overflow, UNCHANGED <<hostVars, history>>
    PROVE  Grounded' /\ Steady
<1>1. /\ inframe /\ Cardinality(aborted) < MaxAborts /\ line_number' = -1
      /\ frame_number' = frame_number + 1
      /\ aborted' = aborted \cup {frame_number}
      /\ UNCHANGED <<exposure, xorram, net>>
  BY DEF Overflow, NumberAbandoned, NextNumber
<1>2. /\ frame_number \in Nat /\ MaxFrame \in Nat /\ Rows \in Nat /\ Rows >= 1
      /\ frame_number <= MaxFrame
  BY <1>1, Constants DEF Grounded, SourceInv
<1>3. NetInv' /\ LostInv' /\ Steady
  BY <1>1, <1>2, Restart
<1>4. SourceInv'
  <2>1. frame_number' \in 0 .. MaxFrame + 1 /\ line_number' \in -1 .. Rows - 1 /\ ~inframe'
    BY <1>1, <1>2 DEF inframe
  <2>2. aborted' \subseteq 0 .. frame_number' - 1 /\ Cardinality(aborted') <= MaxAborts
    <3>1. Cardinality(aborted') <= MaxAborts /\ aborted' \subseteq 0 .. frame_number
      BY <1>1, AbortOne DEF Grounded
    <3> QED BY <1>1, <1>2, <3>1
  <2>3. exposure' = frame_number' - 1
    BY <1>1, <1>2 DEF Grounded, SourceInv
  <2> QED BY <2>1, <2>2, <2>3 DEF SourceInv
<1> QED BY <1>3, <1>4 DEF Grounded

\* EOF and XOR packets are no failures.
LEMMA NoFailureLine == LINENO_EOF \notin FailureLines /\ LINENO_XOR \notin FailureLines
<1>1. Rows \in Nat /\ Rows < LINENO_XOR
  BY Constants, Reserved, SMT
<1> QED BY <1>1, Reserved DEF FailureLines

(***************************************************************************)
(* The packets sent next come behind all others.                           *)
(***************************************************************************)
LEMMA BehindAll ==
    ASSUME Grounded, inframe, NEW k \in Indices, k >= line_number
    PROVE  /\ \A d \in Flight : Before(d, Ent(frame_number, k))
           /\ \A j \in Indices : j < k => Before(Ent(frame_number, j), Ent(frame_number, k))
<1>1. /\ frame_number \in Nat /\ Rows \in Nat /\ line_number \in 0 .. Rows - 1
      /\ \A j \in Indices : j \in Nat /\ j <= Rows + 1
  BY Constants DEF Grounded, SourceInv, inframe, Indices
<1>2. /\ Ent(frame_number, k).origin = frame_number
      /\ Index(Ent(frame_number, k)) = k
  BY <1>1, Entries
<1>3. ASSUME NEW d \in Flight PROVE Before(d, Ent(frame_number, k))
  <2>1. Genuine(d)
    BY DEF Grounded, NetInv
  <2>2. CASE d.origin < frame_number
    BY <1>2, <2>2 DEF Before
  <2>3. CASE d.origin = frame_number /\ Failure(d)
    BY <1>2, <2>3, NoFailureLine DEF Before, Failure
  <2>4. CASE d.origin = frame_number /\ ~Failure(d)
    <3>1. Index(d) < line_number /\ Index(d) \in Nat
      BY <1>1, <2>1, <2>4 DEF Genuine
    <3>2. d.pkt.line # LINENO_EOF
      BY <1>1, <3>1 DEF Index
    <3>3. Index(d) < k
      BY <1>1, <3>1
    <3> QED BY <1>2, <2>4, <3>2, <3>3 DEF Before
  <2>5. d.origin \in Nat /\ d.origin <= frame_number
    BY <1>1, <2>1 DEF Genuine
  <2> QED BY <1>1, <2>2, <2>3, <2>4, <2>5
<1>4. ASSUME NEW j \in Indices, j < k PROVE Before(Ent(frame_number, j), Ent(frame_number, k))
  <2>1. /\ Ent(frame_number, j).origin = frame_number
        /\ Index(Ent(frame_number, j)) = j
    BY <1>1, Entries
  <2>2. Ent(frame_number, j).pkt.line # LINENO_EOF
    BY <1>1, <1>4, <2>1 DEF Index
  <2> QED BY <1>2, <1>4, <2>1, <2>2 DEF Before
<1> QED BY <1>3, <1>4

(***************************************************************************)
(* What a round of the capture loop sends: the row, and after the last row *)
(* the XOR row, if there is one, and the EOF.                              *)
(***************************************************************************)
SentNow == { k \in Indices : \/ k = line_number
                             \/ line_number + 1 = Rows /\ SendXor /\ k = Rows
                             \/ line_number + 1 = Rows /\ k = Rows + 1 }

\* The XOR memory after a row is the sum of the rows of the frame so far.
LEMMA XorRow ==
    ASSUME SourceInv, inframe
    PROVE  Xor(xorram, Row(frame_number, line_number))
              = { <<frame_number, l>> : l \in 0 .. line_number }
<1>1. /\ line_number \in Nat
      /\ xorram = { <<frame_number, l>> : l \in 0 .. line_number - 1 }
  BY Constants DEF SourceInv, inframe
<1>2. 0 .. line_number = (0 .. line_number - 1) \cup {line_number} /\ line_number \notin 0 .. line_number - 1
  BY <1>1
<1> QED BY <1>1, <1>2 DEF Xor, Row

\* A row, with the XOR row and EOF after the last one, is put behind what is
\* in flight.
LEMMA SentPackets ==
    ASSUME Grounded, SendLine
    PROVE  /\ net' \in Seq(Entry) /\ Len(net') <= NetCapacity /\ Ordered(net')
           /\ Flight' = Flight \cup { Ent(frame_number, k) : k \in SentNow }
<1> DEFINE f == frame_number
           l == line_number
           xor == Xor(xorram, Row(frame_number, line_number))
<1>1. /\ inframe /\ Len(net) + 3 <= NetCapacity
      /\ net' = net \o <<RowPacket(f, l, Row(f, l))>>
                     \o (IF l + 1 = Rows THEN Trailer(f, xor) ELSE <<>>)
  BY DEF SendLine, Grounded, SourceInv
<1>2. /\ f \in Nat /\ Rows \in Nat /\ l \in 0 .. Rows - 1 /\ NetCapacity \in Nat
      /\ l \in Indices /\ Rows \in Indices /\ Rows + 1 \in Indices
      /\ l < Rows /\ Rows >= l /\ Rows + 1 >= l /\ l >= l /\ Rows < Rows + 1 /\ l < Rows + 1
      /\ SendXor \in BOOLEAN
  BY <1>1, Constants DEF Grounded, SourceInv, inframe, Indices
<1>3. net \in Seq(Entry) /\ Ordered(net) /\ Len(net) \in Nat /\ Len(net) + 3 <= NetCapacity
  BY <1>1, LenProperties DEF Grounded, NetInv
<1>4. RowPacket(f, l, Row(f, l)) = Ent(f, l)
  BY <1>2 DEF RowPacket, Ent, Code, Payload
<1>5. l + 1 = Rows => Sent(f, LINENO_XOR, xor) = Ent(f, Rows)
  <2> SUFFICES ASSUME l + 1 = Rows PROVE xor = AllRows(f)
    BY <1>2 DEF Ent, Code, Payload
  <2>1. 0 .. l = Lines
    BY <1>2 DEF Lines
  <2> QED BY <1>1, <2>1, XorRow DEF AllRows, Grounded
<1>6. Sent(f, LINENO_EOF, Black) = Ent(f, Rows + 1)
  BY <1>2 DEF Ent, Code, Payload
<1> DEFINE a == Ent(f, l)
           x == Ent(f, Rows)
           z == Ent(f, Rows + 1)
           net1 == net \o <<a>>
<1>7. a \in Entry /\ x \in Entry /\ z \in Entry
  BY <1>2, Entries
<1>8. /\ \A d \in Range(net) : Before(d, a) /\ Before(d, x) /\ Before(d, z)
      /\ Before(a, x) /\ Before(a, z) /\ Before(x, z)
  BY <1>1, <1>2, BehindAll DEF Flight
<1> HIDE DEF a, x, z, xor
<1>9. /\ net1 \in Seq(Entry) /\ Len(net1) = Len(net) + 1 /\ Range(net1) = Range(net) \cup {a}
      /\ Ordered(net1)
  BY <1>3, <1>7, <1>8, Pushed
<1> HIDE DEF net1
<1>10. CASE l + 1 # Rows
  <2>1. net' = net1
    <3>1. net' = net1 \o <<>>
      BY <1>1, <1>4, <1>10 DEF net1, a
    <3> QED BY <1>9, <3>1, ConcatEmptySeq
  <2>2. SentNow = {l}
    BY <1>2, <1>10 DEF SentNow
  <2>3. Len(net') <= NetCapacity /\ Range(net') = Range(net) \cup {a}
    BY <1>2, <1>3, <1>9, <2>1
  <2>4. { Ent(f, k) : k \in SentNow } = {a}
    BY <2>2 DEF a
  <2> QED BY <1>9, <2>1, <2>3, <2>4 DEF Flight
<1>11. CASE l + 1 = Rows /\ ~SendXor
  <2>1. net' = net1 \o <<z>>
    <3>1. <<z>> \in Seq(Entry)
      BY <1>7
    <3>2. net' = net1 \o (<<>> \o <<z>>)
      BY <1>1, <1>4, <1>6, <1>11 DEF net1, a, z, Trailer
    <3> QED BY <3>1, <3>2, ConcatEmptySeq
  <2>2. SentNow = {l, Rows + 1}
    BY <1>2, <1>11 DEF SentNow
  <2>3. /\ net' \in Seq(Entry) /\ Len(net') = Len(net1) + 1 /\ Range(net') = Range(net1) \cup {z}
        /\ Ordered(net')
    BY <1>7, <1>8, <1>9, <2>1, Pushed
  <2>4. Len(net') <= NetCapacity /\ Range(net') = Range(net) \cup {a, z}
    BY <1>2, <1>3, <1>9, <2>3
  <2>5. { Ent(f, k) : k \in SentNow } = {a, z}
    BY <2>2 DEF a, z
  <2> QED BY <2>3, <2>4, <2>5 DEF Flight
<1>12. CASE l + 1 = Rows /\ SendXor
  <2> DEFINE net2 == net1 \o <<x>>
  <2>1. net' = net2 \o <<z>>
    <3>1. <<z>> \in Seq(Entry) /\ <<x>> \in Seq(Entry)
      BY <1>7
    <3>2. net' = net1 \o (<<x>> \o <<z>>)
      BY <1>1, <1>4, <1>5, <1>6, <1>12 DEF net1, a, x, z, Trailer
    <3> QED BY <1>9, <3>1, <3>2, ConcatAssociative
  <2>2. SentNow = {l, Rows, Rows + 1}
    BY <1>2, <1>12 DEF SentNow
  <2>3. /\ net2 \in Seq(Entry) /\ Len(net2) = Len(net1) + 1 /\ Range(net2) = Range(net1) \cup {x}
        /\ Ordered(net2)
    BY <1>7, <1>8, <1>9, Pushed
  <2>4. /\ net' \in Seq(Entry) /\ Len(net') = Len(net2) + 1 /\ Range(net') = Range(net2) \cup {z}
        /\ Ordered(net')
    <3>1. \A d \in Range(net2) : Before(d, z)
      BY <1>8, <1>9, <2>3
    <3> HIDE DEF net2
    <3> QED BY <1>7, <2>1, <2>3, <3>1, Pushed
  <2>5. Len(net') = Len(net) + 3 /\ Range(net') = Range(net) \cup {a, x, z}
    BY <1>3, <1>9, <2>3, <2>4
  <2> QED BY <1>1, <1>2, <1>3, <2>2, <2>4, <2>5 DEF Flight, a, x, z
<1> QED BY <1>2, <1>10, <1>11, <1>12

\* Sending a row keeps camera and network sound.
LEMMA SendLineStep ==
    ASSUME Grounded, SendLine, UNCHANGED <<hostVars, history>>
    PROVE  Grounded' /\ Steady
<1>1. /\ inframe
      /\ xorram' = Xor(xorram, Row(frame_number, line_number))
      /\ line_number' = IF line_number + 1 = Rows THEN -1 ELSE line_number + 1
      /\ frame_number' = IF line_number + 1 = Rows THEN frame_number + 1 ELSE frame_number
      /\ aborted' = aborted /\ exposure' = exposure /\ exposure = frame_number
  BY DEF SendLine, NextNumber, Grounded, SourceInv
<1>2. /\ frame_number \in Nat /\ Rows \in Nat /\ line_number \in 0 .. Rows - 1 /\ SendXor \in BOOLEAN
      /\ frame_number <= MaxFrame /\ MaxFrame \in Nat
      /\ aborted \subseteq 0 .. frame_number - 1
      /\ \A k \in Indices : k \in Nat /\ k <= Rows + 1
      /\ line_number \in Indices /\ Rows \in Indices /\ Rows + 1 \in Indices
  BY <1>1, Constants DEF Grounded, SourceInv, inframe, Indices
<1>3. UNCHANGED <<frame, firstPacket, report, status, delivered, handed, lost>>
  BY DEF hostVars, history
<1>4. /\ net' \in Seq(Entry) /\ Len(net') <= NetCapacity /\ Ordered(net')
      /\ Flight' = Flight \cup { Ent(frame_number, k) : k \in SentNow }
  BY SentPackets
<1>5. \A k \in SentNow : /\ k \in Indices /\ k >= line_number
                         /\ k >= Rows => line_number + 1 = Rows
                         /\ k = Rows => SendXor
                         /\ k < Rows => k = line_number
  BY <1>2 DEF SentNow
<1>6. ASSUME NEW k \in SentNow
      PROVE  /\ Ent(frame_number, k).origin = frame_number
             /\ Ent(frame_number, k).pkt.line = Code(frame_number, k)
             /\ Ent(frame_number, k).pkt.frame = frame_number % FrameMod
             /\ Ent(frame_number, k).pkt.fits
             /\ Ent(frame_number, k).pkt.data = Payload(frame_number, k)
             /\ Index(Ent(frame_number, k)) = k /\ ~Failure(Ent(frame_number, k))
  BY <1>2, <1>5, Entries
<1>7. ASSUME NEW e \in Flight' PROVE Genuine(e)'
  <2>1. CASE e \in Flight
    <3>1. Genuine(e)
      BY <2>1 DEF Grounded, NetInv
    <3>2. CASE line_number + 1 = Rows
      <4>1. frame_number' = frame_number + 1 /\ aborted' = aborted
        BY <1>1, <3>2
      <4> QED BY <1>2, <3>1, <4>1 DEF Genuine
    <3>3. CASE line_number + 1 # Rows
      <4>1. frame_number' = frame_number /\ aborted' = aborted /\ line_number' = line_number + 1
        BY <1>1, <3>3
      <4> QED BY <1>2, <3>1, <4>1 DEF Genuine, Indices
    <3> QED BY <3>2, <3>3
  <2>2. CASE \E k \in SentNow : e = Ent(frame_number, k)
    <3>1. PICK k \in SentNow : e = Ent(frame_number, k)
      BY <2>2
    <3>2. frame_number \notin aborted /\ frame_number \in Nat
      BY <1>2
    <3>3. k \in Nat /\ k \in Indices /\ (k < Rows => k = line_number) /\ (k >= Rows => line_number + 1 = Rows)
          /\ (k = Rows => SendXor)
      BY <1>2, <1>5
    <3>4. /\ e.origin = frame_number /\ e.pkt.line = Code(frame_number, k)
          /\ e.pkt.frame = frame_number % FrameMod /\ e.pkt.fits
          /\ e.pkt.data = Payload(frame_number, k) /\ Index(e) = k
      BY <1>6, <3>1
    <3>5. frame_number \in 0 .. frame_number' /\ (frame_number = frame_number' => k < line_number')
      BY <1>1, <1>2, <3>3
    <3> QED BY <1>1, <3>2, <3>3, <3>4, <3>5 DEF Genuine
  <2> QED BY <1>4, <2>1, <2>2
<1>8. NetInv'
  BY <1>4, <1>7 DEF NetInv
<1>9. LostInv'
  <2>1. ASSUME NEW x \in lost PROVE LostWasSent(x)'
    <3>1. PICK f \in 0 .. frame_number :
             \/ \E c \in FailureLines : x = <<f, c>>
             \/ \E k \in Indices : x = <<f, Code(f, k)>> /\ (f = frame_number => k < line_number)
      BY DEF Grounded, LostInv, LostWasSent
    <3>2. f \in 0 .. frame_number' /\ (f = frame_number' => f = frame_number /\ line_number' = line_number + 1)
      BY <1>1, <1>2
    <3> QED BY <1>2, <3>1, <3>2 DEF LostWasSent
  <2>2. ASSUME NEW e \in Flight', ~Failure(e) PROVE <<e.origin, e.pkt.line>> \notin lost
    <3>1. CASE e \in Flight
      BY <2>2, <3>1 DEF Grounded, LostInv
    <3>2. CASE \E k \in SentNow : e = Ent(frame_number, k)
      <4>1. PICK k \in SentNow : e = Ent(frame_number, k)
        BY <3>2
      <4>2. SUFFICES ASSUME <<frame_number, Code(frame_number, k)>> \in lost PROVE FALSE
        BY <1>6, <4>1
      <4>3. LostWasSent(<<frame_number, Code(frame_number, k)>>)
        BY <4>2 DEF Grounded, LostInv
      <4>4. PICK f \in 0 .. frame_number :
               \/ \E c \in FailureLines : <<frame_number, Code(frame_number, k)>> = <<f, c>>
               \/ \E j \in Indices : /\ <<frame_number, Code(frame_number, k)>> = <<f, Code(f, j)>>
                                     /\ f = frame_number => j < line_number
        BY <4>3 DEF LostWasSent
      <4>5. f = frame_number /\ Code(frame_number, k) \notin FailureLines
        BY <1>2, <1>5, <4>4, Codes
      <4>6. PICK j \in Indices : Code(frame_number, k) = Code(frame_number, j) /\ j < line_number
        BY <4>4, <4>5
      <4>7. j = k
        BY <1>2, <1>5, <4>6, Codes
      <4> QED BY <1>2, <1>5, <4>6, <4>7
    <3> QED BY <1>4, <3>1, <3>2
  <2> QED BY <1>3, <2>1, <2>2 DEF Grounded, LostInv, Failure
<1>10. SourceInv'
  <2>1. frame_number' \in 0 .. MaxFrame + 1 /\ line_number' \in -1 .. Rows - 1
        /\ (inframe' => frame_number' = frame_number /\ line_number' = line_number + 1)
        /\ exposure' = IF inframe' THEN frame_number' ELSE frame_number' - 1
    BY <1>1, <1>2 DEF inframe
  <2>2. inframe' => xorram' = { <<frame_number', l>> : l \in 0 .. line_number' - 1 }
    <3> SUFFICES ASSUME inframe' PROVE xorram' = { <<frame_number', l>> : l \in 0 .. line_number' - 1 }
      OBVIOUS
    <3>1. xorram' = { <<frame_number, l>> : l \in 0 .. line_number }
      BY <1>1, XorRow DEF Grounded
    <3>2. line_number' - 1 = line_number /\ frame_number' = frame_number
      BY <1>2, <2>1
    <3> QED BY <3>1, <3>2
  <2>3. aborted' \subseteq 0 .. frame_number' - 1 /\ Cardinality(aborted') <= MaxAborts
    BY <1>1, <1>2 DEF Grounded, SourceInv
  <2> QED BY <1>2, <2>1, <2>2, <2>3 DEF SourceInv
<1>11. ASSUME NEW f \in Nat, NEW k \in Indices, Out(f, k) PROVE Out(f, k)'
  <2>1. Flight \subseteq Flight'
    BY <1>4
  <2> QED BY <1>3, <1>11, <2>1 DEF Out, Gone, Flying
<1>12. ASSUME NEW f \in Nat, NEW k \in Indices, WasSent(f, k)' PROVE WasSent(f, k) \/ Out(f, k)'
  <2>1. WasSent(f, k) \/ (f = frame_number /\ k \in SentNow)
    <3>1. k \in Nat /\ k <= Rows + 1
      BY <1>2
    <3>2. CASE line_number + 1 # Rows
      <4>1. frame_number' = frame_number /\ line_number' = line_number + 1
        BY <1>1, <3>2
      <4> QED BY <1>1, <1>2, <1>12, <3>1, <4>1 DEF WasSent, SentNow
    <3>3. CASE line_number + 1 = Rows
      <4>1. frame_number' = frame_number + 1 /\ line_number' = -1
        BY <1>1, <3>3
      <4>2. CASE f = frame_number
        <5>1. k = Rows => SendXor
          BY <1>2, <1>12, <4>1, <4>2 DEF WasSent
        <5> QED BY <1>2, <3>1, <3>3, <4>2, <5>1 DEF WasSent, SentNow
      <4>3. CASE f # frame_number
        BY <1>1, <1>2, <1>12, <3>1, <4>1, <4>3 DEF WasSent
      <4> QED BY <4>2, <4>3
    <3> QED BY <3>2, <3>3
  <2>2. CASE f = frame_number /\ k \in SentNow
    <3>1. Ent(f, k) \in Flight'
      BY <1>4, <2>2
    <3>2. Ent(f, k).origin = f /\ Ent(f, k).pkt.line = Code(f, k)
      BY Entries
    <3> QED BY <3>1, <3>2 DEF Out, Flying
  <2> QED BY <2>1, <2>2
<1>13. Steady
  <2>1. \A e \in Flight' : e \in Flight \/ (e.origin = frame_number /\ Index(e) >= line_number)
    BY <1>4, <1>5, <1>6
  <2>2. /\ frame_number' \in {frame_number, frame_number + 1}
        /\ frame_number' = frame_number => line_number' >= line_number
    BY <1>1, <1>2
  <2> QED BY <1>1, <1>3, <1>11, <1>12, <2>1, <2>2 DEF Steady
<1> QED BY <1>8, <1>9, <1>10, <1>13 DEF Grounded

(***************************************************************************)
(* The oldest packet leaves the network.                                   *)
(***************************************************************************)
LEMMA Leaves ==
    ASSUME Grounded, net # <<>>, net' = Tail(net),
           UNCHANGED <<frame_number, exposure, line_number, xorram, aborted>>
    PROVE  /\ SourceInv' /\ NetInv'
           /\ Head(net) \in Flight /\ Genuine(Head(net))
           /\ Flight = Flight' \cup {Head(net)}
           /\ \A e \in Flight' : Before(Head(net), e) /\ Genuine(e)
           /\ \A x : LostWasSent(x)' <=> LostWasSent(x)
           /\ \A f \in Nat, k \in Indices : WasSent(f, k)' <=> WasSent(f, k)
<1>1. /\ net \in Seq(Entry) /\ Len(net) <= NetCapacity /\ Ordered(net)
      /\ \A e \in Flight : Genuine(e)
      /\ Len(net) \in Nat /\ NetCapacity \in Nat
  BY LenProperties, Constants DEF Grounded, NetInv
<1>2. /\ net' \in Seq(Entry) /\ Len(net') = Len(net) - 1
      /\ Range(net) = Range(net') \cup {Head(net)}
      /\ Ordered(net') /\ \A e \in Range(net') : Before(Head(net), e)
  BY <1>1, Popped
<1>3. /\ Flight = Flight' \cup {Head(net)} /\ \A e \in Flight' : Before(Head(net), e)
  BY <1>2 DEF Flight
<1>4. \A e \in Flight : Genuine(e)'
  BY <1>1 DEF Genuine, Failure
<1>5. NetInv'
  BY <1>1, <1>2, <1>3, <1>4 DEF NetInv
<1>6. SourceInv'
  BY DEF Grounded, SourceInv, inframe
<1>7. \A x : LostWasSent(x)' <=> LostWasSent(x)
  BY DEF LostWasSent
<1>8. \A f \in Nat, k \in Indices : WasSent(f, k)' <=> WasSent(f, k)
  BY DEF WasSent
<1> QED BY <1>1, <1>3, <1>5, <1>6, <1>7, <1>8

\* So does the loss of a packet.
LEMMA LoseStep ==
    ASSUME Grounded, Lose
    PROVE  Grounded' /\ Steady
<1> DEFINE d == Head(net)
           y == <<d.origin, d.pkt.line>>
<1>1. /\ net # <<>> /\ net' = Tail(net) /\ Cardinality(lost) < MaxLost
      /\ lost' = lost \cup {y}
      /\ UNCHANGED <<frame_number, exposure, line_number, xorram, aborted>>
      /\ UNCHANGED <<frame, firstPacket, report, status, delivered, handed>>
  BY DEF Lose, hostVars
<1>2. /\ SourceInv' /\ NetInv'
      /\ d \in Flight /\ Genuine(d)
      /\ Flight = Flight' \cup {d}
      /\ \A e \in Flight' : Before(d, e) /\ Genuine(e)
      /\ \A x : LostWasSent(x)' <=> LostWasSent(x)
      /\ \A f \in Nat, k \in Indices : WasSent(f, k)' <=> WasSent(f, k)
  BY <1>1, Leaves
<1>3. /\ IsFiniteSet(lost') /\ Cardinality(lost') <= MaxLost
  <2>1. IsFiniteSet(lost) /\ Cardinality(lost) \in Nat /\ MaxLost \in Nat
    BY FS_CardinalityType, Constants DEF Grounded, LostInv
  <2> HIDE DEF y
  <2>2. IsFiniteSet(lost') /\ (Cardinality(lost') = Cardinality(lost) \/ Cardinality(lost') = Cardinality(lost) + 1)
    BY <1>1, <2>1, FS_AddElement
  <2> QED BY <1>1, <2>1, <2>2
<1>4. LostWasSent(y)
  <2>1. d.origin \in 0 .. frame_number
    BY <1>2 DEF Genuine
  <2>2. CASE Failure(d)
    BY <2>1, <2>2 DEF LostWasSent, Failure
  <2>3. CASE ~Failure(d)
    BY <1>2, <2>1, <2>3 DEF LostWasSent, Genuine
  <2> QED BY <2>2, <2>3
<1>5. ASSUME NEW e \in Flight', ~Failure(e) PROVE <<e.origin, e.pkt.line>> \notin lost'
  <2>1. <<e.origin, e.pkt.line>> \notin lost
    BY <1>2, <1>5 DEF Grounded, LostInv
  <2>2. SUFFICES ASSUME e.origin = d.origin, e.pkt.line = d.pkt.line PROVE FALSE
    BY <1>1, <2>1
  <2>3. Index(e) = Index(d) /\ ~Failure(d)
    BY <1>5, <2>2 DEF Index, Failure
  <2>4. Index(d) \in Nat /\ d.origin \in Nat
    BY <1>2, <2>3, Constants DEF Genuine, Indices, Grounded, SourceInv
  <2> QED BY <1>2, <1>5, <2>2, <2>3, <2>4 DEF Before
<1>6. LostInv'
  <2>1. \A x \in lost' : LostWasSent(x)'
    BY <1>1, <1>2, <1>4 DEF Grounded, LostInv
  <2>2. \A e \in Flight' : (~Failure(e) => <<e.origin, e.pkt.line>> \notin lost)'
    BY <1>5 DEF Failure
  <2> QED BY <1>3, <2>1, <2>2 DEF LostInv
<1>7. ASSUME NEW f \in Nat, NEW k \in Indices, Out(f, k) PROVE Out(f, k)'
  BY <1>1, <1>2, <1>7 DEF Out, Gone, Flying
<1>8. Steady
  <2>1. frame_number' \in {frame_number, frame_number + 1} /\ line_number \in Int
    BY <1>1 DEF Grounded, SourceInv
  <2> QED BY <1>1, <1>2, <1>7, <2>1 DEF Steady
<1> QED BY <1>2, <1>6, <1>8 DEF Grounded

\* So does a failure packet or a packet of wrong size.
LEMMA FailStep ==
    ASSUME Grounded, Fail
    PROVE  Grounded' /\ Steady
<1>1. PICK p \in Failures : net' = Append(net, [pkt |-> [p EXCEPT !.frame = frame_number % FrameMod],
                                                origin |-> frame_number])
  BY DEF Fail
<1>2. /\ Len(net) < NetCapacity
      /\ UNCHANGED <<frame_number, exposure, line_number, xorram, aborted, lost>>
      /\ UNCHANGED <<frame, firstPacket, report, status, delivered, handed>>
  BY DEF Fail, hostVars, history
<1>0. PICK z : z = [pkt |-> [p EXCEPT !.frame = frame_number % FrameMod], origin |-> frame_number]
  OBVIOUS
<1>3. /\ frame_number \in Nat /\ Rows \in Nat /\ line_number \in -1 .. Rows - 1
      /\ FrameMod \in Nat \ {0} /\ NetCapacity \in Nat
  BY Constants DEF Grounded, SourceInv
<1>4. /\ net \in Seq(Entry) /\ Ordered(net) /\ \A e \in Flight : Genuine(e)
      /\ Len(net) \in Nat
  BY LenProperties DEF Grounded, NetInv
<1>5. frame_number % FrameMod \in Int
  BY <1>3, Remainder
<1>6. /\ z \in Entry /\ Failure(z) /\ z.origin = frame_number
      /\ z.pkt.frame = frame_number % FrameMod
  <2>1. PICK n \in FailureLines, b \in BOOLEAN : p = [frame |-> 0, line |-> n, data |-> Black, fits |-> b]
    BY FailuresAssumption DEF FailurePackets, FailureLines
  <2>2. z = [pkt |-> [frame |-> frame_number % FrameMod, line |-> n, data |-> Black, fits |-> b],
             origin |-> frame_number]
    BY <1>0, <2>1
  <2>3. n \in Int
    BY <1>3, Reserved DEF FailureLines
  <2> QED BY <1>3, <1>5, <2>1, <2>2, <2>3 DEF Entry, Failure, Pixels, Black
<1>7. \A e \in Flight : Before(e, z)
  <2> SUFFICES ASSUME NEW e \in Flight PROVE Before(e, z)
    OBVIOUS
  <2>1. Genuine(e)
    BY <1>4
  <2>2. CASE e.origin < frame_number
    BY <1>6, <2>2 DEF Before
  <2>3. CASE e.origin = frame_number
    <3>1. e.pkt.line # LINENO_EOF
      <4> SUFFICES ASSUME e.pkt.line = LINENO_EOF PROVE FALSE
        OBVIOUS
      <4>1. ~Failure(e) /\ Index(e) = Rows + 1
        BY NoFailureLine DEF Failure, Index
      <4> QED BY <1>3, <2>1, <2>3, <4>1 DEF Genuine
    <3> QED BY <1>6, <2>3, <3>1 DEF Before
  <2>4. e.origin \in Nat /\ e.origin <= frame_number
    BY <1>3, <2>1 DEF Genuine
  <2> QED BY <1>3, <2>2, <2>3, <2>4
<1>8. /\ net' \in Seq(Entry) /\ Len(net') = Len(net) + 1
      /\ Range(net') = Range(net) \cup {z} /\ Ordered(net')
  <2>1. net' = net \o <<z>>
    BY <1>0, <1>1, <1>4, <1>6, AppendIsConcat
  <2> QED BY <1>4, <1>6, <1>7, <2>1, Pushed DEF Flight
<1>9. Flight' = Flight \cup {z}
  BY <1>8 DEF Flight
<1>10. \A e \in Flight' : Genuine(e)'
  <2>1. \A e \in Flight : Genuine(e)'
    BY <1>2, <1>4 DEF Genuine, Failure
  <2>2. Genuine(z)'
    BY <1>2, <1>3, <1>6 DEF Genuine, Failure
  <2> QED BY <1>9, <2>1, <2>2
<1>11. NetInv'
  BY <1>2, <1>3, <1>4, <1>8, <1>10 DEF NetInv
<1>12. SourceInv'
  BY <1>2 DEF Grounded, SourceInv, inframe
<1>13. LostInv'
  <2>1. \A x \in lost' : LostWasSent(x)'
    BY <1>2 DEF Grounded, LostInv, LostWasSent
  <2>2. \A e \in Flight' : (~Failure(e) => <<e.origin, e.pkt.line>> \notin lost)'
    BY <1>2, <1>6, <1>9 DEF Grounded, LostInv, Failure
  <2> QED BY <1>2, <2>1, <2>2 DEF Grounded, LostInv
<1>14. Steady
  <2>1. \A f \in Nat, k \in Indices : Out(f, k) => Out(f, k)'
    BY <1>2, <1>9 DEF Out, Gone, Flying
  <2>2. \A f \in Nat, k \in Indices : WasSent(f, k)' => WasSent(f, k)
    BY <1>2 DEF WasSent
  <2>3. \A e \in Flight' : e \in Flight \/ (e.origin = frame_number /\ Failure(e))
    BY <1>6, <1>9
  <2> QED BY <1>2, <1>3, <2>1, <2>2, <2>3 DEF Steady
<1> QED BY <1>11, <1>12, <1>13, <1>14 DEF Grounded

\* The host times out, breaks or is asked to stop: nothing else changes.
LEMMA HostOnlyStep ==
    ASSUME Grounded, Silence \/ HostBreaks \/ UNCHANGED vars
    PROVE  Grounded' /\ Steady
<1>1. /\ UNCHANGED <<frame_number, exposure, line_number, xorram, aborted, net, lost, delivered, handed>>
      /\ UNCHANGED <<frame, firstPacket>>
      /\ status' = "receiving" => status = "receiving"
  BY DEF Silence, HostBreaks, Timeout, SocketError, Return, vars, srcVars,
         history, hostVars
<1>2. report' = report
  BY DEF Silence, HostBreaks, Timeout, SocketError, Return, vars, hostVars
<1>3. Flight' = Flight
  BY <1>1 DEF Flight
<1>4. SourceInv'
  BY <1>1 DEF Grounded, SourceInv, inframe
<1>5. NetInv'
  BY <1>1, <1>3 DEF Grounded, NetInv, Genuine, Failure
<1>6. LostInv'
  BY <1>1, <1>3 DEF Grounded, LostInv, LostWasSent, Failure
<1>7. Steady
  <2>1. \A f \in Nat, k \in Indices : (Out(f, k)' <=> Out(f, k)) /\ (WasSent(f, k)' <=> WasSent(f, k))
    BY <1>1, <1>3 DEF Out, Gone, Flying, WasSent
  <2>2. line_number \in Int
    BY DEF Grounded, SourceInv
  <2> QED BY <1>1, <1>2, <1>3, <2>1, <2>2 DEF Steady
<1> QED BY <1>4, <1>5, <1>6, <1>7 DEF Grounded

-----------------------------------------------------------------------------
(* The host while nothing is delivered *)

\* The invariant holds before the first packet.
LEMMA InitInv == Init => IInv
<1> SUFFICES ASSUME Init PROVE IInv
  OBVIOUS
<1>1. /\ frame_number = 0 /\ exposure = -1 /\ line_number = -1 /\ aborted = {} /\ net = <<>>
      /\ frame = FreshFrame(0, Black) /\ firstPacket = TRUE /\ status = "receiving"
      /\ return_value = 0 /\ report = NoReport
      /\ lost = {} /\ delivered = {} /\ handed = -1
  BY DEF Init, SrcInit, HostInit
<1>2. /\ Rows \in Nat /\ Rows >= 1 /\ FrameMod \in Nat /\ FrameMod >= 2
      /\ MaxFrame \in Nat /\ MaxAborts \in Nat /\ NetCapacity \in Nat /\ MaxLost \in Nat
  BY Constants
<1>3. net \in Seq(Entry) /\ Len(net) = 0 /\ Flight = {} /\ DOMAIN net = {}
  BY <1>1 DEF Flight, Range
<1>4. IsFiniteSet({}) /\ Cardinality({}) = 0
  BY FS_EmptySet
<1>5. TypeOK
  BY <1>1, <1>2, <1>3 DEF TypeOK, FreshFrame
<1>6. SourceInv
  BY <1>1, <1>2, <1>4 DEF SourceInv, inframe
<1>7. NetInv
  BY <1>2, <1>3 DEF NetInv, Ordered
<1>8. LostInv
  BY <1>1, <1>2, <1>3, <1>4 DEF LostInv
<1>9. HostInv
  <2>1. \A f \in 0 .. frame_number, k \in Indices : ~WasSent(f, k)
    BY <1>1, <1>2 DEF WasSent, Indices
  <2> QED BY <1>1, <2>1 DEF HostInv, Ahead
<1>10. HandedInv /\ ReportInv
  BY <1>1 DEF HandedInv, ReportInv
<1> QED BY <1>5, <1>6, <1>7, <1>8, <1>9, <1>10 DEF IInv

(***************************************************************************)
(* A frame under assembly stays accounted for while packets are put in     *)
(* flight and lost: one that is lost comes behind the rows that are held.  *)
(***************************************************************************)
LEMMA StaysAccounted ==
    ASSUME Grounded, Grounded', Steady, NEW h \in 0 .. frame_number, NEW fr,
           fr \in FrameSet, Accounted(h, fr)
    PROVE  /\ \A e \in Flight' : e.origin >= h
           /\ \A e \in Flight' : e.origin = h /\ ~Failure(e) => \A l \in Held(fr) : l < Index(e)
           /\ \A l \in Held(fr) : ~Gone(h, l)' /\ (h = frame_number' => l < line_number')
           /\ ~FrameBits => \A l \in Lines : WasSent(h, l)' => l \in Held(fr) \/ Out(h, l)'
           /\ WasSent(h, Rows)' => fr.has_xor \/ Out(h, Rows)' \/ RowsGone(h)'
           /\ WasSent(h, Rows + 1)' => Out(h, Rows + 1)' \/ RowsGone(h)'
<1>1. /\ frame_number \in Nat /\ h \in Nat /\ h <= frame_number
      /\ Rows \in Nat /\ line_number \in Int /\ line_number' \in Int /\ line_number < Rows
      /\ frame_number' \in {frame_number, frame_number + 1}
      /\ frame_number' = frame_number => line_number' >= line_number
      /\ \A l \in Lines : l \in Indices
      /\ Rows \in Indices /\ Rows + 1 \in Indices
      /\ Held(fr) \subseteq Lines /\ Lines \subseteq Nat
      /\ h = frame_number' => h = frame_number
  BY Constants DEF Grounded, SourceInv, Steady, Lines, Indices, Held
<1>2. ASSUME NEW e \in Flight'
      PROVE  /\ e.origin >= h
             /\ e.origin = h /\ ~Failure(e) => \A l \in Held(fr) : l < Index(e)
  <2>1. CASE e \in Flight
    BY <2>1 DEF Accounted
  <2>2. CASE e.origin = frame_number /\ (Failure(e) \/ Index(e) >= line_number)
    <3>1. ASSUME h = frame_number, ~Failure(e), NEW l \in Held(fr) PROVE l < Index(e)
      <4>1. l < line_number /\ l \in Int
        <5>1. h = frame_number => l < line_number
          BY DEF Accounted
        <5>2. l \in Nat
          BY <1>1
        <5> QED BY <3>1, <5>1, <5>2
      <4>2. Index(e) >= line_number
        BY <2>2, <3>1
      <4>3. Index(e) \in Int
        <5>1. Genuine(e)' /\ ~Failure(e)'
          BY <3>1 DEF Grounded, NetInv, Failure
        <5>2. Index(e)' \in Indices
          BY <5>1 DEF Genuine
        <5> QED BY <1>1, <5>2 DEF Index, Indices
      <4> QED BY <1>1, <4>1, <4>2, <4>3
    <3> QED BY <1>1, <2>2, <3>1
  <2> QED BY <2>1, <2>2 DEF Steady
<1>3. ASSUME NEW l \in Held(fr) PROVE ~Gone(h, l)' /\ (h = frame_number' => l < line_number')
  <2>1. l \in Lines /\ l \in Indices /\ l \in Nat
    BY <1>1
  <2>2. h = frame_number' => l < line_number'
    <3>1. h = frame_number => l < line_number
      BY DEF Accounted
    <3> QED BY <1>1, <2>1, <3>1
  <2>3. ASSUME <<h, Code(h, l)>> \in lost' PROVE FALSE
    <3>1. <<h, Code(h, l)>> \notin lost
      BY DEF Accounted, Gone
    <3>2. PICK e \in Flight : <<h, Code(h, l)>> = <<e.origin, e.pkt.line>>
      BY <2>3, <3>1 DEF Steady
    <3>3. e.origin = h /\ e.pkt.line = Code(h, l) /\ ~Failure(e) /\ Genuine(e)
      <4>1. e.origin = h /\ e.pkt.line = Code(h, l)
        BY <3>2
      <4>2. Code(h, l) \notin FailureLines
        BY <1>1, <2>1, Codes
      <4>3. Genuine(e)
        BY DEF Grounded, NetInv
      <4> QED BY <4>1, <4>2, <4>3 DEF Failure
    <3>4. Index(e) = l
      <4>1. Index(e) \in Indices /\ Code(h, Index(e)) = Code(h, l)
        BY <3>3 DEF Genuine
      <4>2. \A j \in Indices : Code(h, j) = Code(h, l) => j = l
        BY <1>1, <2>1, Codes
      <4> QED BY <4>1, <4>2
    <3>5. l < Index(e)
      BY <3>3 DEF Accounted
    <3> QED BY <2>1, <3>4, <3>5
  <2> QED BY <2>2, <2>3 DEF Gone
<1>4. ASSUME NEW k \in Indices, WasSent(h, k)' PROVE WasSent(h, k) \/ Out(h, k)'
  BY <1>1, <1>4 DEF Steady
<1>5. ASSUME NEW k \in Indices, Out(h, k) PROVE Out(h, k)'
  BY <1>1, <1>5 DEF Steady
<1>6. RowsGone(h) => RowsGone(h)'
  BY DEF RowsGone, Gone, Steady
<1>7. ~FrameBits => \A l \in Lines : WasSent(h, l)' => l \in Held(fr) \/ Out(h, l)'
  BY <1>1, <1>4, <1>5 DEF Accounted
<1>8. /\ WasSent(h, Rows)' => fr.has_xor \/ Out(h, Rows)' \/ RowsGone(h)'
      /\ WasSent(h, Rows + 1)' => Out(h, Rows + 1)' \/ RowsGone(h)'
  BY <1>1, <1>4, <1>5, <1>6 DEF Accounted
<1> QED BY <1>2, <1>3, <1>7, <1>8

\* Steps of camera and network receive nothing of the frames after h.
LEMMA StaysAhead ==
    ASSUME Grounded, Steady, NEW h \in Int, h >= -1, Ahead(h)
    PROVE  Ahead(h)'
<1>1. frame_number \in Nat /\ frame_number' \in Nat
  BY DEF Grounded, SourceInv, Steady
<1> SUFFICES ASSUME NEW f \in 0 .. frame_number', f > h, NEW k \in Indices, WasSent(f, k)'
             PROVE  Out(f, k)'
  BY DEF Ahead
<1>2. f \in Nat
  BY <1>1
<1>3. WasSent(f, k) \/ Out(f, k)'
  BY <1>2 DEF Steady
<1>4. WasSent(f, k) => f \in 0 .. frame_number
  BY <1>1, <1>2 DEF WasSent
<1>5. WasSent(f, k) => Out(f, k)
  BY <1>4 DEF Ahead
<1> QED BY <1>2, <1>3, <1>5 DEF Steady

\* Steps of camera and network keep what is said of the host.
LEMMA HostSteady ==
    ASSUME Grounded, Grounded', Steady, HostInv, HandedInv, ReportInv
    PROVE  HostInv' /\ HandedInv' /\ ReportInv'
<1>1. /\ frame_number \in Nat /\ frame_number' \in {frame_number, frame_number + 1}
      /\ Rows \in Nat
      /\ UNCHANGED <<frame, firstPacket, report, delivered, handed>>
      /\ status' = "receiving" => status = "receiving"
  BY Constants DEF Steady, Grounded, SourceInv
\* Of a frame whose packets have all left the network nothing more is lost.
<1>2. ASSUME NEW f, \A e \in Flight : e.origin # f
      PROVE  LostOf(f)' = LostOf(f) /\ LostRows(f)' = LostRows(f)
  <2>1. \A c : <<f, c>> \in lost' <=> <<f, c>> \in lost
    BY <1>2 DEF Steady
  <2>2. LostRows(f)' = LostRows(f)
    BY <2>1 DEF LostRows
  <2>3. \A x : x[1] = f => (x \in lost' <=> x \in lost)
    <3> SUFFICES ASSUME NEW x, x[1] = f, x \in lost', x \notin lost PROVE FALSE
      BY DEF Steady
    <3>1. PICK e \in Flight : x = <<e.origin, e.pkt.line>>
      BY DEF Steady
    <3> QED BY <1>2, <3>1
  <2> QED BY <2>2, <2>3 DEF LostOf
<1>3. HostInv'
  <2> SUFFICES ASSUME status' = "receiving"
               PROVE  IF firstPacket'
                      THEN /\ frame' = FreshFrame(0, Black) /\ report' = NoReport /\ handed' = -1
                           /\ Ahead(-1)'
                      ELSE \E h \in 0 .. frame_number' : Receiving(h, frame)'
    BY DEF HostInv
  <2>1. CASE firstPacket
    <3>1. frame = FreshFrame(0, Black) /\ report = NoReport /\ handed = -1 /\ Ahead(-1)
      BY <1>1, <2>1 DEF HostInv
    <3>2. Ahead(-1)'
      BY <3>1, StaysAhead
    <3> QED BY <1>1, <2>1, <3>1, <3>2
  <2>2. CASE ~firstPacket
    <3>1. PICK h \in 0 .. frame_number : Receiving(h, frame)
      BY <1>1, <2>2 DEF HostInv
    <3>2. FrameAt(h, frame')
      BY <1>1, <3>1 DEF Receiving
    <3>3. Accounted(h, frame)'
      <4>1. frame \in FrameSet /\ Accounted(h, frame)
        BY <3>1 DEF Receiving, FrameAt
      <4>2. /\ \A e \in Flight' : e.origin >= h
            /\ \A e \in Flight' : e.origin = h /\ ~Failure(e) => \A l \in Held(frame) : l < Index(e)
            /\ \A l \in Held(frame) : ~Gone(h, l)' /\ (h = frame_number' => l < line_number')
            /\ ~FrameBits => \A l \in Lines : WasSent(h, l)' => l \in Held(frame) \/ Out(h, l)'
            /\ WasSent(h, Rows)' => frame.has_xor \/ Out(h, Rows)' \/ RowsGone(h)'
            /\ WasSent(h, Rows + 1)' => Out(h, Rows + 1)' \/ RowsGone(h)'
        BY <4>1, StaysAccounted
      <4>3. Held(frame)' = Held(frame) /\ frame' = frame
        BY <1>1 DEF Held
      <4> QED BY <4>2, <4>3 DEF Accounted, Failure, Index
    <3>4. Ahead(h)'
      BY <3>1, StaysAhead DEF Receiving
    <3>5. Settled(h)'
      <4> SUFFICES ASSUME ~FrameBits, NEW f \in Frames, f < h, f \notin aborted', Recoverable(f)'
                   PROVE  f \in delivered'
        BY DEF Settled
      <4>1. \A e \in Flight : e.origin # f
        <5>1. \A e \in Flight : e.origin >= h
          BY <3>1 DEF Receiving, Accounted
        <5>2. \A e \in Flight : e.origin \in Nat
          BY DEF Grounded, NetInv, SourceInv, Genuine
        <5>3. f \in Int
          BY DEF Frames
        <5> QED BY <1>1, <5>1, <5>2, <5>3
      <4>2. LostOf(f)' = LostOf(f)
        BY <1>2, <4>1
      <4>3. Recoverable(f)
        BY <4>2 DEF Recoverable
      <4>4. f \notin aborted
        BY DEF Steady
      <4> QED BY <1>1, <3>1, <4>3, <4>4 DEF Receiving, Settled
    <3>6. h - handed' \in 1 .. HalfRange
      BY <1>1, <3>1 DEF Receiving
    <3>7. h \in 0 .. frame_number'
      BY <1>1
    <3>8. FrameAt(h, frame)'
      BY <3>2
    <3> QED BY <1>1, <2>2, <3>3, <3>4, <3>5, <3>6, <3>7, <3>8 DEF Receiving
  <2> QED BY <1>1, <2>1, <2>2
<1>4. HandedInv'
  <2>1. \A a, b \in Nat : a <= b => -1 .. a - 1 \subseteq -1 .. b - 1 /\ 0 .. a - 1 \subseteq 0 .. b - 1
    OBVIOUS
  <2>2. frame_number <= frame_number' /\ frame_number' \in Nat /\ frame_number \in Nat
    BY <1>1
  <2>3. handed' = handed /\ delivered' = delivered
    BY <1>1
  <2>4. /\ -1 .. frame_number - 1 \subseteq -1 .. frame_number' - 1
        /\ 0 .. frame_number - 1 \subseteq 0 .. frame_number' - 1
    BY <2>1, <2>2
  <2> QED BY <2>3, <2>4 DEF HandedInv
<1>5. ReportInv'
  <2> SUFFICES ASSUME report # NoReport PROVE \A f \in Frames : f = handed => ReportOf(f)'
    BY <1>1 DEF ReportInv
  <2> SUFFICES ASSUME NEW f \in Frames, f = handed PROVE ReportOf(f)'
    OBVIOUS
  <2>1. ReportOf(f)
    BY <1>1 DEF ReportInv
  <2>2. f < frame_number' /\ f \in Nat
    BY <1>1, <2>1 DEF ReportOf, Frames
  <2>3. LostRows(f) \subseteq LostRows(f)'
    BY DEF LostRows, Steady
  <2>4. report.eof => LostRows(f)' = LostRows(f)
    <3> SUFFICES ASSUME report.eof PROVE \A e \in Flight : e.origin # f
      BY <1>2
    <3>1. \A e \in Flight : e.origin > f
      BY <2>1 DEF ReportOf
    <3> QED BY <2>2, <3>1
  <2>5. report.eof => \A e \in Flight' : e.origin > f
    <3>1. f < frame_number
      BY <2>1 DEF ReportOf
    <3> QED BY <2>1, <3>1 DEF ReportOf, Steady
  <2>6. /\ \A l \in Lines : /\ report.frame_buf[l] \subseteq AllRows(f)
                            /\ \/ report.frame_buf[l] \in {Black, Row(f, l)}
                               \/ report.repaired /\ l = report.lastMissingLine
        /\ f % FrameMod = report.frame_number
        /\ Complete(report) => \/ report.frame_buf = Image(f)
                               \/ report.repaired /\ LostRows(f) \cap {0, Rows - 1} # {}
        /\ (~FrameBits /\ report.eof /\ report.shortFrame) =>
              report.missingLines = Cardinality(LostRows(f))
    BY <2>1 DEF ReportOf
  <2>7. Complete(report') => \/ report'.frame_buf = Image(f)
                             \/ report'.repaired /\ LostRows(f)' \cap {0, Rows - 1} # {}
    BY <1>1, <2>3, <2>6
  <2>8. (~FrameBits /\ report'.eof /\ report'.shortFrame) =>
              report'.missingLines = Cardinality(LostRows(f)')
    BY <1>1, <2>4, <2>6
  <2>9. ReportOf(f)'
    BY <1>1, <2>2, <2>5, <2>6, <2>7, <2>8 DEF ReportOf, Complete
  <2> QED BY <2>9
<1> QED BY <1>3, <1>4, <1>5

-----------------------------------------------------------------------------
(* Lemmas about the frame under assembly *)

\* The rows held are rows of a frame, and all of them when they are as many.
LEMMA HeldRows ==
    ASSUME NEW fr
    PROVE  /\ Held(fr) \subseteq Lines /\ IsFiniteSet(Held(fr)) /\ IsFiniteSet(Lines)
           /\ Cardinality(Held(fr)) \in 0 .. Rows /\ Cardinality(Lines) = Rows
           /\ Cardinality(Held(fr)) = Rows => Held(fr) = Lines
<1>1. Rows \in Nat /\ Rows >= 1
  BY Constants
<1>2. IsFiniteSet(Lines) /\ Cardinality(Lines) = Rows
  <2>1. IsFiniteSet(0 .. Rows - 1)
        /\ Cardinality(0 .. Rows - 1) = IF 0 > Rows - 1 THEN 0 ELSE (Rows - 1) - 0 + 1
    BY <1>1, FS_Interval
  <2> QED BY <1>1, <2>1 DEF Lines
<1>3. Held(fr) \subseteq Lines
  BY DEF Held
<1>4. /\ IsFiniteSet(Held(fr)) /\ Cardinality(Held(fr)) <= Cardinality(Lines)
      /\ Cardinality(Lines) = Cardinality(Held(fr)) => Lines = Held(fr)
  BY <1>2, <1>3, FS_Subset
<1>5. Cardinality(Held(fr)) \in Nat
  BY <1>4, FS_CardinalityType
<1> QED BY <1>1, <1>2, <1>3, <1>4, <1>5

(***************************************************************************)
(* A fresh frame, and one that a carried row was put into.                 *)
(***************************************************************************)
LEMMA FreshFrames ==
    ASSUME NEW f \in Nat, NEW xor \in Pixels
    PROVE  /\ FrameAt(f, FreshFrame(f % FrameMod, xor))
           /\ Held(FreshFrame(f % FrameMod, xor)) = {}
<1> DEFINE fr == FreshFrame(f % FrameMod, xor)
<1>1. /\ Rows \in Nat /\ Rows >= 1 /\ FrameMod \in Nat \ {0}
      /\ f % FrameMod \in 0 .. FrameMod - 1
  BY Constants, Remainder
<1>2. /\ fr.frame_number = f % FrameMod /\ fr.lineCount = 0 /\ fr.lastMissingLine = -1
      /\ fr.missingLines = 0 /\ fr.has_xor = FALSE /\ fr.xorline = xor
      /\ fr.frame_buf = [l \in Lines |-> Black]
  BY DEF FreshFrame
<1>3. fr \in FrameSet
  BY <1>1 DEF FreshFrame, FrameSet, Black, Pixels
<1> HIDE DEF fr
<1>4. Held(fr) = {}
  BY <1>2 DEF Held
<1>5. fr.lineCount = Cardinality(Held(fr))
  BY <1>2, <1>4, FS_EmptySet
<1>6. GapsNoted(fr)
  BY <1>1, <1>2, <1>4 DEF GapsNoted
<1>7. \A l \in Lines : fr.frame_buf[l] \in {Black, Row(f, l)}
  BY <1>2
<1>8. FrameAt(f, fr)
  BY <1>2, <1>3, <1>5, <1>6, <1>7 DEF FrameAt
<1> QED BY <1>4, <1>8 DEF fr

\* What NewFrame makes of a packet that is a row.
Carried(number, xor, k, data) ==
    [FreshFrame(number, xor) EXCEPT !.frame_buf[k] = data, !.lineCount = 1]

\* A carried row is the only one of the frame it begins.
LEMMA CarriedRow ==
    ASSUME NEW f \in Nat, NEW xor \in Pixels, NEW k \in Lines, NEW fr,
           fr = Carried(f % FrameMod, xor, k, Row(f, k))
    PROVE  FrameAt(f, fr) /\ Held(fr) = {k}
<1>1. /\ Rows \in Nat /\ Rows >= 1 /\ FrameMod \in Nat \ {0}
      /\ f % FrameMod \in 0 .. FrameMod - 1 /\ k \in Nat /\ k < Rows
  BY Constants, Remainder DEF Lines
<1>2. /\ fr.frame_number = f % FrameMod /\ fr.lineCount = 1 /\ fr.lastMissingLine = -1
      /\ fr.missingLines = 0 /\ fr.has_xor = FALSE /\ fr.xorline = xor
      /\ fr.frame_buf = [[l \in Lines |-> Black] EXCEPT ![k] = Row(f, k)]
  BY DEF Carried, FreshFrame
<1>3. Row(f, k) \in Pixels /\ Row(f, k) # Black /\ Black \in Pixels
  BY <1>1 DEF Row, Black, Pixels
<1>4. fr.frame_buf \in [Lines -> Pixels]
  BY <1>2, <1>3
<1>5. fr = [frame_number |-> f % FrameMod, lineCount |-> 1, lastMissingLine |-> -1,
            missingLines |-> 0, has_xor |-> FALSE, xorline |-> xor,
            frame_buf |-> fr.frame_buf]
  BY DEF Carried, FreshFrame
<1>6. fr \in FrameSet
  <2>1. \A buf \in [Lines -> Pixels] :
          [frame_number |-> f % FrameMod, lineCount |-> 1, lastMissingLine |-> -1,
           missingLines |-> 0, has_xor |-> FALSE, xorline |-> xor, frame_buf |-> buf] \in FrameSet
    BY <1>1 DEF FrameSet
  <2> QED BY <1>4, <1>5, <2>1
<1>7. \A l \in Lines : fr.frame_buf[l] = IF l = k THEN Row(f, k) ELSE Black
  BY <1>2
<1>8. Held(fr) = {k}
  BY <1>3, <1>7 DEF Held
<1>9. fr.lineCount = Cardinality(Held(fr))
  BY <1>2, <1>8, FS_Singleton
<1>10. GapsNoted(fr)
  <2>1. \A l \in Lines : l < 1 => l = 0
    BY <1>1 DEF Lines
  <2> QED BY <1>1, <1>2, <1>8, <2>1 DEF GapsNoted
<1>11. FrameAt(f, fr)
  BY <1>2, <1>6, <1>7, <1>9, <1>10 DEF FrameAt
<1> QED BY <1>8, <1>11

\* Taking the XOR row leaves the rows held as they are.
LEMMA XorKept ==
    ASSUME NEW h \in Nat, NEW old, FrameAt(h, old), SendXor, NEW fr,
           fr = [old EXCEPT !.xorline = AllRows(h), !.has_xor = TRUE]
    PROVE  FrameAt(h, fr) /\ Held(fr) = Held(old)
<1>1. old \in FrameSet
  BY DEF FrameAt
<1>2. AllRows(h) \in Pixels
  BY Constants DEF AllRows, Lines, Pixels
<1>3. /\ fr.frame_number = old.frame_number /\ fr.lineCount = old.lineCount
      /\ fr.lastMissingLine = old.lastMissingLine
      /\ fr.missingLines = old.missingLines /\ fr.has_xor = TRUE /\ fr.xorline = AllRows(h)
      /\ fr.frame_buf = old.frame_buf
      /\ fr \in FrameSet
  BY <1>1, <1>2 DEF FrameSet
<1>4. Held(fr) = Held(old)
  BY <1>3 DEF Held
<1>5. GapsNoted(fr)
  BY <1>3, <1>4 DEF FrameAt, GapsNoted
<1> QED BY <1>3, <1>4, <1>5 DEF FrameAt

\* What ReceiveRow makes of a frame and a row.
Kept(old, k, data) == [NoteGap(old, k) EXCEPT !.frame_buf[k] = data, !.lineCount = @ + 1]

\* A row that comes behind those held: the gap in front of it is noted.
LEMMA RowKept ==
    ASSUME NEW h \in Nat, NEW old, FrameAt(h, old), NEW k \in Lines,
           \A l \in Held(old) : l < k, NEW fr,
           fr = Kept(old, k, Row(h, k))
    PROVE  FrameAt(h, fr) /\ Held(fr) = Held(old) \cup {k}
<1> DEFINE top == old.lineCount + old.missingLines
<1>1. /\ old \in FrameSet /\ Rows \in Nat /\ Rows >= 1 /\ k \in Nat /\ k <= Rows - 1
      /\ old.lineCount = Cardinality(Held(old)) /\ old.lineCount \in 0 .. Rows
      /\ GapsNoted(old) /\ old.lineCount \in Nat
      /\ \A l \in Held(old) : l \in Nat /\ l \in Int
  <2>1. Rows \in Nat /\ Rows >= 1
    BY Constants
  <2>2. Cardinality(Held(old)) \in 0 .. Rows /\ Held(old) \subseteq Lines
    BY HeldRows
  <2>3. k \in Nat /\ k <= Rows - 1 /\ \A l \in Lines : l \in Nat /\ l \in Int
    BY <2>1 DEF Lines
  <2>4. old \in FrameSet /\ old.lineCount = Cardinality(Held(old)) /\ GapsNoted(old)
    BY DEF FrameAt
  <2>5. \A l \in Held(old) : l \in Nat /\ l \in Int
    BY <2>2, <2>3
  <2>6. old.lineCount \in 0 .. Rows /\ old.lineCount \in Nat
    BY <2>1, <2>2, <2>4
  <2> QED BY <2>1, <2>3, <2>4, <2>5, <2>6
<1>2. /\ old.missingLines \in Nat /\ old.missingLines <= Rows - 1
      /\ old.lastMissingLine \in Int /\ old.lastMissingLine >= -1 /\ old.lastMissingLine <= Rows - 2
      /\ \/ Held(old) = {} /\ old.missingLines = 0 /\ old.lastMissingLine = -1
         \/ \E t \in Held(old) : top <= t + 1 /\ old.lastMissingLine < t
      /\ 0 \in Held(old) =>
           /\ \A l \in Held(old) : l < top
           /\ \A l \in Lines : l < top => l \in Held(old) \/ l <= old.lastMissingLine
           /\ old.lastMissingLine \notin Held(old)
  BY <1>1 DEF GapsNoted
<1>3. Held(old) = {} => old.lineCount = 0
  BY <1>1, FS_EmptySet
<1>4. top \in Nat /\ top <= k /\ old.lastMissingLine < k
  <2>1. CASE Held(old) = {}
    BY <1>1, <1>2, <1>3, <2>1
  <2>2. CASE \E t \in Held(old) : top <= t + 1 /\ old.lastMissingLine < t
    <3>1. PICK t \in Held(old) : top <= t + 1 /\ old.lastMissingLine < t
      BY <2>2
    <3>2. t < k /\ t \in Int
      BY <1>1
    <3> QED BY <1>1, <1>2, <3>1, <3>2
  <2> QED BY <1>2, <2>1, <2>2
<1>5. /\ fr.frame_number = old.frame_number /\ fr.lineCount = old.lineCount + 1
      /\ fr.has_xor = old.has_xor /\ fr.xorline = old.xorline
      /\ fr.frame_buf = [old.frame_buf EXCEPT ![k] = Row(h, k)]
      /\ fr.lastMissingLine = IF top < k THEN k - 1 ELSE old.lastMissingLine
      /\ fr.missingLines = IF top < k THEN k - old.lineCount ELSE old.missingLines
      /\ fr = [frame_number |-> fr.frame_number, lineCount |-> fr.lineCount,
               lastMissingLine |-> fr.lastMissingLine, missingLines |-> fr.missingLines,
               has_xor |-> fr.has_xor, xorline |-> fr.xorline, frame_buf |-> fr.frame_buf]
  BY <1>1 DEF Kept, NoteGap, FrameSet
<1>6. Row(h, k) \in Pixels /\ Row(h, k) # Black
  BY <1>1 DEF Row, Black, Pixels
<1>7. /\ old.frame_buf \in [Lines -> Pixels] /\ old.frame_number \in 0 .. FrameMod - 1
      /\ old.has_xor \in BOOLEAN /\ old.xorline \in Pixels
  BY <1>1 DEF FrameSet
<1>8. /\ fr.frame_buf \in [Lines -> Pixels]
      /\ \A l \in Lines : fr.frame_buf[l] = IF l = k THEN Row(h, k) ELSE old.frame_buf[l]
  <2>1. PICK buf \in [Lines -> Pixels], row \in Pixels : buf = old.frame_buf /\ row = Row(h, k)
    BY <1>6, <1>7
  <2>2. fr.frame_buf = [buf EXCEPT ![k] = row]
    BY <1>5, <2>1
  <2>3. /\ fr.frame_buf \in [Lines -> Pixels]
        /\ \A l \in Lines : fr.frame_buf[l] = IF l = k THEN row ELSE buf[l]
    BY <2>2
  <2> QED BY <2>1, <2>3
<1>9. Held(fr) = Held(old) \cup {k}
  BY <1>6, <1>8 DEF Held
<1>10. fr.lineCount = Cardinality(Held(fr))
  <2>1. IsFiniteSet(Held(old)) /\ k \notin Held(old)
    BY <1>1, HeldRows
  <2>2. Cardinality(Held(fr)) = Cardinality(Held(old)) + 1
    BY <1>9, <2>1, FS_AddElement
  <2> QED BY <1>1, <1>5, <2>2
<1> HIDE DEF top
<1>11. /\ fr.missingLines \in Nat /\ fr.missingLines <= Rows - 1
       /\ fr.lastMissingLine \in Int /\ fr.lastMissingLine >= -1 /\ fr.lastMissingLine <= Rows - 2
       /\ fr.lineCount + fr.missingLines = k + 1 \/ fr.lineCount + fr.missingLines <= k
       /\ fr.lastMissingLine < k
       /\ top = k \/ top < k => fr.lineCount + fr.missingLines = k + 1
  BY <1>1, <1>2, <1>4, <1>5 DEF top
<1>12. ASSUME 0 \in Held(fr)
       PROVE  /\ \A l \in Held(fr) : l < k + 1
              /\ \A l \in Lines : l < k + 1 => l \in Held(fr) \/ l <= fr.lastMissingLine
              /\ fr.lastMissingLine \notin Held(fr)
  <2>0. \A l \in Lines : l \in Nat
    BY DEF Lines
  <2>1. \A l \in Held(fr) : l < k + 1
    BY <1>1, <1>9
  <2>2. CASE 0 \in Held(old)
    <3>1. CASE top < k
      <4>1. fr.lastMissingLine = k - 1
        BY <1>5, <3>1
      <4>2. \A l \in Held(old) : l < top
        BY <1>2, <2>2
      <4>3. k - 1 \notin Held(old)
        BY <1>1, <1>4, <3>1, <4>2
      <4>4. \A l \in Lines : l < k + 1 => l = k \/ l <= k - 1
        BY <1>1, <2>0
      <4> QED BY <1>1, <1>9, <2>1, <4>1, <4>3, <4>4
    <3>2. CASE top = k
      <4>1. fr.lastMissingLine = old.lastMissingLine
        BY <1>1, <1>5, <3>2
      <4>2. \A l \in Lines : l < k + 1 => l = k \/ l < top
        BY <1>1, <2>0, <3>2
      <4>3. old.lastMissingLine \notin Held(old)
        BY <1>2, <2>2
      <4>4. \A l \in Lines : l < top => l \in Held(old) \/ l <= old.lastMissingLine
        BY <1>2, <2>2
      <4> QED BY <1>1, <1>9, <1>11, <2>1, <4>1, <4>2, <4>3, <4>4
    <3> QED BY <1>1, <1>4, <3>1, <3>2
  <2>3. CASE 0 \notin Held(old)
    <3>1. k = 0
      BY <1>9, <1>12, <2>3
    <3>2. \A l \in Lines : l < k + 1 => l = k
      BY <2>0, <3>1
    <3>3. Held(old) = {}
      BY <1>1, <3>1
    <3>4. fr.lastMissingLine # k
      BY <1>11, <1>1
    <3> QED BY <1>9, <2>1, <3>2, <3>3, <3>4
  <2> QED BY <2>2, <2>3
<1>13. fr.lineCount + fr.missingLines = k + 1
  BY <1>1, <1>4, <1>11
<1>14. GapsNoted(fr)
  <2>1. k \in Held(fr) /\ fr.missingLines \in 0 .. Rows - 1 /\ fr.lastMissingLine \in -1 .. Rows - 2
    BY <1>1, <1>9, <1>11
  <2>2. k + 1 <= k + 1
    BY <1>1
  <2> QED BY <1>11, <1>12, <1>13, <2>1, <2>2 DEF GapsNoted
<1>15. fr \in FrameSet
  <2>1. fr.lineCount \in Nat /\ fr.missingLines \in Int
    BY <1>1, <1>5, <1>11
  <2> QED BY <1>5, <1>7, <1>8, <1>11, <2>1 DEF FrameSet
<1>16. \A l \in Lines : fr.frame_buf[l] \in {Black, Row(h, l)}
  BY <1>8 DEF FrameAt
<1> QED BY <1>5, <1>9, <1>10, <1>14, <1>15, <1>16 DEF FrameAt

(***************************************************************************)
(* The rows that are missing at the end of a frame.                        *)
(***************************************************************************)
LEMMA MissingRows ==
    ASSUME NEW h, NEW fr, FrameAt(h, fr)
    PROVE  /\ fr.lineCount \in 0 .. Rows
           /\ Cardinality(Lines \ Held(fr)) = Rows - fr.lineCount
           /\ fr.lineCount = Rows => Lines \ Held(fr) = {}
           /\ Rows - fr.lineCount = 1 <=> \E m \in Lines : Lines \ Held(fr) = {m}
<1>1. /\ Held(fr) \subseteq Lines /\ IsFiniteSet(Held(fr)) /\ IsFiniteSet(Lines)
      /\ Cardinality(Held(fr)) \in 0 .. Rows /\ Cardinality(Lines) = Rows
      /\ Cardinality(Held(fr)) = Rows => Held(fr) = Lines
  BY HeldRows
<1>2. fr.lineCount = Cardinality(Held(fr))
  BY DEF FrameAt
<1>3. /\ IsFiniteSet(Lines \ Held(fr))
      /\ Cardinality(Lines \ Held(fr)) = Cardinality(Lines) - Cardinality(Lines \cap Held(fr))
  BY <1>1, FS_Difference
<1>4. Lines \cap Held(fr) = Held(fr)
  BY <1>1
<1>5. Cardinality(Lines \ Held(fr)) = Rows - fr.lineCount
  BY <1>1, <1>2, <1>3, <1>4
<1>6. Cardinality(Lines \ Held(fr)) = 1 <=> \E m : Lines \ Held(fr) = {m}
  BY <1>3, FS_Singleton
<1>7. (\E m : Lines \ Held(fr) = {m}) <=> \E m \in Lines : Lines \ Held(fr) = {m}
  OBVIOUS
<1> QED BY <1>1, <1>2, <1>5, <1>6, <1>7

\* A buffer with all rows is the image.
LEMMA WholeImage ==
    ASSUME NEW h, NEW fr, FrameAt(h, fr), Held(fr) = Lines
    PROVE  fr.frame_buf = Image(h)
<1>1. fr.frame_buf \in [Lines -> Pixels]
  BY DEF FrameAt, FrameSet
<1>2. \A l \in Lines : fr.frame_buf[l] = Row(h, l)
  BY DEF FrameAt, Held
<1> QED BY <1>1, <1>2 DEF Image

(***************************************************************************)
(* The repair of a frame that lacks one row, neither its first nor its     *)
(* last: lastMissingLine is that row, and the XOR of the XOR row and all   *)
(* other rows is that row's contents.                                      *)
(***************************************************************************)
LEMMA RepairedImage ==
    ASSUME NEW h \in Nat, NEW fr, FrameAt(h, fr), fr.has_xor, NEW m \in 1 .. Rows - 2,
           Lines \ Held(fr) = {m}
    PROVE  Repair(fr) = Image(h)
<1>1. /\ Rows \in Nat /\ m \in Nat /\ m \in Lines /\ 0 \in Lines /\ Rows - 1 \in Lines
      /\ 0 # m /\ Rows - 1 # m
      /\ Held(fr) = Lines \ {m}
      /\ \A l \in Lines : l \in Nat /\ l <= Rows - 1
  BY Constants DEF Lines, Held
<1>2. fr.lastMissingLine = m
  <2>1. GapsNoted(fr)
    BY DEF FrameAt
  <2>2. 0 \in Held(fr) /\ Rows - 1 \in Held(fr)
    BY <1>1
  <2> DEFINE top == fr.lineCount + fr.missingLines
  <2>3. /\ \A l \in Held(fr) : l < top
        /\ \A l \in Lines : l < top => l \in Held(fr) \/ l <= fr.lastMissingLine
        /\ fr.lastMissingLine \notin Held(fr) /\ fr.lastMissingLine \in -1 .. Rows - 2
    BY <2>1, <2>2 DEF GapsNoted
  <2>4. top \in Int
    BY DEF FrameAt, FrameSet
  <2> HIDE DEF top
  <2>5. m < top
    BY <1>1, <2>2, <2>3, <2>4
  <2>6. m <= fr.lastMissingLine
    BY <1>1, <2>3, <2>5
  <2>7. fr.lastMissingLine \in Lines
    BY <1>1, <2>3, <2>6 DEF Lines
  <2> QED BY <1>1, <2>3, <2>7
<1> DEFINE S == Lines \ {m}
           others == { <<h, l>> : l \in S }
<1>3. fr.xorline = AllRows(h) /\ fr.frame_buf \in [Lines -> Pixels]
  BY DEF FrameAt, FrameSet
<1>4. \A l \in S : fr.frame_buf[l] = { <<h, l>> }
  BY <1>1 DEF FrameAt, Held, Row
<1>5. XorOfRows(fr.frame_buf, S) = others
  <2>1. UNION { fr.frame_buf[l] : l \in S } = others
    BY <1>4
  <2>2. ASSUME NEW px \in others
        PROVE  Cardinality({ l \in S : px \in fr.frame_buf[l] }) % 2 = 1
    <3>1. PICK k \in S : px = <<h, k>>
      OBVIOUS
    <3>2. { l \in S : px \in fr.frame_buf[l] } = {k}
      BY <1>4, <3>1
    <3>3. Cardinality({ l \in S : px \in fr.frame_buf[l] }) = 1
      BY <3>2, FS_Singleton
    <3>4. 1 % 2 = 1
      OBVIOUS
    <3> QED BY <3>3, <3>4
  <2> DEFINE Odd(px) == Cardinality({ l \in S : px \in fr.frame_buf[l] }) % 2 = 1
  <2>3. XorOfRows(fr.frame_buf, S) = { px \in UNION { fr.frame_buf[l] : l \in S } : Odd(px) }
    BY DEF XorOfRows
  <2>4. \A px \in others : Odd(px)
    BY <2>2
  <2> HIDE DEF others, Odd
  <2> QED BY <2>1, <2>3, <2>4
<1>6. Xor(AllRows(h), others) = Row(h, m)
  BY <1>1 DEF Xor, AllRows, Row
<1>7. Repair(fr) = [fr.frame_buf EXCEPT ![m] = Row(h, m)]
  BY <1>1, <1>2, <1>3, <1>5, <1>6 DEF Repair
<1>8. \A l \in Lines : l # m => fr.frame_buf[l] = Row(h, l)
  BY <1>4 DEF Row
<1>9. PICK buf \in [Lines -> Pixels] : buf = fr.frame_buf
  BY <1>3
<1>10. [buf EXCEPT ![m] = Row(h, m)] = [l \in Lines |-> Row(h, l)]
  BY <1>1, <1>8, <1>9
<1> QED BY <1>7, <1>9, <1>10 DEF Image

\* Nothing but row lastMissingLine is changed by the repair.
LEMMA RepairElsewhere ==
    ASSUME NEW h, NEW fr, FrameAt(h, fr), NEW l \in Lines, l # fr.lastMissingLine
    PROVE  Repair(fr)[l] = fr.frame_buf[l]
<1>1. PICK buf \in [Lines -> Pixels] : buf = fr.frame_buf
  BY DEF FrameAt, FrameSet
<1>2. \A t \in Lines : \A row : l # t => [buf EXCEPT ![t] = row][l] = buf[l]
  OBVIOUS
<1> QED BY <1>1, <1>2 DEF Repair

\* The rows held are of one frame, and a repair mixes in no other.
LEMMA OneFrame ==
    ASSUME NEW h \in Nat, NEW fr, FrameAt(h, fr), NEW l \in Lines
    PROVE  /\ fr.frame_buf[l] \subseteq AllRows(h)
           /\ fr.has_xor => Repair(fr)[l] \subseteq AllRows(h)
<1>1. ASSUME NEW k \in Lines PROVE fr.frame_buf[k] \subseteq AllRows(h)
  BY DEF FrameAt, Black, Row, AllRows
<1>2. ASSUME fr.has_xor PROVE Repair(fr)[l] \subseteq AllRows(h)
  <2>1. CASE l # fr.lastMissingLine
    BY <1>1, <2>1, RepairElsewhere
  <2>2. CASE l = fr.lastMissingLine
    <3>1. PICK buf \in [Lines -> Pixels] : buf = fr.frame_buf
      BY DEF FrameAt, FrameSet
    <3>2. Repair(fr)[l] = Xor(fr.xorline, XorOfRows(buf, Lines \ {l}))
      BY <2>2, <3>1 DEF Repair
    <3>3. XorOfRows(buf, Lines \ {l}) \subseteq AllRows(h)
      BY <1>1, <3>1 DEF XorOfRows
    <3>4. fr.xorline = AllRows(h)
      BY <1>2 DEF FrameAt
    <3> QED BY <3>2, <3>3, <3>4 DEF Xor
  <2> QED BY <2>1, <2>2
<1> QED BY <1>1, <1>2

-----------------------------------------------------------------------------
(* A packet is taken from the network *)

Taken ==
    /\ net # <<>> /\ net' = Tail(net)
    /\ UNCHANGED <<frame_number, exposure, line_number, xorram, aborted, lost>>

\* Taking a packet keeps the others in flight, which come after it.
LEMMA TakenStep ==
    ASSUME Grounded, Taken, NEW d, d = Head(net)
    PROVE  /\ Grounded'
           /\ d \in Flight /\ Genuine(d) /\ d.origin \in Nat
           /\ ~Failure(d) => <<d.origin, d.pkt.line>> \notin lost
           /\ \A e \in Flight' : e \in Flight /\ Before(d, e) /\ Genuine(e)
           /\ \A e \in Flight : e.origin \in Nat /\ e.origin >= d.origin /\ (e = d \/ e \in Flight')
           /\ \A f \in Nat, k \in Indices : WasSent(f, k)' <=> WasSent(f, k)
           /\ \A f \in Nat, k \in Indices :
                Out(f, k) => Out(f, k)' \/ (d.origin = f /\ d.pkt.line = Code(f, k))
<1>1. /\ SourceInv' /\ NetInv'
      /\ d \in Flight /\ Genuine(d)
      /\ Flight = Flight' \cup {d}
      /\ \A e \in Flight' : Before(d, e) /\ Genuine(e)
      /\ \A x : LostWasSent(x)' <=> LostWasSent(x)
      /\ \A f \in Nat, k \in Indices : WasSent(f, k)' <=> WasSent(f, k)
  BY Leaves DEF Taken
<1>2. lost' = lost
  BY DEF Taken
<1>3. LostInv'
  <2>1. \A e \in Flight' : (~Failure(e) => <<e.origin, e.pkt.line>> \notin lost)'
    BY <1>1, <1>2 DEF Grounded, LostInv, Failure
  <2> QED BY <1>1, <1>2, <2>1 DEF Grounded, LostInv
<1>4. \A e \in Flight : e.origin \in Nat
  BY DEF Grounded, NetInv, SourceInv, Genuine
<1>5. \A e \in Flight : e.origin >= d.origin
  BY <1>1, <1>4 DEF Before
<1>6. ~Failure(d) => <<d.origin, d.pkt.line>> \notin lost
  BY <1>1 DEF Grounded, LostInv
<1>7. ASSUME NEW f \in Nat, NEW k \in Indices, Out(f, k)
      PROVE  Out(f, k)' \/ (d.origin = f /\ d.pkt.line = Code(f, k))
  BY <1>1, <1>2, <1>7 DEF Out, Gone, Flying
<1> QED BY <1>1, <1>3, <1>4, <1>5, <1>6, <1>7 DEF Grounded

(***************************************************************************)
(* A frame that lost its EOF or all its rows cannot be delivered.          *)
(***************************************************************************)
LEMMA Unrecoverable ==
    ASSUME NEW f \in Nat, Gone(f, Rows + 1) \/ RowsGone(f)
    PROVE  ~Recoverable(f)
<1>1. /\ Rows \in Nat /\ Rows >= 1 /\ 0 \in Lines /\ 0 \in Indices /\ Rows + 1 \in Indices
      /\ 0 # Rows + 1 /\ \A l \in 1 .. Rows - 2 : l \in Lines /\ l \in Indices /\ l # 0 /\ l # Rows + 1
  BY Constants DEF Lines, Indices
<1>2. PICK k \in {0, Rows + 1} : <<f, Code(f, k)>> \in lost
  BY <1>1 DEF Gone, RowsGone
<1>3. k \in Indices /\ \A l \in 1 .. Rows - 2 : Code(f, l) # Code(f, k)
  BY <1>1, Codes
<1>4. Code(f, k) # LINENO_XOR
  BY <1>1, Codes, Reserved
<1>5. <<f, Code(f, k)>> \in LostOf(f)
  BY <1>2 DEF LostOf
<1>6. \A l \in 1 .. Rows - 2 : LineField(f, l, FrameBits) = Code(f, l)
  BY <1>1 DEF Code, Lines
<1> QED BY <1>3, <1>4, <1>5, <1>6 DEF Recoverable

(***************************************************************************)
(* When the host has received nothing of the frames after h and the oldest *)
(* packet is one of frame o, the finished frames in between lost all their *)
(* rows and their EOF.                                                     *)
(***************************************************************************)
LEMMA SkippedFrames ==
    ASSUME Grounded, NEW d \in Flight, d.origin \in Nat, \A e \in Flight : e.origin >= d.origin,
           NEW h \in Int, h >= -1, Ahead(h),
           NEW f \in Nat, h < f, f < d.origin, f \notin aborted
    PROVE  \A k \in Indices : k # Rows => Gone(f, k)
<1>1. frame_number \in Nat /\ d.origin <= frame_number
  BY DEF Grounded, SourceInv, NetInv, Genuine
<1>2. ASSUME NEW k \in Indices, k # Rows PROVE Gone(f, k)
  <2>1. WasSent(f, k) /\ f \in 0 .. frame_number
    BY <1>1, <1>2 DEF WasSent
  <2>2. Out(f, k)
    BY <2>1 DEF Ahead
  <2>3. ~Flying(f, k)
    BY DEF Flying
  <2> QED BY <2>2, <2>3 DEF Out
<1> QED BY <1>2

\* Fewer frames vanish in a row than half of the frame numbers.
LEMMA HalfRangeFacts ==
    /\ HalfRange \in Nat /\ HalfRange >= 1 /\ HalfRange < FrameMod
    /\ MaxLost \div (Rows + 1) \in Nat
    /\ MaxAborts + 1 + (MaxLost \div (Rows + 1)) <= HalfRange
<1>1. /\ FrameMod \in Nat /\ FrameMod >= 2 /\ FrameMod - 1 \in Int
      /\ MaxAborts \in Nat /\ MaxLost \in Nat /\ Rows + 1 \in Nat \ {0} /\ Rows \in Nat
  BY Constants
<1> DEFINE q == MaxLost \div (Rows + 1)
           r == MaxLost % (Rows + 1)
<1>2. q \in Int /\ r \in 0 .. (Rows + 1) - 1 /\ MaxLost = (Rows + 1) * q + r
  <2>1. PICK M \in Nat \ {0} : M = Rows + 1
    BY <1>1
  <2>2. MaxLost \div M \in Int /\ MaxLost % M \in 0 .. M - 1
        /\ MaxLost = M * (MaxLost \div M) + (MaxLost % M)
    BY <1>1, Remainder
  <2> QED BY <2>1, <2>2
<1>3. MaxAborts + 1 + q <= HalfRange
  BY AliasAssumption DEF HalfRange
<1>4. HalfRange \in Int /\ (FrameMod - 1) % 2 \in 0 .. 1 /\ FrameMod - 1 = 2 * HalfRange + ((FrameMod - 1) % 2)
  BY <1>1, Remainder DEF HalfRange
<1> HIDE DEF q, r
<1>5. q >= 0
  <2> SUFFICES ASSUME q <= -1 PROVE FALSE
    BY <1>2
  <2>1. (Rows + 1) * q <= (Rows + 1) * (-1)
    BY <1>1, <1>2, Products
  <2>2. (Rows + 1) * (-1) = -(Rows + 1)
    BY <1>1
  <2>3. (Rows + 1) * q \in Int
    BY <1>1, <1>2, Products
  <2> QED BY <1>1, <1>2, <2>1, <2>2, <2>3
<1>6. HalfRange >= 1
  BY <1>1, <1>2, <1>3, <1>4, <1>5
<1>7. HalfRange < FrameMod
  <2>1. (FrameMod - 1) % 2 \in Int
    BY <1>4
  <2> QED BY <1>1, <1>4, <1>6, <2>1
<1> QED BY <1>2, <1>3, <1>4, <1>5, <1>6, <1>7 DEF q

\* So the driver counts on rightly from one frame to the next it is given.
LEMMA CountsOn ==
    ASSUME NEW a \in Int, NEW h \in Int, h - a \in 1 .. HalfRange
    PROVE  FrameAfter(a, h % FrameMod) = h
<1>1. PICK n \in 1 .. HalfRange : n = h - a
  OBVIOUS
<1>2. n \in 0 .. FrameMod - 1 /\ FrameMod \in Nat \ {0} /\ n <= HalfRange /\ a + n = h
  BY <1>1, Constants, HalfRangeFacts
<1>3. ((h % FrameMod) - a) % FrameMod = n
  BY <1>2, MaskedDistance
<1> QED BY <1>2, <1>3 DEF FrameAfter, HalfRange

(***************************************************************************)
(* So fewer frames lie between h and o than half of the frame numbers: the *)
(* packets that the frames in between have lost can be counted.            *)
(***************************************************************************)
LEMMA GapBound ==
    ASSUME Grounded, NEW d \in Flight, d.origin \in Nat, \A e \in Flight : e.origin >= d.origin,
           NEW h \in Int, h >= -1, h < d.origin, Ahead(h)
    PROVE  d.origin - h \in 1 .. HalfRange
<1> DEFINE I == h + 1 .. d.origin - 1
           B == I \ aborted
           N == 0 .. Rows
           K(n) == IF n < Rows THEN n ELSE Rows + 1
           g == [x \in B \X N |-> <<x[1], Code(x[1], K(x[2]))>>]
<1>0. PICK c \in Nat : c = d.origin
  OBVIOUS
<1>1. /\ Rows \in Nat /\ h < c /\ MaxAborts \in Nat /\ MaxLost \in Nat
      /\ I = h + 1 .. c - 1
      /\ IsFiniteSet(lost) /\ Cardinality(lost) <= MaxLost
      /\ Cardinality(aborted) <= MaxAborts /\ aborted \subseteq 0 .. frame_number - 1
      /\ frame_number \in Nat
      /\ \A f \in B : f \in Nat /\ h < f /\ f < d.origin /\ f \notin aborted
  BY <1>0, Constants DEF Grounded, SourceInv, LostInv
<1>2. g \in Injection(B \X N, lost)
  <2>1. \A n \in N : K(n) \in Indices /\ K(n) # Rows
    BY <1>1 DEF Indices
  <2>2. \A m, n \in N : K(m) = K(n) => m = n
    BY <1>1
  <2>3. \A f \in Nat, j, k \in Indices : Code(f, j) = Code(f, k) => j = k
    BY Codes
  <2> HIDE DEF K, B, N
  <2>4. ASSUME NEW x \in B \X N PROVE g[x] \in lost
    <3>1. x[1] \in B /\ x[2] \in N
      OBVIOUS
    <3>2. \A k \in Indices : k # Rows => Gone(x[1], k)
      BY <1>1, <3>1, SkippedFrames
    <3> QED BY <2>1, <3>1, <3>2 DEF Gone
  <2>5. ASSUME NEW x \in B \X N, NEW y \in B \X N, g[x] = g[y] PROVE x = y
    <3>1. /\ x = <<x[1], x[2]>> /\ y = <<y[1], y[2]>> /\ x[1] = y[1]
          /\ Code(x[1], K(x[2])) = Code(x[1], K(y[2]))
          /\ x[1] \in Nat /\ x[2] \in N /\ y[2] \in N
      BY <1>1, <2>5
    <3>2. x[2] = y[2]
      BY <2>1, <2>2, <2>3, <3>1
    <3> QED BY <3>1, <3>2
  <2> QED BY <2>4, <2>5 DEF Injection, IsInjective
<1> DEFINE b == Cardinality(B)
<1>3. IsFiniteSet(I) /\ Cardinality(I) = c - h - 1
  <2>1. h + 1 \in Int /\ c - 1 \in Int
    BY <1>1
  <2>2. /\ IsFiniteSet(h + 1 .. c - 1)
        /\ Cardinality(h + 1 .. c - 1) = IF h + 1 > c - 1 THEN 0 ELSE (c - 1) - (h + 1) + 1
    BY <2>1, FS_Interval
  <2> QED BY <1>1, <2>2
<1>4. IsFiniteSet(B) /\ b \in Nat /\ c - h - 1 <= MaxAborts + b
  <2>1. IsFiniteSet(aborted)
    <3>1. 0 \in Int /\ frame_number - 1 \in Int
      BY <1>1
    <3>2. IsFiniteSet(0 .. frame_number - 1)
      BY <3>1, FS_Interval
    <3> QED BY <1>1, <3>2, FS_Subset
  <2>2. IsFiniteSet(B) /\ b = Cardinality(I) - Cardinality(I \cap aborted)
    BY <1>3, FS_Difference
  <2>3. IsFiniteSet(I \cap aborted) /\ Cardinality(I \cap aborted) <= Cardinality(aborted)
    BY <2>1, FS_Intersection
  <2>4. b \in Nat /\ Cardinality(I \cap aborted) \in Nat /\ Cardinality(aborted) \in Nat
    BY <2>1, <2>2, <2>3, FS_CardinalityType
  <2> QED BY <1>1, <1>3, <2>2, <2>3, <2>4
<1>5. b * (Rows + 1) <= MaxLost
  <2>1. IsFiniteSet(N) /\ Cardinality(N) = Rows + 1
    <3>1. IsFiniteSet(0 .. Rows) /\ Cardinality(0 .. Rows) = IF 0 > Rows THEN 0 ELSE Rows - 0 + 1
      <4>1. 0 \in Int /\ Rows \in Int
        BY <1>1
      <4> QED BY <4>1, FS_Interval
    <3> QED BY <1>1, <3>1
  <2>2. IsFiniteSet(B \X N) /\ Cardinality(B \X N) = b * (Rows + 1)
    BY <1>4, <2>1, FS_Product
  <2>3. Cardinality(B \X N) <= Cardinality(lost)
    BY <1>1, <1>2, FS_Injection
  <2>4. Cardinality(lost) \in Nat /\ Cardinality(B \X N) \in Nat
    BY <1>1, <2>2, FS_CardinalityType
  <2> HIDE DEF B, N
  <2> QED BY <1>1, <2>2, <2>3, <2>4
<1>6. b <= MaxLost \div (Rows + 1)
  <2>1. PICK M \in Nat \ {0} : M = Rows + 1
    BY <1>1
  <2> DEFINE q == MaxLost \div M
             r == MaxLost % M
  <2>2. q \in Int /\ r \in 0 .. M - 1 /\ MaxLost = M * q + r
    <3>1. MaxLost \in Int
      BY <1>1
    <3> QED BY <3>1, Remainder
  <2>3. b * M <= MaxLost /\ b \in Int
    BY <1>4, <1>5, <2>1
  <2> HIDE DEF q, r, b
  <2>4. SUFFICES ASSUME q + 1 <= b PROVE FALSE
    BY <2>1, <2>2, <2>3 DEF q
  <2>5. (q + 1) * M <= b * M /\ (q + 1) * M = q * M + 1 * M /\ q * M \in Int /\ b * M \in Int
        /\ M * q = q * M /\ 1 * M = M
    <3>1. M \in Int /\ M >= 0 /\ q + 1 \in Int /\ 1 \in Int
      BY <2>2
    <3>2. /\ (q + 1) * M = q * M + 1 * M /\ q * M \in Int
      BY <2>2, <3>1, Products
    <3>3. b * M \in Int /\ (q + 1) * M <= b * M
      BY <2>3, <2>4, <3>1, Products
    <3>4. M * q = q * M /\ 1 * M = M
      BY <2>2, <3>1
    <3> QED BY <3>2, <3>3, <3>4
  <2> QED BY <1>1, <2>2, <2>3, <2>5
<1> HIDE DEF b
<1>7. c - h >= 1 /\ c - h <= HalfRange
  <2>1. PICK q \in Nat : q = MaxLost \div (Rows + 1)
    BY HalfRangeFacts
  <2>2. HalfRange \in Nat /\ MaxAborts + 1 + q <= HalfRange
    BY <2>1, HalfRangeFacts
  <2> QED BY <1>1, <1>4, <1>6, <2>1, <2>2
<1> QED BY <1>0, <1>1, <1>7, HalfRangeFacts

(***************************************************************************)
(* When the oldest packet is of frame o and nothing of the frames after h  *)
(* was received, o can be assembled from its beginning, and the frames in  *)
(* between can no longer be delivered.                                     *)
(***************************************************************************)
LEMMA EntersFrame ==
    ASSUME Grounded, NEW d \in Flight, d.origin \in Nat, \A e \in Flight : e.origin >= d.origin,
           NEW h \in Int, h >= -1, Ahead(h), h < d.origin, NEW fr, Held(fr) = {}
    PROVE  /\ Accounted(d.origin, fr) /\ Ahead(d.origin)
           /\ \A f \in Nat : h < f /\ f < d.origin /\ f \notin aborted => ~Recoverable(f)
<1>1. /\ frame_number \in Nat /\ d.origin \in 0 .. frame_number
      /\ Rows \in Indices /\ Rows + 1 \in Indices /\ Rows + 1 # Rows
      /\ \A l \in Lines : l \in Indices
  BY Constants DEF Grounded, SourceInv, NetInv, Genuine, Indices, Lines
<1>2. \A k \in Indices : WasSent(d.origin, k) => Out(d.origin, k)
  BY <1>1 DEF Ahead
<1>3. Accounted(d.origin, fr)
  BY <1>1, <1>2 DEF Accounted
<1>4. Ahead(d.origin)
  <2> SUFFICES ASSUME NEW f \in 0 .. frame_number, f > d.origin, NEW k \in Indices, WasSent(f, k)
               PROVE  Out(f, k)
    BY DEF Ahead
  <2>1. f > h
    BY <1>1
  <2> QED BY <2>1 DEF Ahead
<1>5. ASSUME NEW f \in Nat, h < f, f < d.origin, f \notin aborted PROVE ~Recoverable(f)
  <2>1. Gone(f, Rows + 1)
    BY <1>1, <1>5, SkippedFrames
  <2> QED BY <2>1, Unrecoverable
<1> QED BY <1>3, <1>4, <1>5

(***************************************************************************)
(* The host assembles a frame h that is not newer than the packet, and the *)
(* frame numbers are equal when the frames are.                            *)
(***************************************************************************)
LEMMA CurrentFrame ==
    ASSUME Grounded, HostInv, HandedInv, status = "receiving",
           NEW d \in Flight, Genuine(d), d.origin \in Nat, \A e \in Flight : e.origin >= d.origin
    PROVE  \E h \in Nat :
             /\ h <= d.origin /\ Receiving(h, Current(d.pkt))
             /\ d.origin - h \in 0 .. HalfRange
             /\ OfAnotherFrame(d.pkt) <=> h # d.origin
<1>1. /\ frame_number \in Nat /\ FrameMod \in Nat \ {0} /\ Rows \in Nat
      /\ HalfRange \in Nat /\ HalfRange < FrameMod
      /\ d.pkt.frame = d.origin % FrameMod
  BY Constants, HalfRangeFacts DEF Grounded, SourceInv, Genuine
<1>2. ASSUME NEW h \in Nat, h <= d.origin, d.origin - h \in 0 .. HalfRange,
             Receiving(h, Current(d.pkt))
      PROVE  OfAnotherFrame(d.pkt) <=> h # d.origin
  <2>1. Current(d.pkt).frame_number = h % FrameMod
    BY <1>2 DEF Receiving, FrameAt
  <2>2. ASSUME d.origin % FrameMod = h % FrameMod PROVE h = d.origin
    <3>0. \A a, b, r, m \in Nat : a - b \in 0 .. r /\ r < m => \E n \in 0 .. m - 1 : a = b + n
      <4> SUFFICES ASSUME NEW a \in Nat, NEW b \in Nat, NEW r \in Nat, NEW m \in Nat,
                          a - b \in 0 .. r, r < m
                   PROVE  a - b \in 0 .. m - 1 /\ a = b + (a - b)
        OBVIOUS
      <4> QED OBVIOUS
    <3>1. PICK n \in 0 .. FrameMod - 1 : d.origin = h + n
      BY <1>1, <1>2, <3>0
    <3>2. h \in Int /\ (h + n) % FrameMod = h % FrameMod
      BY <2>2, <3>1
    <3>3. n = 0
      BY <1>1, <3>2, SameRemainder
    <3> QED BY <3>1, <3>3
  <2> QED BY <1>1, <2>1, <2>2 DEF OfAnotherFrame
<1>3. CASE firstPacket
  <2>1. frame = FreshFrame(0, Black) /\ report = NoReport /\ handed = -1 /\ Ahead(-1)
    BY <1>3 DEF HostInv
  <2>2. Current(d.pkt) = FreshFrame(d.origin % FrameMod, Black)
    BY <1>1, <1>3, <2>1 DEF Current, FreshFrame
  <2>3. Black \in Pixels
    BY DEF Black, Pixels
  <2>4. FrameAt(d.origin, Current(d.pkt)) /\ Held(Current(d.pkt)) = {}
    BY <2>2, <2>3, FreshFrames
  <2>5. -1 < d.origin /\ -1 \in Int /\ -1 >= -1
    OBVIOUS
  <2>6. /\ Accounted(d.origin, Current(d.pkt)) /\ Ahead(d.origin)
        /\ \A f \in Nat : -1 < f /\ f < d.origin /\ f \notin aborted => ~Recoverable(f)
    BY <2>1, <2>4, <2>5, EntersFrame
  <2>7. Settled(d.origin)
    <3>1. \A f \in Frames : f \in Nat /\ -1 < f
      BY Constants DEF Frames
    <3> QED BY <2>6, <3>1 DEF Settled
  <2>8. Receiving(d.origin, Current(d.pkt))
    <3>1. d.origin - (-1) \in 1 .. HalfRange
      BY <2>1, <2>5, GapBound
    <3> QED BY <2>1, <2>4, <2>6, <2>7, <3>1 DEF Receiving
  <2>9. d.origin - d.origin \in 0 .. HalfRange /\ d.origin <= d.origin
    BY <1>1
  <2> QED BY <1>2, <2>1, <2>8, <2>9
<1>4. CASE ~firstPacket
  <2>1. PICK h \in 0 .. frame_number : Receiving(h, frame)
    BY <1>4 DEF HostInv
  <2>2. Current(d.pkt) = frame
    BY <1>4 DEF Current
  <2>3. h \in Nat /\ h <= d.origin /\ Ahead(h)
    BY <1>1, <2>1 DEF Receiving, Accounted
  <2>4. d.origin - h \in 0 .. HalfRange
    <3>1. CASE h = d.origin
      BY <1>1, <2>3, <3>1
    <3>2. CASE h < d.origin
      <4>1. d.origin - h \in 1 .. HalfRange
        BY <2>3, <3>2, GapBound
      <4> QED BY <1>1, <4>1
    <3> QED BY <2>3, <3>1, <3>2
  <2> QED BY <1>2, <1>4, <2>1, <2>2, <2>3, <2>4
<1> QED BY <1>3, <1>4

-----------------------------------------------------------------------------
(* What the host keeps account of, over the receipt of a packet *)

\* A packet of the frame under assembly says nothing of later frames.
LEMMA TakenAhead ==
    ASSUME Grounded, Taken, NEW d, d = Head(net), NEW h \in Nat, d.origin <= h, Ahead(h)
    PROVE  Ahead(h)'
<1>1. frame_number' = frame_number /\ frame_number \in Nat /\ d.origin \in Nat
  <2>1. d.origin \in Nat
    BY TakenStep
  <2> QED BY <2>1 DEF Taken, Grounded, SourceInv
<1> SUFFICES ASSUME NEW f \in 0 .. frame_number', f > h, NEW k \in Indices, WasSent(f, k)'
             PROVE  Out(f, k)'
  BY DEF Ahead
<1>2. f \in Nat /\ d.origin # f
  BY <1>1
<1>3. WasSent(f, k)
  BY <1>2, TakenStep
<1>4. Out(f, k)
  BY <1>1, <1>3 DEF Ahead
<1> QED BY <1>2, <1>4, TakenStep

\* Of the packets, the one that is taken is lost to its receiver only.
LEMMA TakenOut ==
    ASSUME Grounded, Taken, NEW d, d = Head(net), NEW h \in Nat, NEW fr, NEW old,
           Accounted(h, old), Held(fr) \subseteq Lines,
           Held(old) \subseteq Held(fr), old.has_xor => fr.has_xor,
           d.origin = h /\ ~Failure(d) /\ Index(d) = Rows => fr.has_xor \/ RowsGone(h),
           d.origin = h /\ ~Failure(d) /\ Index(d) = Rows + 1 => RowsGone(h),
           ~FrameBits => \A l \in Lines : d.origin = h /\ ~Failure(d) /\ Index(d) = l => l \in Held(fr)
    PROVE  /\ ~FrameBits => \A l \in Lines : WasSent(h, l)' => l \in Held(fr) \/ Out(h, l)'
           /\ WasSent(h, Rows)' => fr.has_xor \/ Out(h, Rows)' \/ RowsGone(h)'
           /\ WasSent(h, Rows + 1)' => Out(h, Rows + 1)' \/ RowsGone(h)'
<1>1. /\ \A k \in Indices : WasSent(h, k)' => WasSent(h, k)
      /\ Genuine(d)
      /\ \A k \in Indices : Out(h, k) => Out(h, k)' \/ (d.origin = h /\ d.pkt.line = Code(h, k))
  BY TakenStep
<1>2. /\ Rows \in Indices /\ Rows + 1 \in Indices /\ \A l \in Lines : l \in Indices
  BY Constants DEF Indices, Lines
<1>3. ASSUME NEW k \in Indices, Out(h, k) PROVE Out(h, k)' \/ (d.origin = h /\ ~Failure(d) /\ Index(d) = k)
  <2> SUFFICES ASSUME d.origin = h, d.pkt.line = Code(h, k) PROVE ~Failure(d) /\ Index(d) = k
    BY <1>1, <1>3
  <2>0. ~Failure(d)
    BY Codes DEF Failure
  <2>1. Index(d) \in Indices /\ d.pkt.line = Code(h, Index(d))
    BY <1>1, <2>0 DEF Genuine
  <2> QED BY <2>0, <2>1, Codes
<1>4. RowsGone(h) => RowsGone(h)'
  BY DEF RowsGone, Gone, Taken
<1>5. ~FrameBits => \A l \in Lines : WasSent(h, l)' => l \in Held(fr) \/ Out(h, l)'
  BY <1>1, <1>2, <1>3 DEF Accounted
<1>6. WasSent(h, Rows)' => fr.has_xor \/ Out(h, Rows)' \/ RowsGone(h)'
  BY <1>1, <1>2, <1>3, <1>4 DEF Accounted
<1>7. WasSent(h, Rows + 1)' => Out(h, Rows + 1)' \/ RowsGone(h)'
  BY <1>1, <1>2, <1>3, <1>4 DEF Accounted
<1> QED BY <1>5, <1>6, <1>7

\* A row, the XOR row, or the row that is carried over.
LEMMA TakenAccounted ==
    ASSUME Grounded, Taken, NEW d, d = Head(net), d.origin \in Nat, NEW fr, NEW old,
           Accounted(d.origin, old), Held(fr) \subseteq Lines,
           Held(fr) = Held(old) \/ (~Failure(d) /\ Held(fr) = Held(old) \cup {Index(d)}),
           /\ ~FrameBits => \A l \in Lines : WasSent(d.origin, l)' => l \in Held(fr) \/ Out(d.origin, l)'
           /\ WasSent(d.origin, Rows)' => fr.has_xor \/ Out(d.origin, Rows)' \/ RowsGone(d.origin)'
           /\ WasSent(d.origin, Rows + 1)' => Out(d.origin, Rows + 1)' \/ RowsGone(d.origin)'
    PROVE  Accounted(d.origin, fr)'
<1> PICK h \in Nat : h = d.origin
  OBVIOUS
<1>1. /\ Genuine(d)
      /\ ~Failure(d) => <<d.origin, d.pkt.line>> \notin lost
      /\ \A e \in Flight' : e \in Flight /\ Before(d, e) /\ Genuine(e)
      /\ \A e \in Flight : e.origin \in Nat /\ e.origin >= d.origin
      /\ UNCHANGED <<frame_number, line_number, lost>>
  BY TakenStep DEF Taken
<1>2. \A e \in Flight' : e.origin >= h
  BY <1>1
<1>3. \A e \in Flight' : e.origin = h /\ ~Failure(e) => \A l \in Held(fr) : l < Index(e)
  <2> SUFFICES ASSUME NEW e \in Flight', e.origin = h, ~Failure(e), NEW l \in Held(fr)
               PROVE  l < Index(e)
    OBVIOUS
  <2>1. CASE l \in Held(old)
    BY <1>1, <2>1 DEF Accounted
  <2>2. CASE ~Failure(d) /\ l = Index(d)
    BY <1>1, <2>2 DEF Before
  <2> QED BY <2>1, <2>2
<1>4. \A l \in Held(fr) : ~Gone(h, l)' /\ (h = frame_number' => l < line_number')
  <2> SUFFICES ASSUME NEW l \in Held(fr)
               PROVE  ~Gone(h, l)' /\ (h = frame_number' => l < line_number')
    OBVIOUS
  <2>1. CASE l \in Held(old)
    BY <1>1, <2>1 DEF Accounted, Gone
  <2>2. CASE ~Failure(d) /\ l = Index(d)
    BY <1>1, <2>2 DEF Genuine, Gone
  <2> QED BY <2>1, <2>2
<1>5. Accounted(h, fr)'
  BY <1>2, <1>3, <1>4 DEF Accounted, Failure, Index
<1> QED BY <1>5

\* Taking a packet does not unsettle the frames before.
LEMMA TakenSettled ==
    ASSUME Taken, NEW h, Settled(h), delivered \subseteq delivered'
    PROVE  Settled(h)'
<1>1. \A f : Recoverable(f)' <=> Recoverable(f)
  BY DEF Recoverable, LostOf, Taken
<1> QED BY <1>1 DEF Settled, Taken

\* The parts of the invariant of a frame under assembly.
LEMMA Assembled ==
    ASSUME NEW h, NEW fr, frame' = fr, FrameAt(h, fr), Accounted(h, fr)', Ahead(h)', Settled(h)',
           h - handed' \in 1 .. HalfRange
    PROVE  Receiving(h, frame)'
<1>1. FrameAt(h, frame)'
  <2>1. FrameAt(h, frame')
    OBVIOUS
  <2> QED BY <2>1
<1>2. Accounted(h, frame)'
  BY DEF Accounted, Held
<1> QED BY <1>1, <1>2 DEF Receiving

\* The codes that the receiver tells apart.
LEMMA Decoded ==
    ASSUME NEW d, Genuine(d), d.origin \in Nat
    PROVE  /\ d.pkt.line = LINENO_XOR => ~Failure(d) /\ Index(d) = Rows
           /\ d.pkt.line = LINENO_EOF => ~Failure(d) /\ Index(d) = Rows + 1
           /\ IsRow(d.pkt) /\ MaskLine(d.pkt.line) < Rows =>
                ~Failure(d) /\ Index(d) = MaskLine(d.pkt.line) /\ Index(d) \in Lines
           /\ ~Failure(d) /\ Index(d) \in Lines => IsRow(d.pkt)
           /\ ~Special(d.pkt) /\ d.pkt.line < Rows =>
                ~Failure(d) /\ Index(d) \in Lines /\ Index(d) = d.pkt.line
           /\ ~FrameBits /\ ~Failure(d) /\ Index(d) \in Lines => d.pkt.line = Index(d)
<1>1. /\ Rows \in Nat /\ Rows >= 1 /\ Rows < LINENO_XOR /\ Rows <= 1008
      /\ MaskLine(Rows) = Rows
      /\ \A k \in Indices : (k \in Lines <=> k < Rows) /\ k \in Nat
  <2>1. Rows \in Nat /\ Rows >= 1 /\ Rows < LINENO_XOR /\ Rows <= 1008
    BY Constants, Reserved, SMT
  <2>2. Rows % 1024 = Rows
    BY <2>1, SMT
  <2> QED BY <2>1, <2>2 DEF MaskLine, Indices, Lines
<1>2. d.pkt.line = LINENO_XOR => ~Failure(d) /\ Index(d) = Rows
  BY NoFailureLine, Reserved DEF Failure, Index
<1>3. d.pkt.line = LINENO_EOF => ~Failure(d) /\ Index(d) = Rows + 1
  BY NoFailureLine DEF Failure, Index
<1>4. IsRow(d.pkt) => d.pkt.line # LINENO_XOR /\ d.pkt.line # LINENO_EOF /\ Index(d) = MaskLine(d.pkt.line)
  BY DEF IsRow, Index
<1>5. IsRow(d.pkt) /\ Failure(d) => d.pkt.line = Rows
  BY DEF IsRow, Special, Failure, FailureLines
<1>6. ~Failure(d) => /\ Index(d) \in Indices /\ d.pkt.line = Code(d.origin, Index(d))
                     /\ d.pkt.line \notin FailureLines
  BY Codes DEF Genuine
<1>7. ASSUME IsRow(d.pkt), MaskLine(d.pkt.line) < Rows
      PROVE  ~Failure(d) /\ Index(d) = MaskLine(d.pkt.line) /\ Index(d) \in Lines
  <2>1. ~Failure(d)
    BY <1>1, <1>5, <1>7
  <2>2. Index(d) \in Indices /\ Index(d) = MaskLine(d.pkt.line)
    BY <1>4, <1>6, <1>7, <2>1
  <2> QED BY <1>1, <1>7, <2>1, <2>2
<1>8. ASSUME ~Failure(d), Index(d) \in Lines PROVE IsRow(d.pkt)
  <2>1. Index(d) < Rows /\ Index(d) # Rows /\ Index(d) # Rows + 1 /\ d.pkt.line \notin FailureLines
    BY <1>1, <1>6, <1>8
  <2> QED BY <1>2, <1>3, <2>1 DEF IsRow, Special, FailureLines
<1>9. ASSUME ~Special(d.pkt), d.pkt.line < Rows
      PROVE  ~Failure(d) /\ Index(d) \in Lines /\ Index(d) = d.pkt.line
  <2>1. ~Failure(d)
    <3>1. d.pkt.line # Rows
      BY <1>1, <1>9
    <3> QED BY <1>9, <3>1 DEF Special, Failure, FailureLines
  <2>2. Index(d) \in Indices /\ d.pkt.line = Code(d.origin, Index(d))
    BY <1>6, <2>1
  <2>3. d.pkt.line < LINENO_XOR /\ LINENO_XOR < LINENO_EOF
    BY <1>1, <1>9, <2>2, Codes, Reserved, SMT
  <2>4. Index(d) < Rows
    BY <1>1, <2>2, <2>3, Codes, Reserved, SMT DEF Indices
  <2>5. Index(d) = MaskLine(d.pkt.line)
    BY <2>2, <2>4, Codes
  <2>6. d.pkt.line \in Nat
    <3>1. Index(d) \in Lines /\ d.pkt.line = LineField(d.origin, Index(d), FrameBits)
      BY <1>1, <2>2, <2>4 DEF Code
    <3> QED BY <3>1, Constants, RowCode
  <2>7. d.pkt.line % 1024 = d.pkt.line
    BY <1>1, <1>9, <2>6, SMT
  <2> QED BY <1>1, <2>1, <2>2, <2>4, <2>5, <2>7 DEF MaskLine
<1>10. ASSUME ~FrameBits, ~Failure(d), Index(d) \in Lines PROVE d.pkt.line = Index(d)
  BY <1>1, <1>6, <1>10, Codes
<1> QED BY <1>2, <1>3, <1>7, <1>8, <1>9, <1>10

-----------------------------------------------------------------------------
(* A packet of the frame under assembly *)

\* A row received is added to the frame under assembly.
LEMMA RowReceived ==
    ASSUME Grounded, Taken, NEW d, d = Head(net), NEW h \in Nat, h = d.origin,
           NEW old, Receiving(h, old), IsRow(d.pkt), MaskLine(d.pkt.line) < Rows,
           frame' = Kept(old, MaskLine(d.pkt.line), d.pkt.data),
           UNCHANGED <<report, handed, delivered>>
    PROVE  Receiving(h, frame)'
<1> DEFINE k == Index(d)
<1>1. Genuine(d) /\ d.origin \in Nat
  BY TakenStep
<1>2. ~Failure(d) /\ k \in Lines /\ k = MaskLine(d.pkt.line)
  BY <1>1, Decoded
<1>3. k \in Nat /\ k # Rows /\ k # Rows + 1 /\ d.pkt.data = Row(h, k) /\ d \in Flight
  <2>1. k \in Nat /\ k < Rows /\ k # Rows /\ k # Rows + 1
    BY <1>2, Constants DEF Lines
  <2> QED BY <1>1, <1>2, <2>1, TakenStep DEF Genuine, Payload
<1>4. /\ FrameAt(h, old) /\ Accounted(h, old) /\ Ahead(h) /\ Settled(h)
      /\ h - handed \in 1 .. HalfRange
  BY DEF Receiving
<1>5. \A l \in Held(old) : l < k
  BY <1>2, <1>3, <1>4 DEF Accounted
<1> HIDE DEF k
<1>6. PICK fr : fr = frame'
  OBVIOUS
<1>7. fr = Kept(old, k, Row(h, k))
  BY <1>2, <1>3, <1>6
<1>8. FrameAt(h, fr) /\ Held(fr) = Held(old) \cup {k}
  BY <1>2, <1>4, <1>5, <1>7, RowKept
<1>9. fr.frame_number = old.frame_number /\ fr.has_xor = old.has_xor
  <2>1. old \in FrameSet
    BY <1>4 DEF FrameAt
  <2> QED BY <1>7, <2>1 DEF Kept, NoteGap, FrameSet
<1>10. Held(fr) \subseteq Lines /\ Held(old) \subseteq Held(fr)
  BY <1>8 DEF Held
<1>11. /\ ~FrameBits => \A l \in Lines : WasSent(h, l)' => l \in Held(fr) \/ Out(h, l)'
       /\ WasSent(h, Rows)' => fr.has_xor \/ Out(h, Rows)' \/ RowsGone(h)'
       /\ WasSent(h, Rows + 1)' => Out(h, Rows + 1)' \/ RowsGone(h)'
  <2>1. \A l \in Lines : Index(d) = l => l \in Held(fr)
    BY <1>8 DEF k
  <2> QED BY <1>2, <1>3, <1>4, <1>9, <1>10, <2>1, TakenOut DEF k
<1>12. Accounted(h, fr)'
  <2>1. Accounted(d.origin, old) /\ Held(fr) = Held(old) \cup {Index(d)}
    BY <1>4, <1>8 DEF k
  <2>2. Accounted(d.origin, fr)'
    BY <1>1, <1>2, <1>10, <1>11, <2>1, TakenAccounted
  <2>3. PICK o : o = d.origin /\ Accounted(o, fr)'
    BY <2>2
  <2> QED BY <2>3
<1>13. Ahead(h)' /\ Settled(h)'
  BY <1>4, TakenAhead, TakenSettled
<1> QED BY <1>4, <1>6, <1>8, <1>9, <1>12, <1>13, Assembled

\* So is the XOR row.
LEMMA XorReceived ==
    ASSUME Grounded, Taken, NEW d, d = Head(net), NEW h \in Nat, h = d.origin,
           NEW old, Receiving(h, old), d.pkt.line = LINENO_XOR,
           frame' = [old EXCEPT !.xorline = d.pkt.data, !.has_xor = TRUE],
           UNCHANGED <<report, handed, delivered>>
    PROVE  Receiving(h, frame)'
<1>1. Genuine(d) /\ d.origin \in Nat
  BY TakenStep
<1>2. ~Failure(d) /\ Index(d) = Rows
  BY <1>1, Decoded
<1>3. SendXor /\ d.pkt.data = AllRows(h) /\ Rows \in Nat
  BY <1>1, <1>2, Constants DEF Genuine, Payload
<1>4. /\ FrameAt(h, old) /\ Accounted(h, old) /\ Ahead(h) /\ Settled(h)
      /\ h - handed \in 1 .. HalfRange
  BY DEF Receiving
<1>5. PICK fr : fr = frame'
  OBVIOUS
<1>6. fr = [old EXCEPT !.xorline = AllRows(h), !.has_xor = TRUE]
  BY <1>3, <1>5
<1>7. FrameAt(h, fr) /\ Held(fr) = Held(old)
  BY <1>3, <1>4, <1>6, XorKept
<1>8. fr.frame_number = old.frame_number /\ fr.has_xor
  <2>1. old \in FrameSet
    BY <1>4 DEF FrameAt
  <2> QED BY <1>6, <2>1 DEF FrameSet
<1>9. Held(fr) \subseteq Lines /\ Held(old) \subseteq Held(fr)
  BY <1>7 DEF Held
<1>10. /\ ~FrameBits => \A l \in Lines : WasSent(h, l)' => l \in Held(fr) \/ Out(h, l)'
       /\ WasSent(h, Rows)' => fr.has_xor \/ Out(h, Rows)' \/ RowsGone(h)'
       /\ WasSent(h, Rows + 1)' => Out(h, Rows + 1)' \/ RowsGone(h)'
  <2>1. Index(d) # Rows + 1 /\ \A l \in Lines : Index(d) # l
    BY <1>2, <1>3 DEF Lines
  <2> QED BY <1>2, <1>4, <1>8, <1>9, <2>1, TakenOut
<1>11. Accounted(h, fr)'
  <2>1. Accounted(d.origin, old)
    BY <1>4
  <2>2. Accounted(d.origin, fr)'
    BY <1>1, <1>7, <1>9, <1>10, <2>1, TakenAccounted
  <2>3. PICK o : o = d.origin /\ Accounted(o, fr)'
    BY <2>2
  <2> QED BY <2>3
<1>12. Ahead(h)' /\ Settled(h)'
  BY <1>4, TakenAhead, TakenSettled
<1> QED BY <1>4, <1>5, <1>7, <1>8, <1>11, <1>12, Assembled

(***************************************************************************)
(* A packet of a later frame than h: that frame is assembled from now on,  *)
(* and with the row the packet brings when it is one.  No other row of it  *)
(* can be given when its first packet to arrive is no row.                 *)
(***************************************************************************)
LEMMA NextReceived ==
    ASSUME Grounded, Taken, NEW d, d = Head(net), NEW h \in Nat, NEW o \in Nat, o = d.origin,
           o - h \in 1 .. HalfRange, NEW old, Receiving(h, old), ~Special(d.pkt),
           frame' = NewFrame(d.pkt, FALSE, old.xorline),
           handed' = h, UNCHANGED delivered
    PROVE  Receiving(o, frame)'
<1>1. /\ Genuine(d) /\ d \in Flight /\ \A e \in Flight : e.origin >= o
      /\ d.pkt.frame = o % FrameMod /\ o \in 0 .. frame_number
  <2>1. Genuine(d) /\ d \in Flight /\ \A e \in Flight : e.origin >= o
    BY TakenStep
  <2> QED BY <2>1 DEF Genuine
<1>2. /\ h < o /\ frame_number \in Nat /\ Rows \in Nat /\ Rows >= 1 /\ h \in Int /\ h >= -1
      /\ o \in Int /\ HalfRange \in Nat /\ HalfRange < FrameMod /\ FrameMod \in Nat \ {0}
      /\ Rows + 1 \in Indices
      /\ \A l \in Lines : l \in Indices /\ l < Rows
  BY Constants, HalfRangeFacts DEF Grounded, SourceInv, Indices, Lines
<1>3. /\ FrameAt(h, old) /\ Accounted(h, old) /\ Ahead(h) /\ Settled(h)
  BY DEF Receiving
<1>4. old.xorline \in Pixels
  BY <1>3 DEF FrameAt, FrameSet
<1>5. PICK none : none = FreshFrame(o % FrameMod, old.xorline)
  OBVIOUS
<1>6. FrameAt(o, none) /\ Held(none) = {}
  BY <1>4, <1>5, FreshFrames
<1>7. /\ Accounted(o, none) /\ Ahead(o)
      /\ \A f \in Nat : h < f /\ f < o /\ f \notin aborted => ~Recoverable(f)
  BY <1>1, <1>2, <1>3, <1>6, EntersFrame
\* The first row to come is the carried one, if the packet is a row.
<1>8. PICK fr : fr = frame'
  OBVIOUS
<1>9. /\ FrameAt(o, fr)
      /\ \/ Held(fr) = {} /\ ~(d.pkt.line < Rows)
         \/ ~Failure(d) /\ Held(fr) = {Index(d)}
  <2>1. CASE d.pkt.line < Rows
    <3>1. ~Failure(d) /\ Index(d) \in Lines /\ Index(d) = d.pkt.line
      BY <1>1, <2>1, Decoded
    <3>2. PICK k \in Lines : k = Index(d)
      BY <3>1
    <3>3. d.pkt.data = Row(o, k)
      BY <1>1, <1>2, <3>1, <3>2 DEF Genuine, Payload
    <3>4. fr = Carried(o % FrameMod, old.xorline, k, Row(o, k))
      <4>1. fr = Carried(d.pkt.frame, old.xorline, d.pkt.line, d.pkt.data)
        BY <1>8, <2>1 DEF NewFrame, Carries, NumberAfter, Carried
      <4> QED BY <1>1, <3>1, <3>2, <3>3, <4>1
    <3>5. FrameAt(o, fr) /\ Held(fr) = {k}
      BY <1>4, <3>4, CarriedRow
    <3> QED BY <3>1, <3>2, <3>5
  <2>2. CASE ~(d.pkt.line < Rows)
    <3>1. fr = none
      BY <1>1, <1>5, <1>8, <2>2 DEF NewFrame, Carries, NumberAfter
    <3> QED BY <1>6, <2>2, <3>1
  <2> QED BY <2>1, <2>2
\* When the packet comes behind the rows of its frame these are all lost.
<1>10. ASSUME ~Failure(d), Index(d) >= Rows PROVE RowsGone(o)
  <2> SUFFICES ASSUME NEW l \in Lines PROVE Gone(o, l)
    BY DEF RowsGone
  <2>1. o # frame_number /\ o \notin aborted
    BY <1>1, <1>2, <1>10 DEF Genuine, Grounded, SourceInv, Indices
  <2>2. WasSent(o, l)
    BY <1>1, <1>2, <2>1 DEF WasSent
  <2>3. Out(o, l)
    BY <1>1, <1>2, <1>3, <2>2 DEF Ahead
  <2>4. ASSUME NEW e \in Flight, e.origin = o, e.pkt.line = Code(o, l) PROVE FALSE
    <3>1. ~Failure(e) /\ Genuine(e)
      BY <1>2, <2>4, Codes DEF Failure, Grounded, NetInv
    <3>2. Index(e) = l
      BY <1>2, <2>4, <3>1, Codes DEF Genuine
    <3>3. Index(d) \in Int /\ l \in Int
      BY <1>1, <1>2, <1>10 DEF Genuine, Indices, Lines
    <3>4. e # d
      BY <1>2, <1>10, <3>2, <3>3
    <3>5. Before(d, e)
      BY <3>4, TakenStep
    <3> QED BY <1>2, <1>10, <2>4, <3>1, <3>2, <3>3, <3>5 DEF Before
  <2> QED BY <2>3, <2>4 DEF Out, Flying
<1>11. /\ ~FrameBits => \A l \in Lines : WasSent(o, l)' => l \in Held(fr) \/ Out(o, l)'
       /\ WasSent(o, Rows)' => fr.has_xor \/ Out(o, Rows)' \/ RowsGone(o)'
       /\ WasSent(o, Rows + 1)' => Out(o, Rows + 1)' \/ RowsGone(o)'
  <2>1. ~Failure(d) /\ (Index(d) = Rows \/ Index(d) = Rows + 1) => RowsGone(o)
    BY <1>2, <1>10
  <2>2. ~FrameBits => \A l \in Lines : ~Failure(d) /\ Index(d) = l => l \in Held(fr)
    <3> SUFFICES ASSUME ~FrameBits, ~Failure(d), Index(d) \in Lines PROVE Index(d) \in Held(fr)
      OBVIOUS
    <3>1. d.pkt.line = Index(d)
      BY <1>1, Decoded
    <3> QED BY <1>2, <1>9, <3>1
  <2>3. Held(fr) \subseteq Lines /\ ~none.has_xor
    BY <1>5 DEF Held, FreshFrame
  <2>4. Held(none) \subseteq Held(fr)
    BY <1>6
  <2> QED BY <1>7, <2>1, <2>2, <2>3, <2>4, TakenOut
<1>12. Accounted(o, fr)'
  <2>1. Held(fr) \subseteq Lines
    BY DEF Held
  <2>2. Held(fr) = Held(none) \/ (~Failure(d) /\ Held(fr) = Held(none) \cup {Index(d)})
    BY <1>6, <1>9
  <2>3. Accounted(d.origin, none)
    BY <1>7
  <2>4. Accounted(d.origin, fr)'
    BY <1>11, <2>1, <2>2, <2>3, TakenAccounted
  <2>5. PICK c : c = d.origin /\ Accounted(c, fr)'
    BY <2>4
  <2> QED BY <2>5
<1>13. Settled(o)
  <2> SUFFICES ASSUME ~FrameBits, NEW f \in Frames, f < o, f \notin aborted, Recoverable(f)
               PROVE  f \in delivered
    BY DEF Settled
  <2>1. f \in Nat
    BY DEF Frames
  <2>2. CASE f < h
    BY <1>3, <2>2 DEF Settled
  <2>3. CASE f = h
    <3>1. WasSent(h, Rows + 1)
      BY <1>1, <1>2, <2>3 DEF WasSent
    <3>2. ~Flying(h, Rows + 1)
      BY <1>1, <1>2 DEF Flying
    <3>3. Gone(h, Rows + 1) \/ RowsGone(h)
      BY <1>3, <3>1, <3>2 DEF Accounted, Out
    <3> QED BY <2>3, <3>3, Unrecoverable
  <2>4. CASE h < f
    BY <1>7, <2>1, <2>4
  <2> QED BY <1>2, <2>1, <2>2, <2>3, <2>4
<1>14. Ahead(o)' /\ Settled(o)'
  BY <1>2, <1>7, <1>13, TakenAhead, TakenSettled
<1> QED BY <1>8, <1>9, <1>12, <1>14, Assembled

-----------------------------------------------------------------------------
(* The end of the frame under assembly *)

(***************************************************************************)
(* At its EOF a frame is finished, nothing of it is in flight, and the     *)
(* rows that are not held are those the network lost (of a camera that     *)
(* sends no frame bits, as the carry-over drops rows that have them).      *)
(***************************************************************************)
LEMMA AtEof ==
    ASSUME Grounded, Taken, NEW d, d = Head(net), NEW h \in Nat, h = d.origin,
           NEW old, FrameAt(h, old), Accounted(h, old), d.pkt.line = LINENO_EOF
    PROVE  /\ h < frame_number /\ h \notin aborted
           /\ \A e \in Flight' : e.origin > h
           /\ ~FrameBits => LostRows(h) = Lines \ Held(old)
           /\ old.has_xor => ~FrameBits
           /\ SendXor => old.has_xor \/ Gone(h, Rows) \/ RowsGone(h)
<1>1. /\ Genuine(d) /\ d \in Flight
      /\ \A e \in Flight' : Before(d, e)
      /\ \A e \in Flight : e.origin \in Nat /\ e.origin >= h /\ (e = d \/ e \in Flight')
  BY TakenStep
<1>2. /\ frame_number \in Nat /\ Rows \in Nat /\ line_number <= Rows - 1 /\ line_number \in Int
      /\ Rows \in Indices /\ Rows # Rows + 1
      /\ \A l \in Lines : l \in Indices /\ l # Rows + 1 /\ l < Rows
  BY Constants DEF Grounded, SourceInv, Indices, Lines
<1>3. ~Failure(d) /\ Index(d) = Rows + 1
  BY <1>1, Decoded
<1>4. h < frame_number /\ h \notin aborted
  <2>1. h \in 0 .. frame_number /\ (h = frame_number => Rows + 1 < line_number) /\ h \notin aborted
    BY <1>1, <1>2, <1>3 DEF Genuine
  <2> QED BY <1>2, <2>1
<1>5. \A e \in Flight' : e.origin > h
  BY <1>1 DEF Before
<1>6. ASSUME NEW k \in Indices, k # Rows + 1 PROVE ~Flying(h, k)
  <2> SUFFICES ASSUME NEW e \in Flight, e.origin = h, e.pkt.line = Code(h, k) PROVE FALSE
    BY DEF Flying
  <2>1. e = d
    BY <1>1, <1>5
  <2>2. Code(h, k) = Code(h, Index(d)) /\ Index(d) \in Indices
    BY <1>1, <1>3, <2>1 DEF Genuine
  <2> QED BY <1>3, <1>6, <2>2, Codes
<1>7. ~FrameBits => LostRows(h) = Lines \ Held(old)
  <2> SUFFICES ASSUME ~FrameBits, NEW l \in Lines PROVE Gone(h, l) <=> l \notin Held(old)
    <3>1. \A l \in Lines : LineField(h, l, FrameBits) = Code(h, l)
      BY <1>2 DEF Code
    <3> QED BY <3>1 DEF LostRows, Gone
  <2>1. WasSent(h, l)
    BY <1>2, <1>4 DEF WasSent
  <2>2. l \in Held(old) \/ Gone(h, l)
    BY <1>2, <1>6, <2>1 DEF Accounted, Out
  <2>3. l \in Held(old) => ~Gone(h, l)
    BY DEF Accounted
  <2> QED BY <2>2, <2>3
<1>8. old.has_xor => ~FrameBits
  BY Constants DEF FrameAt
<1>9. SendXor => old.has_xor \/ Gone(h, Rows) \/ RowsGone(h)
  <2> SUFFICES ASSUME SendXor PROVE old.has_xor \/ Gone(h, Rows) \/ RowsGone(h)
    OBVIOUS
  <2>1. WasSent(h, Rows)
    BY <1>2, <1>4 DEF WasSent
  <2> QED BY <1>2, <1>6, <2>1 DEF Accounted, Out
<1> QED BY <1>4, <1>5, <1>7, <1>8, <1>9

\* What ReceiveEof gives to the handler.
Repairable(fr) == RowsMissing(fr) = 1 /\ fr.has_xor
Short(fr) == RowsMissing(fr) # 0 /\ ~Repairable(fr)
Finished(fr) == Report(fr, TRUE, Short(fr), Repairable(fr),
                       IF Repairable(fr) THEN Repair(fr) ELSE fr.frame_buf)

\* The fields of the report of a finished frame.
LEMMA FinishedFields ==
    ASSUME NEW fr
    PROVE  LET r == Finished(fr) IN
           /\ r.frame_number = fr.frame_number /\ r.eof = TRUE
           /\ Complete(r) <=> ~Short(fr)
           /\ r.shortFrame <=> Short(fr)
           /\ r.repaired <=> Repairable(fr)
           /\ Short(fr) => r.missingLines = Rows - fr.lineCount
           /\ r.lastMissingLine = fr.lastMissingLine
           /\ Repairable(fr) => r.frame_buf = Repair(fr)
           /\ ~Repairable(fr) => r.frame_buf = fr.frame_buf
           /\ r # NoReport
  BY DEF Finished, Report, Complete, MissingLines, NoReport

(***************************************************************************)
(* A frame that is handed over as complete is the image, unless it was     *)
(* repaired and its first or last row was lost.                            *)
(***************************************************************************)
LEMMA FinishedImage ==
    ASSUME NEW h \in Nat, NEW fr, FrameAt(h, fr), ~FrameBits => LostRows(h) = Lines \ Held(fr),
           fr.has_xor => ~FrameBits, ~Short(fr)
    PROVE  \/ Finished(fr).frame_buf = Image(h)
           \/ Repairable(fr) /\ LostRows(h) \cap {0, Rows - 1} # {}
<1>1. Rows \in Nat /\ fr.lineCount \in 0 .. Rows
  BY Constants, MissingRows
<1>2. CASE Repairable(fr)
  <2>1. PICK m \in Lines : Lines \ Held(fr) = {m}
    BY <1>2, MissingRows DEF Repairable, RowsMissing
  <2>2. LostRows(h) = {m} /\ fr.has_xor
    BY <1>2, <2>1 DEF Repairable
  <2>3. m = 0 \/ m = Rows - 1 \/ m \in 1 .. Rows - 2
    BY <1>1 DEF Lines
  <2>4. CASE m \in 1 .. Rows - 2
    <3>1. Repair(fr) = Image(h)
      BY <2>1, <2>2, <2>4, RepairedImage
    <3> QED BY <1>2, <3>1, FinishedFields
  <2> QED BY <1>2, <2>2, <2>3, <2>4
<1>3. CASE ~Repairable(fr)
  <2>1. fr.lineCount = Rows
    BY <1>1, <1>3 DEF Short, RowsMissing
  <2>2. Held(fr) = Lines
    BY <2>1, HeldRows DEF FrameAt
  <2>3. fr.frame_buf = Image(h)
    BY <2>2, WholeImage
  <2> QED BY <1>3, <2>3, FinishedFields
<1> QED BY <1>2, <1>3

(***************************************************************************)
(* A recoverable frame is handed over as the image.                        *)
(***************************************************************************)
LEMMA FinishedRecovered ==
    ASSUME NEW h \in Nat, NEW fr, FrameAt(h, fr), ~FrameBits, LostRows(h) = Lines \ Held(fr),
           SendXor => fr.has_xor \/ Gone(h, Rows) \/ RowsGone(h), Recoverable(h)
    PROVE  ~Short(fr) /\ Finished(fr).frame_buf = Image(h)
<1>1. /\ Rows \in Nat /\ Rows >= 1 /\ 0 \in Lines /\ 0 # Rows
      /\ 0 \in Indices /\ Rows \in Indices
      /\ \A l \in Lines : l \in Indices /\ l # Rows /\ l < Rows
      /\ \A l \in 1 .. Rows - 2 : l \in Lines /\ l \in Indices /\ l # 0 /\ l # Rows - 1
  BY Constants DEF Lines, Indices
<1>2. \A l \in Lines : l \in LostRows(h) <=> <<h, Code(h, l)>> \in LostOf(h)
  BY <1>1 DEF LostRows, LostOf, Code
<1>3. fr.lineCount \in 0 .. Rows /\ RowsMissing(fr) = Rows - fr.lineCount
  BY MissingRows DEF RowsMissing
<1>4. CASE LostOf(h) \subseteq {<<h, LINENO_XOR>>}
  <2>1. \A l \in Lines : Code(h, l) # LINENO_XOR
    <3>1. Code(h, Rows) = LINENO_XOR
      BY <1>1, Codes
    <3> QED BY <1>1, <3>1, Codes
  <2>2. LostRows(h) = {}
    BY <1>2, <1>4, <2>1 DEF LostRows
  <2>3. Held(fr) = Lines
    BY <2>2, HeldRows
  <2>4. fr.lineCount = Rows
    BY <2>3, HeldRows DEF FrameAt
  <2>5. ~Repairable(fr) /\ ~Short(fr)
    BY <1>1, <1>3, <2>4 DEF Repairable, Short
  <2>6. fr.frame_buf = Image(h)
    BY <2>3, WholeImage
  <2> QED BY <2>5, <2>6, FinishedFields
<1>5. CASE SendXor /\ \E l \in 1 .. Rows - 2 : LostOf(h) = {<<h, LineField(h, l, FrameBits)>>}
  <2>1. PICK m \in 1 .. Rows - 2 : LostOf(h) = {<<h, LineField(h, m, FrameBits)>>}
    BY <1>5
  <2>2. m \in Lines /\ LostOf(h) = {<<h, Code(h, m)>>}
    BY <1>1, <2>1 DEF Code
  <2>3. \A l \in Indices : <<h, Code(h, l)>> \in LostOf(h) <=> l = m
    BY <1>1, <2>2, Codes
  <2>4. Lines \ Held(fr) = {m}
    <3>1. \A l \in Lines : l \in LostRows(h) <=> l = m
      BY <1>1, <1>2, <2>3
    <3>2. LostRows(h) \subseteq Lines
      BY DEF LostRows
    <3> QED BY <2>2, <3>1, <3>2
  <2>5. fr.has_xor
    <3>1. ~Gone(h, Rows)
      BY <1>1, <2>2, <2>3 DEF Gone, LostOf
    <3>2. ~RowsGone(h)
      <4>1. ~Gone(h, 0)
        BY <1>1, <2>3 DEF Gone, LostOf
      <4> QED BY <1>1, <4>1 DEF RowsGone
    <3> QED BY <1>5, <3>1, <3>2
  <2>6. Repairable(fr)
    BY <1>3, <2>2, <2>4, <2>5, MissingRows DEF Repairable
  <2>7. Repair(fr) = Image(h)
    BY <2>4, <2>5, RepairedImage
  <2> QED BY <2>6, <2>7, FinishedFields DEF Short
<1> QED BY <1>4, <1>5 DEF Recoverable

\* The report at an EOF describes the frame that ends.
LEMMA EofReported ==
    ASSUME Grounded, Taken, NEW d, d = Head(net), NEW h \in Nat, h = d.origin,
           NEW old, FrameAt(h, old), Accounted(h, old), d.pkt.line = LINENO_EOF,
           report' = Finished(old)
    PROVE  ReportOf(h)'
<1>1. /\ h < frame_number /\ \A e \in Flight' : e.origin > h
      /\ ~FrameBits => LostRows(h) = Lines \ Held(old)
      /\ old.has_xor => ~FrameBits
  BY AtEof
<1>2. PICK r : r = report'
  OBVIOUS
<1>3. /\ r.frame_number = old.frame_number
      /\ Complete(r) <=> ~Short(old)
      /\ r.shortFrame <=> Short(old)
      /\ r.repaired <=> Repairable(old)
      /\ Short(old) => r.missingLines = Rows - old.lineCount
      /\ r.lastMissingLine = old.lastMissingLine
      /\ Repairable(old) => r.frame_buf = Repair(old)
      /\ ~Repairable(old) => r.frame_buf = old.frame_buf
      /\ r.frame_buf = Finished(old).frame_buf
  BY <1>2, FinishedFields
<1>4. LostRows(h)' = LostRows(h)
  BY DEF LostRows, Taken
<1>5. h < frame_number' /\ h % FrameMod = r.frame_number
  BY <1>1, <1>3 DEF FrameAt, Taken
<1>9. \A l \in Lines : r.frame_buf[l] \subseteq AllRows(h)
  BY <1>3, OneFrame DEF Repairable
<1>6. \A l \in Lines : r.frame_buf[l] \in {Black, Row(h, l)} \/ (r.repaired /\ l = r.lastMissingLine)
  <2> SUFFICES ASSUME NEW l \in Lines, ~(r.repaired /\ l = r.lastMissingLine)
               PROVE  r.frame_buf[l] \in {Black, Row(h, l)}
    OBVIOUS
  <2>1. old.frame_buf[l] \in {Black, Row(h, l)}
    BY DEF FrameAt
  <2>2. r.frame_buf[l] = old.frame_buf[l]
    BY <1>3, RepairElsewhere
  <2> QED BY <2>1, <2>2
<1>7. Complete(r) => r.frame_buf = Image(h) \/ (r.repaired /\ LostRows(h) \cap {0, Rows - 1} # {})
  BY <1>1, <1>3, FinishedImage
<1>8. (~FrameBits /\ r.eof /\ r.shortFrame) => r.missingLines = Cardinality(LostRows(h))
  BY <1>1, <1>3, MissingRows
<1> QED BY <1>1, <1>2, <1>4, <1>5, <1>6, <1>7, <1>8, <1>9 DEF ReportOf, Complete

\* After an EOF the next frame is under assembly, with nothing held.
LEMMA EofReceived ==
    ASSUME Grounded, Taken, NEW d, d = Head(net), NEW h \in Nat, h = d.origin,
           NEW old, Receiving(h, old), d.pkt.line = LINENO_EOF,
           report' = Finished(old),
           handed' = h,
           delivered' = IF Complete(report') /\ report'.frame_buf = Image(h)
                        THEN delivered \cup {h} ELSE delivered,
           frame' = NewFrame(d.pkt, TRUE, old.xorline)
    PROVE  h + 1 \in 0 .. frame_number /\ Receiving(h + 1, frame)'
<1>1. /\ FrameAt(h, old) /\ Accounted(h, old) /\ Ahead(h) /\ Settled(h)
  BY DEF Receiving
<1>2. /\ h < frame_number /\ \A e \in Flight' : e.origin > h
      /\ ~FrameBits => LostRows(h) = Lines \ Held(old)
      /\ SendXor => old.has_xor \/ Gone(h, Rows) \/ RowsGone(h)
  BY <1>1, AtEof
<1>3. /\ frame_number \in Nat /\ FrameMod \in Nat \ {0} /\ FrameMod >= 2
      /\ HalfRange \in Nat /\ HalfRange >= 1
      /\ Rows \in Indices /\ Rows + 1 \in Indices /\ \A l \in Lines : l \in Indices
      /\ UNCHANGED <<frame_number, line_number, aborted, lost>>
  BY Constants, HalfRangeFacts DEF Grounded, SourceInv, Indices, Lines, Taken
<1>4. PICK g \in Nat : g = h + 1
  OBVIOUS
<1>5. g \in 0 .. frame_number /\ h < g /\ d.origin <= g
  BY <1>2, <1>3, <1>4
<1>6. PICK fr : fr = frame'
  OBVIOUS
<1>7. fr = FreshFrame(g % FrameMod, old.xorline)
  <2>1. d.pkt.frame = h % FrameMod
    BY TakenStep DEF Genuine
  <2>2. ((h % FrameMod) + 1) % FrameMod = g % FrameMod
    BY <1>3, <1>4, NextRemainder
  <2>3. NumberAfter(d.pkt, TRUE) = g % FrameMod
    BY <2>1, <2>2 DEF NumberAfter
  <2> QED BY <1>6, <2>3 DEF NewFrame, Carries
<1>8. FrameAt(g, fr) /\ Held(fr) = {}
  <2>1. old.xorline \in Pixels
    BY <1>1 DEF FrameAt, FrameSet
  <2> QED BY <1>7, <2>1, FreshFrames
<1>9. Ahead(g)'
  <2>1. Ahead(g)
    <3> SUFFICES ASSUME NEW f \in 0 .. frame_number, f > g, NEW k \in Indices, WasSent(f, k)
                 PROVE  Out(f, k)
      BY DEF Ahead
    <3>1. f > h
      BY <1>3, <1>4
    <3> QED BY <1>1, <3>1 DEF Ahead
  <2> QED BY <1>5, <2>1, TakenAhead
<1>10. Accounted(g, fr)'
  <2>1. \A e \in Flight' : e.origin >= g
    <3>1. \A e \in Flight' : e.origin \in Nat
      BY TakenStep
    <3> QED BY <1>2, <1>4, <3>1
  <2>2. ASSUME NEW k \in Indices, WasSent(g, k)' PROVE Out(g, k)'
    <3>1. WasSent(g, k)
      BY <2>2, TakenStep
    <3>2. Out(g, k)
      BY <1>1, <1>5, <3>1 DEF Ahead
    <3>3. d.origin # g
      BY <1>4
    <3> QED BY <3>2, <3>3, TakenStep
  <2> QED BY <1>3, <1>8, <2>1, <2>2 DEF Accounted
<1>11. Settled(g)'
  <2> SUFFICES ASSUME ~FrameBits, NEW f \in Frames, f < g, f \notin aborted, Recoverable(f)'
               PROVE  f \in delivered'
    BY <1>3 DEF Settled
  <2>1. Recoverable(f) /\ f \in Nat
    BY <1>3 DEF Recoverable, LostOf, Frames
  <2>2. delivered \subseteq delivered'
    OBVIOUS
  <2>3. CASE f < h
    BY <1>1, <2>1, <2>2, <2>3 DEF Settled
  <2>4. CASE f = h
    <3>1. ~Short(old) /\ Finished(old).frame_buf = Image(h)
      BY <1>1, <1>2, <2>1, <2>4, FinishedRecovered
    <3>2. Complete(report') /\ report'.frame_buf = Image(h)
      BY <3>1, FinishedFields
    <3> QED BY <2>4, <3>2
  <2> QED BY <1>4, <2>1, <2>3, <2>4
<1>12. g - handed' \in 1 .. HalfRange
  BY <1>3, <1>4
<1>13. Receiving(g, frame)'
  BY <1>6, <1>8, <1>9, <1>10, <1>11, <1>12, Assembled
<1>14. \A n : n = g => Receiving(n, frame)'
  BY <1>13
<1> QED BY <1>4, <1>5, <1>14

-----------------------------------------------------------------------------
(* Delivery *)

FrameTyped(fr) ==
    /\ fr.lineCount \in 0 .. Rows + 1
    /\ fr.lastMissingLine \in -1 .. Rows - 2
    /\ fr.missingLines \in 0 .. Rows - 1
    /\ fr.frame_number \in 0 .. FrameMod - 1

\* A frame under assembly is well typed.
LEMMA TypedFrame ==
    ASSUME NEW h, NEW fr, FrameAt(h, fr)
    PROVE  FrameTyped(fr)
<1>1. fr.lineCount \in 0 .. Rows /\ Rows \in Nat
  BY MissingRows, Constants
<1>2. GapsNoted(fr) /\ fr \in FrameSet
  BY DEF FrameAt
<1> QED BY <1>1, <1>2 DEF FrameTyped, GapsNoted, FrameSet

\* The type invariant follows from its parts.
LEMMA TypeStep ==
    ASSUME SourceInv', NetInv', HandedInv', FrameTyped(frame)',
           status' \in {"receiving", "done"},
           return_value' \in {-1, 0, 1, LINENO_ERR, LINENO_OVF}
    PROVE  TypeOK'
<1>1. MaxFrame \in Nat
  BY Constants
<1>2. frame_number' \in 0 .. MaxFrame + 1 /\ line_number' \in -1 .. Rows - 1
      /\ aborted' \subseteq 0 .. frame_number' - 1 /\ delivered' \subseteq 0 .. frame_number' - 1
      /\ Len(net') <= NetCapacity
  BY DEF SourceInv, NetInv, HandedInv
<1>5. exposure' \in -1 .. MaxFrame
  <2>1. /\ inframe' => frame_number' <= MaxFrame
        /\ exposure' = IF inframe' THEN frame_number' ELSE frame_number' - 1
    BY DEF SourceInv
  <2>2. CASE inframe'
    BY <1>1, <1>2, <2>1, <2>2
  <2>3. CASE ~inframe'
    <3>1. exposure' = frame_number' - 1
      BY <2>1, <2>3
    <3>2. \A a \in 0 .. MaxFrame + 1 : a - 1 \in -1 .. MaxFrame
      BY <1>1
    <3> QED BY <1>2, <3>1, <3>2
  <2> QED BY <2>2, <2>3
<1>3. 0 .. frame_number' - 1 \subseteq Frames
  <2>1. \A a \in 0 .. MaxFrame + 1 : 0 .. a - 1 \subseteq 0 .. MaxFrame
    BY <1>1
  <2> QED BY <1>2, <2>1 DEF Frames
<1>4. FrameTyped(frame')
  OBVIOUS
<1> QED BY <1>2, <1>3, <1>4, <1>5 DEF TypeOK, FrameTyped, Frames

\* A report stays one of its frame while packets are taken.
LEMMA ReportStays ==
    ASSUME Grounded, Taken, ReportInv, UNCHANGED <<report, handed>>
    PROVE  ReportInv'
<1> SUFFICES ASSUME report # NoReport PROVE \A f \in Frames : f = handed => ReportOf(f)'
  BY DEF ReportInv, Frames
<1> SUFFICES ASSUME NEW f \in Frames, f = handed PROVE ReportOf(f)'
  OBVIOUS
<1>1. ReportOf(f)
  BY DEF ReportInv
<1>2. LostRows(f)' = LostRows(f)
  BY DEF LostRows, Taken
<1>3. Flight' \subseteq Flight
  <2>1. PICK d : d = Head(net)
    OBVIOUS
  <2> QED BY <2>1, TakenStep
<1>4. ReportOf(f)'
  BY <1>1, <1>2, <1>3 DEF ReportOf, Complete, Taken
<1> QED BY <1>4

\* What a delivery does to the host's side.
Progress ==
    /\ HostInv' /\ HandedInv' /\ ReportInv' /\ FrameTyped(frame)'
    /\ status' \in {"receiving", "done"}
    /\ return_value' \in {-1, 0, 1, LINENO_ERR, LINENO_OVF}
    /\ \/ UNCHANGED <<handed, report>>
       \/ report' # NoReport /\ handed' - handed \in 1 .. HalfRange

\* The delivery of packet d, which is of frame o, while frame h is assembled from old.
Delivery(d, h, old) ==
    /\ TypeOK /\ Grounded /\ HandedInv /\ ReportInv /\ Taken
    /\ status = "receiving"
    /\ d = Head(net) /\ h \in Nat /\ h <= d.origin /\ d.origin - h \in 0 .. HalfRange
    /\ old = Current(d.pkt) /\ Receiving(h, old)
    /\ OfAnotherFrame(d.pkt) <=> h # d.origin

\* A packet that ends the reception makes progress and leaves the frame alone.
LEMMA EndsReception ==
    ASSUME NEW d, NEW h, NEW old, Delivery(d, h, old), status' = "done",
           return_value' \in {0, 1, LINENO_ERR, LINENO_OVF},
           UNCHANGED <<frame, report, handed, delivered>>
    PROVE  Progress
<1>1. HostInv'
  BY DEF HostInv
<1>2. HandedInv'
  BY DEF HandedInv, Delivery, Taken
<1>3. ReportInv'
  BY ReportStays DEF Delivery
<1>4. FrameTyped(frame')
  BY DEF FrameTyped, TypeOK, Delivery
<1>5. FrameTyped(frame)'
  BY <1>4
<1> QED BY <1>1, <1>2, <1>3, <1>5 DEF Progress

\* A packet taken into the frame under assembly makes progress.
LEMMA KeepsReceiving ==
    ASSUME NEW d, NEW h, NEW old, Delivery(d, h, old), Receiving(h, frame)', h = d.origin,
           ~firstPacket', UNCHANGED <<status, return_value, report, handed, delivered>>
    PROVE  Progress
<1>1. h \in 0 .. frame_number'
  BY TakenStep DEF Delivery, Taken, Genuine
<1>2. HostInv'
  BY <1>1 DEF HostInv
<1>3. HandedInv'
  BY DEF HandedInv, Delivery, Taken
<1>4. ReportInv'
  BY ReportStays DEF Delivery
<1>5. FrameTyped(frame')
  <2>1. FrameAt(h, frame')
    BY DEF Receiving
  <2> QED BY <2>1, TypedFrame
<1>6. FrameTyped(frame)'
  BY <1>5
<1>7. return_value' \in {-1, 0, 1, LINENO_ERR, LINENO_OVF} /\ status' \in {"receiving", "done"}
  BY DEF Delivery, TypeOK
<1> QED BY <1>2, <1>3, <1>4, <1>6, <1>7 DEF Progress

\* The history takes the frame that is handed over for frame h.
LEMMA HandedOver ==
    ASSUME NEW d, NEW h, NEW old, Delivery(d, h, old), report'.frame_number = old.frame_number,
           handed' = FrameAfter(handed, report'.frame_number)
    PROVE  handed' = h /\ handed' - handed \in 1 .. HalfRange
<1>1. report'.frame_number = h % FrameMod /\ h - handed \in 1 .. HalfRange
  BY DEF Delivery, Receiving, FrameAt
<1>2. h \in Int /\ handed \in Int
  BY DEF Delivery, HandedInv
<1> QED BY <1>1, <1>2, CountsOn

\* So does a packet that reveals a lost EOF.
LEMMA MissedEof ==
    ASSUME NEW d, NEW h, NEW old, Delivery(d, h, old), ReceiveNextFrame(d.pkt),
           handed' = FrameAfter(handed, report'.frame_number), UNCHANGED delivered
    PROVE  Progress
<1>1. /\ Grounded /\ HandedInv /\ Taken /\ TypeOK
      /\ d = Head(net) /\ h \in Nat /\ h <= d.origin /\ d.origin - h \in 0 .. HalfRange
      /\ old = Current(d.pkt) /\ Receiving(h, old)
      /\ h # d.origin
  BY DEF Delivery, ReceiveNextFrame
<1>2. PICK o \in Nat : o = d.origin
  BY <1>1, TakenStep
<1>3. HalfRange \in Nat /\ frame_number \in Nat /\ MaxFrame \in Nat /\ frame_number <= MaxFrame + 1
  BY <1>1, HalfRangeFacts, Constants DEF Grounded, SourceInv
<1>4. o - h \in 1 .. HalfRange /\ h < o /\ o \in 0 .. frame_number /\ frame_number' = frame_number
  <2>1. o \in 0 .. frame_number
    BY <1>1, <1>2, TakenStep DEF Genuine
  <2> QED BY <1>1, <1>2, <1>3, <2>1 DEF Taken
<1>5. /\ ~Special(d.pkt)
      /\ report' = Report(old, FALSE, FALSE, FALSE, old.frame_buf)
      /\ firstPacket' = FALSE /\ return_value' = return_value
      /\ \/ frame' = NewFrame(d.pkt, FALSE, old.xorline) /\ status' = status
         \/ status' = "done" /\ frame' = frame
  BY <1>1 DEF ReceiveNextFrame, HandOver
<1>6. /\ report'.frame_number = old.frame_number /\ report'.eof = FALSE /\ ~Complete(report')
      /\ report'.frame_buf = old.frame_buf
  BY <1>5 DEF Report, Complete
<1>7. FrameAt(h, old) /\ handed' = h /\ handed' - handed \in 1 .. HalfRange
  BY <1>1, <1>6, HandedOver DEF Receiving
<1>14. report' # NoReport
  <2>1. report'.frame_number \in Nat
    BY <1>6, <1>7 DEF FrameAt, FrameSet
  <2>2. NoReport.frame_number = -1
    BY DEF NoReport
  <2> QED BY <2>1, <2>2
<1>8. ReportInv'
  <2>1. h < frame_number' /\ h \in Frames
    BY <1>1, <1>3, <1>4 DEF Frames
  <2>2. h % FrameMod = report'.frame_number
    BY <1>6, <1>7 DEF FrameAt
  <2>3. \A l \in Lines : /\ report'.frame_buf[l] \in {Black, Row(h, l)}
                         /\ report'.frame_buf[l] \subseteq AllRows(h)
    BY <1>1, <1>6, <1>7, OneFrame DEF FrameAt
  <2>4. ReportOf(h)'
    BY <1>6, <2>1, <2>2, <2>3 DEF ReportOf, Complete
  <2>5. \A f : f = h => ReportOf(f)'
    BY <2>4
  <2> QED BY <1>7, <1>14, <2>1, <2>5 DEF ReportInv, Frames
<1>9. HandedInv'
  BY <1>1, <1>3, <1>4, <1>7 DEF HandedInv
<1>10. HostInv' /\ FrameTyped(frame')
  <2>1. CASE frame' = NewFrame(d.pkt, FALSE, old.xorline)
    <3>1. Receiving(o, frame)'
      BY <1>1, <1>2, <1>4, <1>5, <1>7, <2>1, NextReceived
    <3>2. HostInv'
      BY <1>4, <1>5, <3>1 DEF HostInv
    <3>3. FrameAt(o, frame')
      BY <3>1 DEF Receiving
    <3> QED BY <3>2, <3>3, TypedFrame
  <2>2. CASE status' = "done" /\ frame' = frame
    BY <1>1, <2>2 DEF HostInv, TypeOK, FrameTyped
  <2> QED BY <1>5, <2>1, <2>2
<1>11. FrameTyped(frame)'
  BY <1>10
<1>12. return_value' \in {-1, 0, 1, LINENO_ERR, LINENO_OVF} /\ status' \in {"receiving", "done"}
  BY <1>1, <1>5 DEF TypeOK
<1> QED BY <1>7, <1>8, <1>9, <1>11, <1>12, <1>10, <1>14 DEF Progress

\* So does an EOF.
LEMMA FrameEnds ==
    ASSUME NEW d, NEW h, NEW old, Delivery(d, h, old), ReceiveEof(d.pkt),
           handed' = FrameAfter(handed, report'.frame_number),
           delivered' = IF Complete(report') /\ report'.frame_buf = Image(d.origin)
                        THEN delivered \cup {d.origin} ELSE delivered
    PROVE  Progress
<1>1. /\ Grounded /\ HandedInv /\ Taken /\ TypeOK
      /\ d = Head(net) /\ h \in Nat /\ old = Current(d.pkt) /\ Receiving(h, old)
      /\ h = d.origin /\ d.pkt.line = LINENO_EOF
  BY DEF Delivery, ReceiveEof
<1>2. FrameAt(h, old) /\ Accounted(h, old)
  BY <1>1 DEF Receiving
<1>3. /\ h < frame_number /\ frame_number' = frame_number
      /\ frame_number \in Nat /\ MaxFrame \in Nat /\ frame_number <= MaxFrame + 1 /\ h \in Frames
  <2>1. h < frame_number
    BY <1>1, <1>2, AtEof
  <2>2. frame_number \in Nat /\ MaxFrame \in Nat /\ frame_number <= MaxFrame + 1 /\ frame_number' = frame_number
    BY <1>1, Constants DEF Grounded, SourceInv, Taken
  <2> QED BY <1>1, <2>1, <2>2 DEF Frames
<1>4. /\ report' = Finished(old)
      /\ firstPacket' = FALSE /\ return_value' = return_value
      /\ \/ frame' = NewFrame(d.pkt, TRUE, old.xorline) /\ status' = status
         \/ status' = "done" /\ frame' = frame
  BY <1>1 DEF ReceiveEof, HandOver, Finished, Short, Repairable
<1>5. /\ report' # NoReport /\ handed' = h /\ handed' - handed \in 1 .. HalfRange
  BY <1>4, FinishedFields, HandedOver
<1>6. ReportInv'
  <2>1. ReportOf(h)'
    BY <1>1, <1>2, <1>4, EofReported
  <2>2. \A f : f = h => ReportOf(f)'
    BY <2>1
  <2> QED BY <1>3, <1>5, <2>2 DEF ReportInv, Frames
<1>7. HandedInv'
  <2>1. delivered \subseteq 0 .. frame_number - 1 /\ delivered' \subseteq delivered \cup {h}
    BY <1>1 DEF HandedInv
  <2>2. h \in 0 .. frame_number - 1 /\ h \in -1 .. frame_number - 1
    BY <1>1, <1>3
  <2> QED BY <1>3, <1>5, <2>1, <2>2 DEF HandedInv
<1>8. HostInv' /\ FrameTyped(frame')
  <2>1. CASE frame' = NewFrame(d.pkt, TRUE, old.xorline)
    <3>1. h + 1 \in 0 .. frame_number /\ Receiving(h + 1, frame)'
      BY <1>1, <1>4, <1>5, <2>1, EofReceived
    <3>2. PICK g \in 0 .. frame_number : Receiving(g, frame)'
      BY <3>1
    <3>3. HostInv'
      BY <1>3, <1>4, <3>2 DEF HostInv
    <3>4. FrameAt(g, frame')
      BY <3>2 DEF Receiving
    <3> QED BY <3>3, <3>4, TypedFrame
  <2>2. CASE status' = "done" /\ frame' = frame
    BY <1>1, <2>2 DEF HostInv, TypeOK, FrameTyped
  <2> QED BY <1>4, <2>1, <2>2
<1>9. FrameTyped(frame)'
  BY <1>8
<1>10. return_value' \in {-1, 0, 1, LINENO_ERR, LINENO_OVF} /\ status' \in {"receiving", "done"}
  BY <1>1, <1>4 DEF TypeOK
<1> QED BY <1>5, <1>6, <1>7, <1>8, <1>9, <1>10 DEF Progress

\* Every packet the host takes makes progress.
LEMMA DeliverProgress ==
    ASSUME IInv, Deliver
    PROVE  Taken /\ Progress
<1>1. /\ TypeOK /\ Grounded /\ HostInv /\ HandedInv /\ ReportInv
  BY DEF IInv, Grounded
<1>2. Taken
  BY DEF Deliver, Taken
<1>3. PICK d : d = Head(net)
  OBVIOUS
<1>4. /\ Genuine(d) /\ d \in Flight /\ d.origin \in Nat
      /\ \A e \in Flight : e.origin >= d.origin
  BY <1>1, <1>2, <1>3, TakenStep
<1> DEFINE p == d.pkt
           ends == p.line = LINENO_EOF /\ p.fits /\ ~OfAnotherFrame(p)
<1>5. /\ Receive(p)
      /\ handed' = IF EndsFrame(p) THEN FrameAfter(handed, report'.frame_number) ELSE handed
      /\ delivered' = IF ends /\ Complete(report') /\ report'.frame_buf = Image(d.origin)
                      THEN delivered \cup {d.origin} ELSE delivered
  BY <1>3 DEF Deliver
<1>6. status = "receiving"
  BY <1>5 DEF Receive
<1>7. PICK h \in Nat :
        /\ h <= d.origin /\ Receiving(h, Current(d.pkt))
        /\ d.origin - h \in 0 .. HalfRange
        /\ OfAnotherFrame(d.pkt) <=> h # d.origin
  BY <1>1, <1>4, <1>6, CurrentFrame
<1>8. PICK old : old = Current(d.pkt)
  OBVIOUS
<1>9. Delivery(d, h, old)
  BY <1>1, <1>2, <1>3, <1>6, <1>7, <1>8 DEF Delivery
<1>10. CASE ReceiveMisfit(p)
  <2>1. status' = "done" /\ return_value' = 1 /\ UNCHANGED <<frame, report, handed, delivered>>
    BY <1>5, <1>10 DEF ReceiveMisfit, Return, EndsFrame
  <2> QED BY <1>2, <1>9, <2>1, EndsReception
<1>11. CASE ReceiveFailure(p)
  <2>1. ~ends /\ ~EndsFrame(p)
    BY <1>11, Reserved, SMT DEF ReceiveFailure, Special, EndsFrame
  <2>2. /\ status' = "done" /\ UNCHANGED <<frame, report>>
        /\ return_value' \in {0, 1, LINENO_ERR, LINENO_OVF}
    BY <1>11 DEF ReceiveFailure, Return, Special
  <2> QED BY <1>2, <1>5, <1>9, <2>1, <2>2, EndsReception
<1>12. CASE ReceiveNextFrame(p)
  <2>1. ~ends /\ EndsFrame(p)
    BY <1>12 DEF ReceiveNextFrame, EndsFrame
  <2> QED BY <1>2, <1>5, <1>9, <1>12, <2>1, MissedEof
<1>13. CASE ReceiveXor(p)
  <2>1. ~ends /\ ~EndsFrame(p) /\ p.line = LINENO_XOR /\ h = d.origin
    BY <1>7, <1>13, Reserved, SMT DEF ReceiveXor, EndsFrame
  <2>2. /\ frame' = [old EXCEPT !.xorline = d.pkt.data, !.has_xor = TRUE]
        /\ ~firstPacket' /\ UNCHANGED <<status, return_value, report>>
    BY <1>8, <1>13 DEF ReceiveXor
  <2>3. UNCHANGED <<handed, delivered>>
    BY <1>5, <2>1
  <2>4. Receiving(h, frame)'
    BY <1>1, <1>2, <1>3, <1>7, <1>8, <2>1, <2>2, <2>3, XorReceived
  <2> QED BY <1>2, <1>9, <2>1, <2>2, <2>3, <2>4, KeepsReceiving
<1>14. CASE ReceiveEof(p)
  <2>1. ends /\ EndsFrame(p)
    BY <1>14, Reserved, SMT DEF ReceiveEof, EndsFrame, Special
  <2> QED BY <1>2, <1>5, <1>9, <1>14, <2>1, FrameEnds
<1>15. CASE ReceiveRow(p)
  <2>1. ~ends /\ ~EndsFrame(p) /\ IsRow(p) /\ h = d.origin
    BY <1>7, <1>15 DEF ReceiveRow, IsRow, EndsFrame
  <2>2. UNCHANGED <<handed, delivered>>
    BY <1>5, <2>1
  <2>3. old.lineCount \in 0 .. Rows /\ Rows \in Nat
    BY <1>7, <1>8, MissingRows, Constants DEF Receiving
  <2>4. CASE MaskLine(p.line) >= Rows
    <3>1. status' = "done" /\ return_value' = 0 /\ UNCHANGED <<frame, report>>
      BY <1>15, <2>4 DEF ReceiveRow, Return
    <3> QED BY <1>2, <1>9, <2>2, <3>1, EndsReception
  <2>5. CASE ~(MaskLine(p.line) >= Rows)
    <3>1. /\ frame' = Kept(old, MaskLine(d.pkt.line), d.pkt.data)
          /\ ~firstPacket' /\ UNCHANGED <<status, return_value, report>>
      BY <1>8, <1>15, <2>3, <2>5 DEF ReceiveRow, Kept
    <3>2. MaskLine(d.pkt.line) < Rows
      <4>1. MaskLine(d.pkt.line) \in Int
        <5>1. d \in Entry
          BY <1>1, <1>2, <1>3, Popped DEF Grounded, NetInv, Taken
        <5>2. d.pkt.line \in Int
          BY <5>1 DEF Entry
        <5> QED BY <5>2, SMT DEF MaskLine
      <4> QED BY <2>3, <2>5, <4>1
    <3>3. Receiving(h, frame)'
      BY <1>1, <1>2, <1>3, <1>7, <1>8, <2>1, <2>2, <3>1, <3>2, RowReceived
    <3> QED BY <1>2, <1>9, <2>1, <2>2, <3>1, <3>3, KeepsReceiving
  <2> QED BY <2>4, <2>5
<1> QED BY <1>5, <1>10, <1>11, <1>12, <1>13, <1>14, <1>15 DEF Receive

\* Progress keeps the invariant, and hands frames over in order.
LEMMA DeliverStep ==
    ASSUME IInv, Deliver
    PROVE  /\ IInv' /\ frame_number' = frame_number
           /\ \/ UNCHANGED <<handed, report>>
              \/ report' # NoReport /\ handed' - handed \in 1 .. HalfRange
<1>1. Taken /\ Progress
  BY DeliverProgress
<1>2. Grounded'
  <2>1. Grounded
    BY DEF IInv, Grounded
  <2>2. PICK d : d = Head(net)
    OBVIOUS
  <2> QED BY <1>1, <2>1, <2>2, TakenStep
<1>3. TypeOK'
  BY <1>1, <1>2, TypeStep DEF Progress, Grounded
<1> QED BY <1>1, <1>2, <1>3 DEF IInv, Grounded, Progress, Taken

-----------------------------------------------------------------------------
(* The invariant *)

\* All other steps keep the invariant and the report.
LEMMA SteadyStep ==
    ASSUME IInv, [Next]_vars, ~Deliver
    PROVE  Grounded' /\ Steady /\ IInv'
<1>1. /\ TypeOK /\ Grounded /\ HostInv /\ HandedInv /\ ReportInv
  BY DEF IInv, Grounded
<1>2. Grounded' /\ Steady
  <2>1. CASE Camera
    <3>1. UNCHANGED <<hostVars, history>>
      BY <2>1 DEF Camera
    <3>2. FrameStart \/ Overflow \/ SendLine
      BY <2>1 DEF Camera, SrcNext
    <3> QED BY <1>1, <3>1, <3>2, FrameStartStep, OverflowStep, SendLineStep
  <2>2. CASE Lose
    BY <1>1, <2>2, LoseStep
  <2>3. CASE Fail
    BY <1>1, <2>3, FailStep
  <2>4. CASE Silence \/ HostBreaks \/ UNCHANGED vars
    BY <1>1, <2>4, HostOnlyStep
  <2> QED BY <2>1, <2>2, <2>3, <2>4 DEF Next
<1>3. HostInv' /\ HandedInv' /\ ReportInv'
  BY <1>1, <1>2, HostSteady
<1>4. /\ status' \in {"receiving", "done"}
      /\ return_value' \in {-1, 0, 1, LINENO_ERR, LINENO_OVF}
  BY <1>1 DEF Next, Camera, Lose, Fail, Silence, HostBreaks, Timeout, SocketError,
              Return, hostVars, vars, TypeOK
<1>5. FrameTyped(frame')
  BY <1>1, <1>2 DEF Steady, TypeOK, FrameTyped
<1>6. FrameTyped(frame)'
  BY <1>5
<1>7. TypeOK'
  BY <1>2, <1>3, <1>4, <1>6, TypeStep DEF Grounded
<1> QED BY <1>2, <1>3, <1>7 DEF IInv, Grounded

(***************************************************************************)
(* The invariant holds of every state of the video path.                   *)
(***************************************************************************)
THEOREM Inductive == Spec => []IInv
<1>1. IInv /\ [Next]_vars => IInv'
  BY DeliverStep, SteadyStep
<1> QED BY InitInv, <1>1, PTL DEF Spec

(***************************************************************************)
(* The buffers and counters of the reassembly stay in their ranges, and    *)
(* the network within its capacity.                                        *)
(***************************************************************************)
THEOREM TypeCorrect == Spec => []TypeOK
<1>1. IInv => TypeOK
  BY DEF IInv
<1> QED BY Inductive, <1>1, PTL

(***************************************************************************)
(* No frame given to the handler (wge100VidReceiveSocket) shows a row of   *)
(* another frame.                                                          *)
(***************************************************************************)
THEOREM NoMixing == Spec => []NoFrameMixing
<1>1. IInv => NoFrameMixing
  BY DEF IInv, ReportInv, ReportOf, NoFrameMixing, Reported
<1> QED BY Inductive, <1>1, PTL

\* Only a frame handed over is complete or at its EOF.
LEMMA CompleteReport == Complete(report) \/ report.eof => report # NoReport
  BY DEF Complete, NoReport

(***************************************************************************)
(* A frame given to the handler as complete is the image the camera took,  *)
(* but for the repair of a first or last row.                              *)
(***************************************************************************)
THEOREM CompleteIntact == Spec => []CompleteIsIntact
<1>1. IInv => CompleteIsIntact
  <2> SUFFICES ASSUME IInv, Complete(report)
               PROVE  \E f \in Reported :
                         \/ report.frame_buf = Image(f)
                         \/ report.repaired /\ LostRows(f) \cap {0, Rows - 1} # {}
    BY DEF CompleteIsIntact
  <2>1. PICK f \in Frames : ReportOf(f)
    BY CompleteReport DEF IInv, ReportInv
  <2> QED BY <2>1 DEF ReportOf, Reported
<1> QED BY Inductive, <1>1, PTL

(***************************************************************************)
(* missingLines of a short frame is the number of its rows that the        *)
(* network lost, when the camera sends no frame bits.                      *)
(***************************************************************************)
THEOREM ShortCounted == ~FrameBits => (Spec => []ShortFramesCounted)
<1> SUFFICES ASSUME ~FrameBits PROVE Spec => []ShortFramesCounted
  OBVIOUS
<1>1. IInv => ShortFramesCounted
  <2> SUFFICES ASSUME IInv, report.eof, report.shortFrame
               PROVE  \E f \in Reported : report.missingLines = Cardinality(LostRows(f))
    BY DEF ShortFramesCounted
  <2>1. PICK f \in Frames : ReportOf(f)
    BY CompleteReport DEF IInv, ReportInv
  <2> QED BY <2>1 DEF ReportOf, Reported
<1> QED BY Inductive, <1>1, PTL

(***************************************************************************)
(* A finished frame that lost nothing, its XOR row, or one row in the      *)
(* middle when there is an XOR row, is delivered intact, when the camera   *)
(* sends no frame bits.                                                    *)
(***************************************************************************)
THEOREM Recovered == ~FrameBits => (Spec => []RecoverableDelivered)
<1> SUFFICES ASSUME ~FrameBits PROVE Spec => []RecoverableDelivered
  OBVIOUS
<1>1. IInv => RecoverableDelivered
  <2> SUFFICES ASSUME IInv, NEW f \in Frames, status = "receiving", f < frame_number,
                      f \notin aborted, \A i \in DOMAIN net : net[i].origin # f, Recoverable(f)
               PROVE  f \in delivered
    BY DEF RecoverableDelivered
  <2>1. /\ f \in Nat /\ f \in 0 .. frame_number /\ frame_number \in Nat
        /\ Rows \in Nat /\ Rows + 1 \in Indices /\ Rows + 1 # Rows
    BY Constants DEF IInv, SourceInv, Frames, Indices
  <2>2. ~Flying(f, Rows + 1)
    BY DEF Flying, Flight, Range
  <2>3. WasSent(f, Rows + 1)
    BY <2>1 DEF WasSent
  <2>4. ~Out(f, Rows + 1)
    BY <2>1, <2>2, Unrecoverable DEF Out
  <2>5. ASSUME NEW h \in Int, Ahead(h), h < f PROVE FALSE
    BY <2>1, <2>3, <2>4, <2>5 DEF Ahead
  <2>6. ~firstPacket
    BY <2>1, <2>5 DEF IInv, HostInv
  <2>7. PICK h \in 0 .. frame_number : Receiving(h, frame)
    BY <2>6 DEF IInv, HostInv
  <2>8. h \in Int /\ ~(h < f)
    BY <2>1, <2>5, <2>7 DEF Receiving
  <2>9. h # f
    BY <2>1, <2>3, <2>4, <2>7, Unrecoverable DEF Receiving, Accounted
  <2> QED BY <2>1, <2>7, <2>8, <2>9 DEF Receiving, Settled
<1> QED BY Inductive, <1>1, PTL

(***************************************************************************)
(* The frame numbers of successive reports advance, by less than half of   *)
(* their range, across the wrap-around too.                                *)
(***************************************************************************)
THEOREM ReportsAdvance == Spec => NumbersAdvance
<1>1. IInv /\ [Next]_vars =>
        [ (report # NoReport /\ report' # report) =>
            (report'.frame_number - report.frame_number) % FrameMod
                \in 1 .. (FrameMod - 1) \div 2 ]_report
  <2> SUFFICES ASSUME IInv, [Next]_vars, report # NoReport, report' # report
               PROVE  (report'.frame_number - report.frame_number) % FrameMod \in 1 .. HalfRange
    BY DEF HalfRange
  <2>1. /\ IInv' /\ report' # NoReport /\ handed' - handed \in 1 .. HalfRange
    BY DeliverStep, SteadyStep DEF Steady
  <2>2. /\ handed \in Nat /\ report.frame_number = handed % FrameMod
        /\ handed' \in Nat /\ report'.frame_number = handed' % FrameMod
    BY <2>1 DEF IInv, ReportInv, ReportOf, Frames
  <2>3. PICK n \in 1 .. HalfRange, a \in Int : a = handed /\ handed' = a + n
    <3>1. \A a, b \in Nat : a \in Int /\ b = a + (b - a)
      OBVIOUS
    <3>2. PICK n \in 1 .. HalfRange : n = handed' - handed
      BY <2>1
    <3>3. handed \in Int /\ handed' = handed + n
      BY <2>2, <3>1, <3>2
    <3> QED BY <3>3
  <2>4. n \in 0 .. FrameMod - 1 /\ FrameMod \in Nat \ {0}
    BY <2>3, Constants, HalfRangeFacts
  <2>5. (((a + n) % FrameMod) - (a % FrameMod)) % FrameMod = n
    BY <2>3, <2>4, MaskedDifference
  <2> QED BY <2>2, <2>3, <2>5
<1> QED BY Inductive, <1>1, PTL DEF Spec, NumbersAdvance

\* A report of frame f is a picture of image f.
LEMMA Shown ==
    ASSUME ReportInv', NEW f \in Frames, handed' = f, report' # NoReport
    PROVE  Channel!Shows(f, report'.frame_buf)
<1>1. \A l \in Lines : /\ report'.frame_buf[l] \subseteq AllRows(f)
                       /\ \/ report'.frame_buf[l] \in {Black, Row(f, l)}
                          \/ report'.repaired /\ l = report'.lastMissingLine
  BY DEF ReportInv, ReportOf
<1>2. Channel!Pixels(f) = AllRows(f) /\ Channel!Black = Black /\ 0 \in Lines
  BY Constants DEF Channel!Pixels, AllRows, Row, Channel!Black, Black, Lines
<1>3. CASE report'.lastMissingLine \in Lines
  BY <1>1, <1>2, <1>3 DEF Channel!Shows
<1>4. CASE report'.lastMissingLine \notin Lines
  BY <1>1, <1>2, <1>4 DEF Channel!Shows
<1> QED BY <1>3, <1>4

(***************************************************************************)
(* The video path implements the channel of frames: the pictures given to  *)
(* the handler are of the images in their order, each shown at most once   *)
(* and after it was over, and the frame numbers tell which one it is.      *)
(***************************************************************************)
THEOREM IsChannel == Spec => ImplementsChannel
<1> DEFINE whole == Complete(report) /\ ~report.repaired
<1>1. Init => Channel!Init
  BY DEF Init, SrcInit, HostInit, NoReport, Complete, Channel!Init, Channel!Black, Black
<1>2. IInv /\ [Next]_vars => [Channel!Next]_<<frame_number, handed, report.frame_buf, whole>>
  <2> SUFFICES ASSUME IInv, [Next]_vars
               PROVE  [Channel!Next]_<<frame_number, handed, report.frame_buf, whole>>
    OBVIOUS
  <2>1. CASE Deliver /\ ~UNCHANGED <<handed, report>>
    <3>1. /\ IInv' /\ frame_number' = frame_number
          /\ report' # NoReport /\ handed' - handed \in 1 .. HalfRange
      BY <2>1, DeliverStep
    <3>2. /\ handed' \in Frames /\ ReportOf(handed)'
      BY <3>1 DEF IInv, ReportInv, Frames
    <3>3. handed' \in (handed + 1) .. (frame_number - 1)
      <4>1. \A a, b, c \in Int : b - a \in 1 .. HalfRange /\ b <= c - 1 => b \in (a + 1) .. (c - 1)
        BY HalfRangeFacts
      <4>2. handed \in Int /\ handed' \in Int /\ frame_number \in Int /\ handed' <= frame_number - 1
        BY <3>1 DEF IInv, HandedInv, SourceInv
      <4> QED BY <3>1, <4>1, <4>2
    <3>4. Channel!Shows(handed', report'.frame_buf)
      BY <3>1, <3>2, Shown DEF IInv
    <3>5. whole' => report'.frame_buf = [l \in Lines |-> Row(handed', l)]
      BY <3>2 DEF ReportOf, Complete, Image
    <3> QED BY <3>1, <3>3, <3>4, <3>5 DEF Channel!Next, Channel!Show
  <2>2. CASE Deliver /\ UNCHANGED <<handed, report>>
    <3>1. frame_number' = frame_number /\ whole' = whole
      BY <2>2, DeliverStep DEF Complete
    <3> QED BY <2>2, <3>1
  <2>3. CASE ~Deliver
    <3>1. UNCHANGED <<handed, report>> /\ frame_number' \in {frame_number, frame_number + 1}
      BY <2>3, SteadyStep DEF Steady
    <3>2. whole' = whole
      BY <3>1 DEF Complete
    <3> QED BY <3>1, <3>2 DEF Channel!Next, Channel!Produce
  <2> QED BY <2>1, <2>2, <2>3
<1> QED BY Inductive, <1>1, <1>2, PTL DEF Spec, ImplementsChannel, Channel!Spec
=============================================================================
