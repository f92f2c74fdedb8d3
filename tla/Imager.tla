------------------------------- MODULE Imager -------------------------------
(***************************************************************************)
(* The imager as mt9v.cpp sees it: which registers a model has, and the    *)
(* writes that bring one of its two contexts to some settings.             *)
(*                                                                         *)
(* A register is a pair <<context, name>>, with the context "both" for one *)
(* that the contexts share.  A register made of bit fields holds a record  *)
(* of them; the driver never reads a register back to change a field, but  *)
(* keeps a cache of the others.  Times are in microseconds, rates in       *)
(* frames per second; the imager's clock has 16 ticks in a microsecond.    *)
(***************************************************************************)
EXTENDS Integers, Sequences

Contexts == {"primary", "alternate"}
ContextRegisters == Contexts \X {"vblank", "hblank", "column", "row", "width",
                                 "height", "shutter", "gain", "read_mode"}
SharedRegisters ==
    {"both"} \X {"agc_aec", "companding", "max_shutter", "desired_bin",
                 "black_control", "black_value", "black_step", "row_noise",
                 "test_pattern", "hdr", "v2", "knee", "magic18", "magic15",
                 "magic20", "magic21"}
Registers == ContextRegisters \cup SharedRegisters

ReadMode(bx, by, mx, my) == [binx |-> bx, biny |-> by, mirrorx |-> mx, mirrory |-> my]

\* As the caches of mt9v.cpp have it at first (0x303 and 0x302).
AgcAecAtReset == [c \in Contexts |-> [agc |-> TRUE, aec |-> TRUE]]
CompandingAtReset == [c \in Contexts |-> c = "alternate"]

\* What mt9v-reset leaves in the registers.
Reset ==
    [r \in Registers |->
        CASE r[2] = "width" -> 752
          [] r[2] = "height" -> 480
          [] r[2] = "read_mode" -> ReadMode(0, 0, FALSE, FALSE)
          [] r[2] = "agc_aec" -> AgcAecAtReset
          [] r[2] = "companding" -> CompandingAtReset
          [] r[2] = "black_control" -> [filter |-> 0, manual |-> FALSE]
          [] OTHER -> 1]

-----------------------------------------------------------------------------
(* The search of setMode for the blanking *)

\* The windows the imager has and the blankings setMode looks at.
Widths == 1 .. 752
Heights == 1 .. 480
Hblanks == 100 .. 1022
MinVblank == 40
MaxVblank == 3000

Clamp(v, low, high) == IF v < low THEN low ELSE IF v > high THEN high ELSE v
Rounded(a, b) == (2 * a + b) \div (2 * b)

Target(rate) == 16000000 \div rate
Vblank(x, y, rate, h) == Clamp(Rounded(Target(rate) - 4, x + h) - y, MinVblank, MaxVblank)
Tics(x, y, rate, h) == (x + h) * (Vblank(x, y, rate, h) + y) + 4
Error(x, y, rate, h) ==
    LET d == Tics(x, y, rate, h) - Target(rate) IN IF d < 0 THEN -d ELSE d

\* At most 90 Mbit/s while a row is sent; a packet has 70 bytes around its
\* pixels.
RateFits(x, binx, h) == 128 * (70 + x \div 2^binx) <= 90 * (x + h)

\* The first hblank with the smallest error; 1022 always fits.
Hblank(x, y, binx, rate) ==
    LET error == [h \in {h \in Hblanks : RateFits(x, binx, h)} |-> Error(x, y, rate, h)]
    IN  CHOOSE h \in DOMAIN error :
          \A g \in DOMAIN error : error[h] < error[g] \/ (error[h] = error[g] /\ h <= g)

-----------------------------------------------------------------------------
(* Settings and the writes they need *)

BinShift(binning) == CASE binning = 1 -> 0 [] binning = 2 -> 1 [] binning = 4 -> 2
                       [] OTHER -> -1
Wide(s) == s.width * 2^BinShift(s.horizontal_binning)
High(s) == s.height * 2^BinShift(s.vertical_binning)
Startx(s) == 57 + s.x_offset
Starty(s) == 4 + s.y_offset

\* setMode refuses a window that leaves the imager.
Refused(s) ==
    \/ BinShift(s.horizontal_binning) = -1
    \/ BinShift(s.vertical_binning) = -1
    \/ Wide(s) \notin Widths
    \/ High(s) \notin Heights
    \/ Startx(s) < 1 \/ Startx(s) + Wide(s) > 753
    \/ Starty(s) < 4 \/ Starty(s) + High(s) > 484

\* An exposure as a number of rows that take line/16 microseconds each.  A
\* fault: it is not clamped.
LinesUnclamped(exposure, line, limit) == (16 * exposure) \div line
Lines(exposure, line, limit) == Clamp((16 * exposure) \div line, 1, limit)

\* The limits of the object of a context.  That of the alternate context
\* keeps the ones the MT9V032 has.
MaxShutter(model, c) == IF model = "MT9V034" /\ c = "primary" THEN 32765 ELSE 32767
MaxMaxShutter(model, c) == IF model = "MT9V034" /\ c = "primary" THEN 32765 ELSE 2047

MaxExposure(s) == IF s.max_exposure # 0 THEN s.max_exposure ELSE 990000 \div s.imager_rate

\* A write, and whether its failure ends the opening of the driver.
Write(c, name, v) == [reg |-> <<c, name>>, value |-> v, group |-> "setting"]
Warned(name, v, group) == [reg |-> <<"both", name>>, value |-> v, group |-> group]

(***************************************************************************)
(* setImagerSettings for context c.  "cache" holds what the caches of its  *)
(* object have of the registers shared by the contexts.                    *)
(***************************************************************************)
Settings(model, c, s, cache) ==
    LET bx == BinShift(s.horizontal_binning)
        by == BinShift(s.vertical_binning)
        h == Hblank(Wide(s), High(s), bx, s.imager_rate)
        line == Wide(s) + h
    IN  << Write(c, "vblank", Vblank(Wide(s), High(s), s.imager_rate, h)),
           Write(c, "hblank", h),
           Write(c, "column", Startx(s)),
           Write(c, "row", Starty(s)),
           Write(c, "width", Wide(s)),
           Write(c, "height", High(s)),
           Write(c, "read_mode", ReadMode(bx, by, FALSE, FALSE)),
           Write("both", "companding", [cache.companding EXCEPT ![c] = s.companding]),
           Write("both", "agc_aec",
                 [cache.agc_aec EXCEPT ![c] = [agc |-> s.auto_gain, aec |-> s.auto_exposure]]),
           Write(c, "gain", s.gain),
           Write(c, "read_mode", ReadMode(bx, by, s.mirror_x # s.rotate_180,
                                                  s.mirror_y # s.rotate_180)),
           Write(c, "shutter", Lines(s.exposure, line, MaxShutter(model, c))),
           Write("both", "black_control",
                 [filter |-> s.black_level_filter_length, manual |-> ~s.auto_black_level]),
           Write("both", "black_value", s.black_level),
           Write("both", "black_step", s.black_level_step_size),
           Write("both", "desired_bin", s.brightness),
           Write("both", "max_shutter",
                 Lines(MaxExposure(s), line, MaxMaxShutter(model, c))) >>

CacheAtReset == [agc_aec |-> AgcAecAtReset, companding |-> CompandingAtReset]

\* The caches after the settings s of context c were written.
CacheAfter(c, s) ==
    [agc_aec |-> [AgcAecAtReset EXCEPT ![c] = [agc |-> s.auto_gain, aec |-> s.auto_exposure]],
     companding |-> [CompandingAtReset EXCEPT ![c] = s.companding]]

\* The alternate context uses the caches of its parent.  A fault: its own.
OwnCache(s) == CacheAtReset
AlternateCache(s) == CacheAfter("primary", s)

(***************************************************************************)
(* The constructors.  A failure is only warned of; the first four writes   *)
(* are one condition, so that a failure skips the others of the four.      *)
(***************************************************************************)
Magic == << Warned("magic18", 0, "magic"), Warned("magic15", 0, "magic"),
            Warned("magic20", 0, "magic"), Warned("magic21", 0, "magic") >>
Constructor(model) ==
    IF model = "MT9V034"
    THEN Magic \o << Warned("row_noise", 0, "noise"), Warned("v2", 0, "v2"),
                     Warned("hdr", 0, "hdr"), Warned("knee", 0, "knee") >>
    ELSE Magic \o << Warned("row_noise", 20, "noise") >>
=============================================================================
