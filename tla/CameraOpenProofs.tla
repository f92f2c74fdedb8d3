--------------------------- MODULE CameraOpenProofs ---------------------------
(***************************************************************************)
(* Theorems about CameraOpen, for every configuration dynamic reconfigure  *)
(* lets through, and any number of openings and failures: its type         *)
(* invariant, that imager and firmware agree, and that the contexts in use *)
(* are as configured.                                                      *)
(***************************************************************************)
EXTENDS CameraOpen, WellFoundedInduction, SequenceTheorems, TLAPS

-----------------------------------------------------------------------------
(* Products and remainders *)

(***************************************************************************)
(* A product with a constant distributes, and grows with its factors.      *)
(***************************************************************************)
LEMMA Products ==
    ASSUME NEW a \in Int, NEW b \in Int, NEW c \in Int
    PROVE  /\ a * c \in Int /\ c * a \in Int
           /\ (a + b) * c = a * c + b * c
           /\ c * (a + b) = c * a + c * b
           /\ (a <= b /\ c >= 0) => a * c <= b * c /\ c * a <= c * b
  OBVIOUS

(***************************************************************************)
(* Dividing with remainder, and that the remainder is unique.              *)
(***************************************************************************)
LEMMA Remainder ==
    ASSUME NEW a \in Int, NEW M \in Nat \ {0}
    PROVE  /\ a \div M \in Int
           /\ a % M \in 0 .. M - 1
           /\ a = M * (a \div M) + (a % M)
  OBVIOUS


-----------------------------------------------------------------------------
(* Configurations and settings *)

ContextFields == {"auto_exposure", "auto_gain", "gain", "exposure", "companding"}

\* Contexts in use, and the settings they are given.
Used(c) == IF Both(c) THEN Contexts ELSE {"primary"}
SettingsOf(c, d) == IF d = "primary" THEN PrimarySettings(c) ELSE AlternateSettings(c)

\* What the proofs need to know of the settings.
SettingsInRange(c, s) ==
    /\ s.width = c.width /\ s.height = c.height
    /\ s.x_offset = c.x_offset /\ s.y_offset = c.y_offset
    /\ s.horizontal_binning = c.horizontal_binning
    /\ s.vertical_binning = c.vertical_binning
    /\ s.imager_rate = c.imager_rate
    /\ s.max_exposure = c.max_exposure
    /\ s.imager_rate \in 1 .. 100
    /\ s.max_exposure \in Nat
    /\ s.exposure \in 0 .. LongestExposure

\* Exchanging exposure and gain settings between contexts keeps them in range.
LEMMA ExchangedInRange ==
    ASSUME NEW r, NEW s, ContextInRange(r), ContextInRange(s)
    PROVE  ContextInRange(Swapped(r, s))
<1>1. DOMAIN r = ContextFields
  BY Zenon DEF ContextInRange, ContextFields
<1>2. /\ DOMAIN Swapped(r, s) = ContextFields
      /\ Swapped(r, s).auto_exposure = s.auto_exposure
      /\ Swapped(r, s).auto_gain = r.auto_gain
      /\ Swapped(r, s).gain = s.gain
      /\ Swapped(r, s).exposure = r.exposure
      /\ Swapped(r, s).companding = s.companding
  BY <1>1, SMT DEF Swapped, ContextFields
<1> QED BY <1>2, Zenon DEF ContextInRange, ContextFields

\* Merged settings have the common fields of one and the context fields of the
\* other.
LEMMA MergedFields ==
    ASSUME NEW c, InRange(c), NEW s, ContextInRange(s)
    PROVE  /\ \A f \in CommonFields : Merged(Common(c), s)[f] = c[f]
           /\ \A f \in ContextFields : Merged(Common(c), s)[f] = s[f]
<1>1. DOMAIN s = ContextFields
  BY Zenon DEF ContextInRange, ContextFields
<1>2. CommonFields \cap ContextFields = {}
  BY SMT DEF CommonFields, ContextFields
<1>3. DOMAIN Common(c) = CommonFields /\ \A f \in CommonFields : Common(c)[f] = c[f]
  BY DEF Common
<1> QED BY <1>1, <1>2, <1>3, Zenon DEF Merged

\* Settings merged from a configuration and one of its contexts are in range.
LEMMA MergedInRange ==
    ASSUME NEW c, InRange(c), NEW s, ContextInRange(s)
    PROVE  SettingsInRange(c, Merged(Common(c), s))
<1> DEFINE m == Merged(Common(c), s)
<1>1. /\ "width" \in CommonFields /\ "height" \in CommonFields
      /\ "x_offset" \in CommonFields /\ "y_offset" \in CommonFields
      /\ "horizontal_binning" \in CommonFields /\ "vertical_binning" \in CommonFields
      /\ "imager_rate" \in CommonFields /\ "max_exposure" \in CommonFields
      /\ "exposure" \in ContextFields
  BY SMT DEF CommonFields, ContextFields
<1>2. \A f \in CommonFields : m[f] = c[f]
  BY MergedFields
<1>3. /\ m.width = c.width /\ m.height = c.height
      /\ m.x_offset = c.x_offset /\ m.y_offset = c.y_offset
      /\ m.horizontal_binning = c.horizontal_binning
      /\ m.vertical_binning = c.vertical_binning
      /\ m.imager_rate = c.imager_rate
      /\ m.max_exposure = c.max_exposure
  <2> HIDE DEF m
  <2> QED BY <1>1, <1>2, Zenon
<1>4. m.exposure = s.exposure
  BY <1>1, MergedFields
<1>5. c.imager_rate \in 1 .. 100 /\ c.max_exposure \in 0 .. LongestExposure
  BY Zenon DEF InRange
<1>6. c.max_exposure \in Nat
  <2>1. LongestExposure \in Nat
    BY SMT DEF LongestExposure
  <2> QED BY <1>5, <2>1, SMT
<1>7. s.exposure \in 0 .. LongestExposure
  BY Zenon DEF ContextInRange
<1> QED BY <1>3, <1>4, <1>5, <1>6, <1>7, Zenon DEF SettingsInRange

(***************************************************************************)
(* Both contexts get the window and the rate of the configuration, and an  *)
(* exposure in range.                                                      *)
(***************************************************************************)
LEMMA SettingsTyped ==
    ASSUME NEW c, InRange(c), NEW d \in Contexts
    PROVE  SettingsInRange(c, SettingsOf(c, d))
<1>1. ContextInRange(c.primary) /\ ContextInRange(c.alternate)
  BY Zenon DEF InRange
<1>2. \A s : ContextInRange(s) => SettingsInRange(c, Merged(Common(c), s))
  BY MergedInRange
<1>3. \A r, s : ContextInRange(r) /\ ContextInRange(s) => ContextInRange(Swapped(r, s))
  BY ExchangedInRange
<1>4. SettingsInRange(c, PrimarySettings(c))
  <2>1. c.register_set \in {"primary", "alternate", "both"}
    BY Zenon DEF InRange
  <2> QED BY <1>1, <1>2, <1>3, <2>1, SMT DEF PrimarySettings
<1>5. SettingsInRange(c, AlternateSettings(c))
  BY <1>1, <1>2, <1>3, Zenon DEF AlternateSettings
<1> QED BY <1>4, <1>5, Zenon DEF SettingsOf

\* config_update keeps a configuration within what dynamic reconfigure lets
\* through.
LEMMA UpdateInRange ==
    ASSUME NEW c, InRange(c)
    PROVE  InRange(ConfigUpdate(c))
<1> DEFINE u == ConfigUpdate(c)
           p == [c.primary EXCEPT !.exposure = IF c.primary.auto_exposure THEN @
                                               ELSE AtMost(@, Period(c))]
           Fields == CommonFields \cup
                       {"primary", "alternate", "register_set", "ext_trig", "trig_rate",
                        "trig_timestamp_topic", "rising_edge_trig", "test_pattern"}
<1>1. DOMAIN c = Fields
  BY Zenon DEF InRange
<1>0. DOMAIN u = Fields
  BY <1>1, SMT DEF ConfigUpdate, CommonFields
<1>15. u.primary = p
  BY <1>1, SMT DEF ConfigUpdate, CommonFields
<1>14. u.horizontal_binning = Legal(c.horizontal_binning)
  BY <1>1, SMT DEF ConfigUpdate, CommonFields
<1>13. u.vertical_binning = Legal(c.vertical_binning)
  BY <1>1, SMT DEF ConfigUpdate, CommonFields
<1>2. u.max_exposure = IF c.primary.auto_exposure THEN AtMost(c.max_exposure, Period(c))
                          ELSE c.max_exposure
  BY <1>1, SMT DEF ConfigUpdate, CommonFields
<1>3. /\ u.width = c.width /\ u.height = c.height
      /\ u.x_offset = c.x_offset /\ u.y_offset = c.y_offset
      /\ u.imager_rate = c.imager_rate /\ u.trig_rate = c.trig_rate
      /\ u.alternate = c.alternate /\ u.register_set = c.register_set
  BY <1>1, SMT DEF ConfigUpdate, CommonFields
<1>4. /\ u.black_level = c.black_level
      /\ u.black_level_filter_length = c.black_level_filter_length
      /\ u.black_level_step_size = c.black_level_step_size /\ u.brightness = c.brightness
  BY <1>1, SMT DEF ConfigUpdate, CommonFields
<1>5. /\ u.mirror_x = c.mirror_x /\ u.mirror_y = c.mirror_y /\ u.rotate_180 = c.rotate_180
      /\ u.auto_black_level = c.auto_black_level /\ u.test_pattern = c.test_pattern
      /\ u.ext_trig = c.ext_trig /\ u.trig_timestamp_topic = c.trig_timestamp_topic
      /\ u.rising_edge_trig = c.rising_edge_trig
  BY <1>1, SMT DEF ConfigUpdate, CommonFields
<1>6. Period(c) \in Nat
  <2>1. c.trig_rate \in 1 .. 100 /\ c.imager_rate \in 1 .. 100
    BY Zenon DEF InRange
  <2> QED BY <2>1, SMT DEF Period
<1>7. \A v \in 0 .. LongestExposure : AtMost(v, Period(c)) \in 0 .. LongestExposure
  <2>1. LongestExposure \in Nat
    BY SMT DEF LongestExposure
  <2> QED BY <1>6, <2>1, SMT DEF AtMost
<1>8. ContextInRange(c.primary) /\ ContextInRange(c.alternate)
  BY Zenon DEF InRange
<1>9. ContextInRange(p)
  <2>1. DOMAIN c.primary = ContextFields /\ c.primary.exposure \in 0 .. LongestExposure
    BY <1>8, Zenon DEF ContextInRange, ContextFields
  <2>2. /\ DOMAIN p = ContextFields
        /\ p.exposure = IF c.primary.auto_exposure THEN c.primary.exposure
                        ELSE AtMost(c.primary.exposure, Period(c))
        /\ p.auto_exposure = c.primary.auto_exposure /\ p.auto_gain = c.primary.auto_gain
        /\ p.gain = c.primary.gain /\ p.companding = c.primary.companding
    BY <2>1, SMT DEF ContextFields
  <2>3. p.exposure \in 0 .. LongestExposure
    BY <1>7, <2>1, <2>2, Zenon
  <2> HIDE DEF p
  <2> QED BY <1>8, <2>2, <2>3, Zenon DEF ContextInRange, ContextFields
<1>10. u.max_exposure \in 0 .. LongestExposure
  <2>1. c.max_exposure \in 0 .. LongestExposure
    BY Zenon DEF InRange
  <2> QED BY <1>2, <1>7, <2>1, Zenon
<1>11. u.horizontal_binning \in 1 .. 4 /\ u.vertical_binning \in 1 .. 4
  <2>1. c.horizontal_binning \in 1 .. 4 /\ c.vertical_binning \in 1 .. 4
    BY Zenon DEF InRange
  <2> QED BY <1>13, <1>14, <2>1, SMT DEF Legal
<1> HIDE DEF u, p
<1>12. InRange(u)
  <2>1. ContextInRange(u.primary) /\ ContextInRange(u.alternate)
    BY <1>3, <1>8, <1>9, <1>15, SMT
  <2>2. /\ u.register_set \in {"primary", "alternate", "both"}
        /\ u.width \in 1 .. 752 /\ u.height \in 1 .. 480
        /\ u.x_offset \in 0 .. 752 /\ u.y_offset \in 0 .. 480
        /\ u.imager_rate \in 1 .. 100 /\ u.trig_rate \in 1 .. 100
    <3>1. /\ c.register_set \in {"primary", "alternate", "both"}
          /\ c.width \in 1 .. 752 /\ c.height \in 1 .. 480
          /\ c.x_offset \in 0 .. 752 /\ c.y_offset \in 0 .. 480
          /\ c.imager_rate \in 1 .. 100 /\ c.trig_rate \in 1 .. 100
      BY Zenon DEF InRange
    <3> QED BY <1>3, <3>1, SMT
  <2>3. /\ u.black_level \in -127 .. 127 /\ u.black_level_filter_length \in 0 .. 7
        /\ u.black_level_step_size \in 0 .. 31 /\ u.brightness \in 1 .. 64
    BY <1>4, Zenon DEF InRange
  <2>4. /\ u.mirror_x \in BOOLEAN /\ u.mirror_y \in BOOLEAN /\ u.rotate_180 \in BOOLEAN
        /\ u.auto_black_level \in BOOLEAN /\ u.test_pattern \in BOOLEAN
        /\ u.ext_trig \in BOOLEAN /\ u.trig_timestamp_topic \in BOOLEAN
        /\ u.rising_edge_trig \in BOOLEAN
    BY <1>5, Zenon DEF InRange
  <2> QED BY <1>0, <1>10, <1>11, <2>1, <2>2, <2>3, <2>4, Zenon DEF InRange
<1> QED BY <1>12 DEF u

-----------------------------------------------------------------------------
(* The search for the blanking, and the values of the registers *)

\* A set of natural numbers that is not empty has a least element.
LEMMA LeastOf ==
    ASSUME NEW T, T \subseteq Nat, T # {}
    PROVE  \E x \in T : \A y \in T : x <= y
<1>1. PICK x \in T : \A y \in T : ~(<<y, x>> \in OpToRel(<, Nat))
  BY NatLessThanWellFounded, WFMin, Zenon
<1>2. \A y \in T : ~(y < x)
  BY <1>1 DEF OpToRel
<1> QED BY <1>2

\* A clamped number is within its limits.
LEMMA ClampInRange ==
    ASSUME NEW v \in Int, NEW low \in Int, NEW high \in Int, low <= high
    PROVE  Clamp(v, low, high) \in low .. high
  BY DEF Clamp

\* Rounded division gives an integer.
LEMMA RoundedInt ==
    ASSUME NEW a \in Int, NEW b \in Nat \ {0}
    PROVE  Rounded(a, b) \in Int
<1>1. 2 * b \in Nat \ {0} /\ 2 * a + b \in Int
  OBVIOUS
<1> QED BY <1>1, Remainder DEF Rounded

\* Kept folded: the provers count large numbers in unary.
Rates == 1 .. 100
Vblanks == MinVblank .. MaxVblank
RowTicks == 101 .. 1774

\* Windows and blankings are numbers, and a row has a positive number of ticks.
LEMMA Sizes ==
    /\ Widths \subseteq Nat /\ Heights \subseteq Nat
    /\ Hblanks \subseteq Nat /\ Vblanks \subseteq Nat /\ RowTicks \subseteq Nat \ {0}
    /\ MinVblank \in Int /\ MaxVblank \in Int /\ MinVblank <= MaxVblank
    /\ \A x \in Widths, h \in Hblanks : x + h \in RowTicks
<1>1. Widths \subseteq Nat /\ Heights \subseteq Nat /\ Hblanks \subseteq Nat
  BY SMT DEF Widths, Heights, Hblanks
<1>2. MinVblank \in Int /\ MaxVblank \in Int /\ MinVblank <= MaxVblank
  BY SMT DEF MinVblank, MaxVblank
<1>3. Vblanks \subseteq Nat
  BY SMT DEF Vblanks, MinVblank, MaxVblank
<1>4. RowTicks \subseteq Nat \ {0}
  BY SMT DEF RowTicks
<1>5. ASSUME NEW x \in Widths, NEW h \in Hblanks PROVE x + h \in RowTicks
  BY SMT DEF Widths, Hblanks, RowTicks
<1> QED BY <1>1, <1>2, <1>3, <1>4, <1>5, Zenon

\* The frame period asked for is a number of ticks.
LEMMA TargetNat == ASSUME NEW rate \in Rates PROVE Target(rate) \in Nat
  BY SMT DEF Target, Rates

\* A binning that is known is by 1, 2 or 4.
LEMMA BinShifts ==
    ASSUME NEW n, BinShift(n) # -1
    PROVE  BinShift(n) \in {0, 1, 2}
<1>1. CASE n = 1
  BY <1>1 DEF BinShift
<1>2. CASE n = 2
  BY <1>2 DEF BinShift
<1>3. CASE n = 4
  BY <1>3 DEF BinShift
<1>4. CASE n \notin {1, 2, 4}
  BY <1>4 DEF BinShift
<1> QED BY <1>1, <1>2, <1>3, <1>4

\* The vertical blanking is within the limits of the imager.
LEMMA VblankInRange ==
    ASSUME NEW x \in Widths, NEW y \in Heights, NEW h \in Hblanks, NEW rate \in Rates
    PROVE  Vblank(x, y, rate, h) \in Vblanks
<1>1. Target(rate) - 4 \in Int
  <2>1. \A t \in Nat : t - 4 \in Int
    OBVIOUS
  <2> QED BY <2>1, TargetNat, Zenon
<1>2. Rounded(Target(rate) - 4, x + h) \in Int
  <2>1. x + h \in Nat \ {0}
    BY Sizes, Zenon
  <2> QED BY <1>1, <2>1, RoundedInt, Zenon
<1>3. Rounded(Target(rate) - 4, x + h) - y \in Int
  <2>1. \A r \in Int, n \in Nat : r - n \in Int
    OBVIOUS
  <2>2. y \in Nat
    BY Sizes, Zenon
  <2> QED BY <1>2, <2>1, <2>2, Zenon
<1> QED BY <1>3, Sizes, ClampInRange, Zenon DEF Vblank, Vblanks

(***************************************************************************)
(* The longest blanking always fits the data rate.                         *)
(***************************************************************************)
LEMMA LongestFits ==
    ASSUME NEW x \in Widths, NEW b \in {0, 1, 2}
    PROVE  \E h \in Hblanks : RateFits(x, b, h)
<1>1. x \in 1 .. 752
  BY DEF Widths
<1>2. PICK q \in Nat : q = x \div 2^b /\ q <= x
  <2>1. 2^0 = 1 /\ 2^1 = 2 /\ 2^2 = 4
    BY SMT
  <2>2. x \div 1 \in 0 .. x /\ x \div 2 \in 0 .. x /\ x \div 4 \in 0 .. x
    BY <1>1, SMT
  <2>3. x \div 2^b \in 0 .. x
    <3>1. CASE b = 0
      BY <2>1, <2>2, <3>1, Zenon
    <3>2. CASE b = 1
      BY <2>1, <2>2, <3>2, Zenon
    <3>3. CASE b = 2
      BY <2>1, <2>2, <3>3, Zenon
    <3> QED BY <3>1, <3>2, <3>3, Zenon
  <2> QED BY <1>1, <2>3, SMT
<1>3. 128 * (70 + q) <= 90 * (x + 1022)
  BY <1>1, <1>2, SMT
<1>4. 128 * (70 + x \div 2^b) <= 90 * (x + 1022)
  BY <1>2, <1>3, SMT
<1>5. 1022 \in Hblanks /\ RateFits(x, b, 1022)
  BY <1>4, SMT DEF RateFits, Hblanks
<1> QED BY <1>5

\* The error of a frame period is a number.
LEMMA ErrorNat ==
    ASSUME NEW x \in Widths, NEW y \in Heights, NEW h \in Hblanks, NEW rate \in Rates
    PROVE  Error(x, y, rate, h) \in Nat
<1>1. PICK v \in Nat : v = Vblank(x, y, rate, h)
  BY VblankInRange, Sizes, Zenon
<1>2. PICK t \in Nat : t = Target(rate)
  BY TargetNat, Zenon
<1>3. x + h \in Int /\ v + y \in Int
  BY Sizes, SMT
<1>4. (x + h) * (v + y) \in Int
  BY <1>3, Products
<1>5. Tics(x, y, rate, h) = (x + h) * (v + y) + 4
  BY <1>1, Zenon DEF Tics
<1>6. Tics(x, y, rate, h) \in Int
  <2>1. \A p \in Int : p + 4 \in Int
    OBVIOUS
  <2> QED BY <1>4, <1>5, <2>1, Zenon
<1>7. Tics(x, y, rate, h) - Target(rate) \in Int
  <2>1. \A p \in Int, n \in Nat : p - n \in Int
    OBVIOUS
  <2> QED BY <1>2, <1>6, <2>1, Zenon
<1> QED BY <1>7, SMT DEF Error

(***************************************************************************)
(* The search finds a blanking: some fit the data rate, and of those that  *)
(* do one has the smallest error and is the first with it.                 *)
(***************************************************************************)
LEMMA HblankFound ==
    ASSUME NEW x \in Widths, NEW y \in Heights, NEW b \in {0, 1, 2}, NEW rate \in Rates
    PROVE  Hblank(x, y, b, rate) \in Hblanks
<1> DEFINE H == {h \in Hblanks : RateFits(x, b, h)}
           error == [h \in H |-> Error(x, y, rate, h)]
           E == {error[h] : h \in H}
<1>1. H # {} /\ H \subseteq Hblanks /\ H \subseteq Nat
  BY LongestFits, Sizes, Zenon
<1>2. ASSUME NEW h \in H PROVE error[h] \in Nat
  BY ErrorNat, Zenon
<1>3. DOMAIN error = H
  BY Zenon
<1>4. Hblank(x, y, b, rate) =
        CHOOSE k \in DOMAIN error :
          \A g \in DOMAIN error : error[k] < error[g] \/ (error[k] = error[g] /\ k <= g)
  BY Zenon DEF Hblank
<1> HIDE DEF error, H
<1>5. PICK e \in E : \A f \in E : e <= f
  <2>1. E \subseteq Nat /\ E # {}
    BY <1>1, <1>2, Zenon
  <2> HIDE DEF E
  <2> QED BY <2>1, LeastOf, Zenon
<1>6. PICK h \in {h \in H : error[h] = e} : \A g \in {g \in H : error[g] = e} : h <= g
  <2> DEFINE F == {h \in H : error[h] = e}
  <2>1. F \subseteq Nat /\ F # {}
    BY <1>1, <1>5, Zenon
  <2> HIDE DEF F
  <2>2. \E h \in F : \A g \in F : h <= g
    BY <2>1, LeastOf, Zenon
  <2> QED BY <2>2, Zenon DEF F
<1>7. \A g \in H : error[h] < error[g] \/ (error[h] = error[g] /\ h <= g)
  <2> TAKE g \in H
  <2>1. \A m, n \in Nat : m <= n => m < n \/ m = n
    OBVIOUS
  <2>2. error[h] \in Nat /\ error[g] \in Nat /\ error[h] = e /\ e <= error[g]
    BY <1>2, <1>5, <1>6, Zenon
  <2>3. error[g] = e => h <= g
    BY <1>6, Zenon
  <2> QED BY <2>1, <2>2, <2>3, Zenon
<1>8. Hblank(x, y, b, rate) \in H
  BY <1>3, <1>4, <1>6, <1>7, Zenon
<1> QED BY <1>1, <1>8, Zenon

\* The length of a row in ticks, and the vertical blanking.
Hb(s) == Hblank(Wide(s), High(s), BinShift(s.horizontal_binning), s.imager_rate)
Vb(s) == Vblank(Wide(s), High(s), s.imager_rate, Hb(s))
Line(s) == Wide(s) + Hb(s)

(***************************************************************************)
(* The window and blanking of settings that setMode accepts.               *)
(***************************************************************************)
LEMMA WindowInRange ==
    ASSUME NEW c, InRange(c), NEW s, SettingsInRange(c, s), ~Refused(s)
    PROVE  /\ Wide(s) \in Widths /\ High(s) \in Heights
           /\ Hb(s) \in Hblanks /\ Vb(s) \in Vblanks
           /\ Line(s) \in RowTicks
<1>1. Wide(s) \in Widths /\ High(s) \in Heights
  BY Zenon DEF Refused
<1>2. BinShift(s.horizontal_binning) \in {0, 1, 2}
  <2>1. BinShift(s.horizontal_binning) # -1
    BY Zenon DEF Refused
  <2> QED BY <2>1, BinShifts, Zenon
<1>3. s.imager_rate \in Rates
  BY Zenon DEF SettingsInRange, Rates
<1>4. Hb(s) \in Hblanks
  BY <1>1, <1>2, <1>3, HblankFound, Zenon DEF Hb
<1>5. Line(s) \in RowTicks
  BY <1>1, <1>4, Sizes, Zenon DEF Line
<1>6. Vb(s) \in Vblanks
  BY <1>1, <1>3, <1>4, VblankInRange, Zenon DEF Vb
<1> QED BY <1>1, <1>4, <1>5, <1>6, Zenon

(***************************************************************************)
(* An exposure as a number of rows: within a row of the one asked for,     *)
(* unless that is shorter than a row or longer than the register holds.    *)
(***************************************************************************)
LEMMA LinesBounds ==
    ASSUME NEW e \in Nat, NEW line \in Nat \ {0}, NEW limit \in Nat \ {0}
    PROVE  /\ Lines(e, line, limit) \in 1 .. limit
           /\ \/ Near(Lines(e, line, limit), line, e)
              \/ Lines(e, line, limit) = limit /\ (16 * e) \div line > limit
<1>1. PICK a \in Nat : a = 16 * e
  OBVIOUS
<1>2. PICK q \in Int : q = a \div line
  BY Remainder
<1>3. a % line \in 0 .. line - 1 /\ a = line * q + (a % line)
  BY <1>2, Remainder
<1>4. line * q \in Int /\ line * q = q * line
  BY <1>2
<1>5. line * q <= a /\ a < line * q + line
  BY <1>3, <1>4
<1>6. q >= 0
  <2>1. q <= -1 => line * q <= line * (-1)
    BY Products
  <2> QED BY <2>1, <1>5
<1>7. q < 1 => q = 0 /\ line > a
  BY <1>5, <1>6
<1>8. Lines(e, line, limit) = Clamp(q, 1, limit)
  BY <1>1, <1>2, Zenon DEF Lines
<1>9. CASE q < 1
  <2>1. Clamp(q, 1, limit) = 1
    BY <1>9 DEF Clamp
  <2> QED BY <1>1, <1>7, <1>8, <1>9, <2>1 DEF Near
<1>10. CASE q > limit
  <2>1. Clamp(q, 1, limit) = limit
    BY <1>10 DEF Clamp
  <2> QED BY <1>1, <1>2, <1>8, <1>10, <2>1
<1>11. CASE q \in 1 .. limit
  <2>1. Clamp(q, 1, limit) = q
    BY <1>11 DEF Clamp
  <2>2. q * line \in a - line .. a
    BY <1>4, <1>5
  <2> QED BY <1>1, <1>8, <1>11, <2>1, <2>2 DEF Near
<1> QED BY <1>9, <1>10, <1>11

\* An exposure that dynamic reconfigure lets through fits the register.
LEMMA ExposureFits ==
    ASSUME NEW e \in 0 .. LongestExposure, NEW line \in RowTicks
    PROVE  (16 * e) \div line <= 32765
<1>1. 16 * e <= 1600000 /\ 16 * e \in Nat
  BY SMT DEF LongestExposure
<1>2. line >= 101 /\ line \in Nat
  BY SMT DEF RowTicks
<1>3. PICK q \in Int : q = (16 * e) \div line
  BY <1>1, <1>2, SMT
<1>4. line * q \in Int /\ line * q <= 16 * e
  BY <1>1, <1>2, <1>3, SMT
<1>5. q >= 32766 => line * q >= 101 * 32766
  <2>1. q >= 32766 => line * 32766 <= line * q
    BY <1>2, Products, SMT
  <2> QED BY <1>2, <2>1, SMT
<1> QED BY <1>1, <1>3, <1>4, <1>5, SMT

\* The exposure written is near the one asked for, whatever the imager.
LEMMA ExposureHeld ==
    ASSUME NEW e \in 0 .. LongestExposure, NEW line \in RowTicks, NEW v, NEW d
    PROVE  Near(Lines(e, line, MaxShutter(v, d)), line, e)
<1> DEFINE limit == MaxShutter(v, d)
           q == (16 * e) \div line
<1>1. line \in Nat \ {0}
  BY Sizes, Zenon
<1>2. e \in Nat
  BY SMT
<1>3. limit \in Nat \ {0}
  BY SMT DEF MaxShutter
<1>4. ~(q > limit)
  <2>1. limit >= 32765
    BY SMT DEF MaxShutter
  <2>2. q \in Int
    BY <1>1, <1>2, SMT
  <2>3. q <= 32765
    BY ExposureFits
  <2> HIDE DEF limit, q
  <2> QED BY <1>3, <2>1, <2>2, <2>3, SMT
<1> HIDE DEF limit, q
<1>5. Near(Lines(e, line, limit), line, e)
  BY <1>1, <1>2, <1>3, <1>4, LinesBounds, Zenon DEF q
<1> QED BY <1>5, Zenon DEF limit

(***************************************************************************)
(* The frame period is within half a row of the one asked for, as far as   *)
(* the limits of the vertical blanking allow.                              *)
(***************************************************************************)
LEMMA VblankBounds ==
    ASSUME NEW x \in Widths, NEW y \in Heights, NEW h \in Hblanks, NEW rate \in Rates
    PROVE  LET late == (x + h) * (y + Vblank(x, y, rate, h)) - Target(rate)
           IN  \/ 2 * late \in -(x + h) - 8 .. (x + h) + 8
               \/ Vblank(x, y, rate, h) = MinVblank /\ late > 0
               \/ Vblank(x, y, rate, h) = MaxVblank /\ late < 0
<1>1. PICK line \in RowTicks : line = x + h
  BY Sizes, Zenon
<1>2. PICK t \in Nat : t = Target(rate)
  BY TargetNat, Zenon
<1>3. line \in Nat \ {0}
  BY Sizes, Zenon
<1>4. PICK v \in Vblanks : v = Vblank(x, y, rate, h)
  BY VblankInRange, Zenon
<1>5. t - 4 \in Int
  BY <1>2
<1>6. PICK r \in Int : r = Rounded(t - 4, line)
  BY <1>3, <1>5, RoundedInt, Zenon
<1>7. y \in Nat /\ v \in Nat
  BY Sizes, Zenon
<1>8. v = Clamp(r - y, MinVblank, MaxVblank)
  BY <1>1, <1>2, <1>4, <1>6, Zenon DEF Vblank
<1>9. /\ line * r \in Int
      /\ 2 * (line * r) <= 2 * (t - 4) + line
      /\ 2 * (line * r) > 2 * (t - 4) - line
  <2>1. 2 * line \in Nat \ {0} /\ 2 * (t - 4) + line \in Int
    BY <1>3, <1>5
  <2>2. r = (2 * (t - 4) + line) \div (2 * line)
    BY <1>6, Zenon DEF Rounded
  <2>3. PICK m \in 0 .. 2 * line - 1 : 2 * (t - 4) + line = (2 * line) * r + m
    BY <2>1, <2>2, Remainder
  <2>4. (2 * line) * r = 2 * (line * r) /\ line * r \in Int
    BY <1>3
  <2> QED BY <1>3, <1>5, <2>3, <2>4
<1>10. PICK p \in Int : p = line * (y + v)
  BY <1>3, <1>7
<1>11. \/ v = r - y
       \/ v = MinVblank /\ r - y < v
       \/ v = MaxVblank /\ r - y > v
  BY <1>8, Zenon DEF Clamp
<1>12. CASE v = r - y
  <2>1. y + v = r
    BY <1>7, <1>12
  <2>2. p = line * r
    BY <1>10, <2>1
  <2>3. 2 * (p - t) \in -line - 8 .. line + 8
    BY <1>2, <1>3, <1>9, <2>2
  <2> QED BY <1>1, <1>2, <1>4, <1>10, <2>3, Zenon
<1>13. CASE v = MinVblank /\ r - y < v
  <2>1. r + 1 <= y + v
    BY <1>7, <1>13
  <2>2. line * (r + 1) <= p /\ line * (r + 1) = line * r + line
    BY <1>3, <1>7, <1>10, <2>1, Products
  <2>3. line > 8
    BY SMT DEF RowTicks
  <2>4. p - t > 0
    BY <1>2, <1>3, <1>9, <2>2, <2>3
  <2> QED BY <1>1, <1>2, <1>4, <1>10, <1>13, <2>4, Zenon
<1>14. CASE v = MaxVblank /\ r - y > v
  <2>1. y + v <= r - 1
    BY <1>7, <1>14
  <2>2. p <= line * (r - 1) /\ line * (r - 1) = line * r - line
    BY <1>3, <1>7, <1>10, <2>1, Products
  <2>3. p - t < 0
    BY <1>2, <1>3, <1>9, <2>2
  <2> QED BY <1>1, <1>2, <1>4, <1>10, <1>14, <2>3, Zenon
<1> QED BY <1>11, <1>12, <1>13, <1>14, Zenon

-----------------------------------------------------------------------------
(* The inductive invariant *)

TimingNames == {"width", "height", "hblank", "vblank", "shutter"}
Switches == {"agc_aec", "companding"}


\* The value x of a register is one the imager can use.
ContextValueOK(n, x) ==
    /\ n = "shutter" => x \in Shutters
    /\ n = "width" => x \in Widths
    /\ n = "height" => x \in Heights
    /\ n = "hblank" => x \in 1 .. MaxHblank
    /\ n = "vblank" => x \in 1 .. MaxVblank
ValueOK(r, x) ==
    /\ \A d \in Contexts, n \in TimingNames : r = <<d, n>> => ContextValueOK(n, x)
    /\ r = <<"both", "max_shutter">> => x \in LongestShutters

\* The value x of register n of a context is what the settings s ask for.
WindowWanted(s, n, x) ==
    /\ n = "width" => x = Wide(s)
    /\ n = "height" => x = High(s)
    /\ n = "hblank" => x = Hb(s)
    /\ n = "vblank" => x = Vb(s)
    /\ n = "gain" => x = s.gain
    /\ n = "read_mode" => x = ReadMode(BinShift(s.horizontal_binning),
                                       BinShift(s.vertical_binning),
                                       s.mirror_x # s.rotate_180, s.mirror_y # s.rotate_180)
ExposureWanted(v, d, s, n, x) ==
    n = "shutter" => x = Lines(s.exposure, Line(s), MaxShutter(v, d))
SwitchWanted(d, s, n, x) ==
    /\ n = "agc_aec" => x[d] = [agc |-> s.auto_gain, aec |-> s.auto_exposure]
    /\ n = "companding" => x[d] = s.companding
LongestWanted(c, v, x) ==
    ~Both(c) => LET s == PrimarySettings(c)
                IN  x = Lines(MaxExposure(s), Line(s), MaxMaxShutter(v, "primary"))

ContextNames == {"width", "height", "hblank", "vblank", "shutter", "gain", "read_mode"}

\* Every context in use is given what it wants by the value x of register r.
Wanted(c, v, r, x) ==
    /\ \A d \in Used(c), n \in ContextNames :
         r = <<d, n>> => /\ WindowWanted(SettingsOf(c, d), n, x)
                         /\ ExposureWanted(v, d, SettingsOf(c, d), n, x)
    /\ \A d \in Used(c), n \in Switches : r = <<"both", n>> => SwitchWanted(d, SettingsOf(c, d), n, x)
    /\ r = <<"both", "max_shutter">> => LongestWanted(c, v, x)
    /\ r = <<"both", "test_pattern">> => PatternOn(x) = c.test_pattern

\* The registers that the settings decide.
Decided(c) == (Used(c) \X ContextNames) \cup ({"both"} \X (Switches \cup {"max_shutter"}))

Follows(p, k) == \E j \in 1 .. Len(p) : j > k /\ p[j].reg = p[k].reg
Pending(p, r) == \E k \in 1 .. Len(p) : p[k].reg = r

\* A write of plan p gives a register what is wanted or is followed by
\* another one of the register.
LastWanted(c, v, p) ==
    \A k \in 1 .. Len(p) : Wanted(c, v, p[k].reg, p[k].value) \/ Follows(p, k)

\* A register holds what is wanted, or has still to be written, or it is not
\* known what it holds.
Provided(r) == r \in doubtful \/ Wanted(config, version, r, regs[r]) \/ Pending(plan, r)

IsSeq(p) == \E S : p \in Seq(S)
PlanOK(p) ==
    /\ IsSeq(p)
    /\ \A k \in 1 .. Len(p) : p[k].reg \in Registers /\ ValueOK(p[k].reg, p[k].value)

\* The settings are being written, or are written.
Settling ==
    \/ pc = "settings" /\ ~Impossible(config, version)
    \/ pc \in {"check", "pattern"}
    \/ SetUp
Testing == pc = "pattern" \/ SetUp

RegistersInv ==
    /\ DOMAIN regs = Registers
    /\ \A r \in Registers : ValueOK(r, regs[r])
    /\ doubtful \subseteq Registers
    /\ PlanOK(plan)
ControlInv ==
    /\ sensor0 \in {7, Unused}
    /\ state \in {"CLOSED", "OPENED", "RUNNING"}
    /\ pc \in {"idle", "resolution", "version", "settings", "check", "pattern"}
    /\ pc # "idle" => state = "CLOSED"
    /\ pc \notin {"idle", "resolution"} => ~restarted
    /\ plan # <<>> => pc \in {"settings", "pattern"}
    /\ InRange(config)
SizeInv ==
    /\ cols \in Nat /\ rows \in Nat
    /\ pc \in {"version", "settings", "check", "pattern"} \/ SetUp =>
         cols = config.width /\ rows = config.height
SettingsInv ==
    Settling => /\ ~Impossible(config, version)
                /\ LastWanted(config, version, plan)
                /\ \A r \in Decided(config) : Provided(r)
PatternInv ==
    /\ pc \in {"version", "settings", "check"} =>
         /\ ~PatternOn(regs[<<"both", "test_pattern">>])
         /\ ~Pending(plan, <<"both", "test_pattern">>)
    /\ pc = "version" => regs = Reset /\ doubtful = {}
    /\ Testing => Provided(<<"both", "test_pattern">>)
FirmwareInv ==
    /\ pc \in {"check", "pattern"} \/ SetUp => (Both(config) => sensor0 = 7)
    /\ state = "RUNNING" /\ ~restarted => triggermode = TrigMode(config)

IInv == RegistersInv /\ ControlInv /\ SizeInv /\ SettingsInv /\ PatternInv /\ FirmwareInv

-----------------------------------------------------------------------------
(* The plan of an opening *)

Mirrored(s) ==
    ReadMode(BinShift(s.horizontal_binning), BinShift(s.vertical_binning),
             s.mirror_x # s.rotate_180, s.mirror_y # s.rotate_180)
Unmirrored(s) ==
    ReadMode(BinShift(s.horizontal_binning), BinShift(s.vertical_binning), FALSE, FALSE)
BlackControl(s) ==
    [filter |-> s.black_level_filter_length, manual |-> ~s.auto_black_level]
CompandingValue(d, s, cache) == [cache.companding EXCEPT ![d] = s.companding]
AgcAecValue(d, s, cache) ==
    [cache.agc_aec EXCEPT ![d] = [agc |-> s.auto_gain, aec |-> s.auto_exposure]]

\* Write k of plan p puts x into register n of context d.  Both are named so
\* that the lemma can be cited for a plan p.
Puts(p, k, d, n, x) == p[k].reg = <<d, n>> /\ p[k].value = x
IsSettings(p, v, d, s, cache) == p = Settings(v, d, s, cache)

\* The seventeen writes of setImagerSettings, in their order.
LEMMA SettingsElements ==
    ASSUME NEW v, NEW d, NEW s, NEW cache, NEW p, IsSettings(p, v, d, s, cache)
    PROVE  /\ IsSeq(p)
           /\ Len(p) = 17
           /\ Puts(p, 1, d, "vblank", Vb(s))
           /\ Puts(p, 2, d, "hblank", Hb(s))
           /\ Puts(p, 3, d, "column", Startx(s))
           /\ Puts(p, 4, d, "row", Starty(s))
           /\ Puts(p, 5, d, "width", Wide(s))
           /\ Puts(p, 6, d, "height", High(s))
           /\ Puts(p, 7, d, "read_mode", Unmirrored(s))
           /\ Puts(p, 8, "both", "companding", CompandingValue(d, s, cache))
           /\ Puts(p, 9, "both", "agc_aec", AgcAecValue(d, s, cache))
           /\ Puts(p, 10, d, "gain", s.gain)
           /\ Puts(p, 11, d, "read_mode", Mirrored(s))
           /\ Puts(p, 12, d, "shutter", Lines(s.exposure, Line(s), MaxShutter(v, d)))
           /\ Puts(p, 13, "both", "black_control", BlackControl(s))
           /\ Puts(p, 14, "both", "black_value", s.black_level)
           /\ Puts(p, 15, "both", "black_step", s.black_level_step_size)
           /\ Puts(p, 16, "both", "desired_bin", s.brightness)
           /\ Puts(p, 17, "both", "max_shutter",
                   Lines(MaxExposure(s), Line(s), MaxMaxShutter(v, d)))
<1> DEFINE a1 == Write(d, "vblank", Vb(s))
           a2 == Write(d, "hblank", Hb(s))
           a3 == Write(d, "column", Startx(s))
           a4 == Write(d, "row", Starty(s))
           a5 == Write(d, "width", Wide(s))
           a6 == Write(d, "height", High(s))
           a7 == Write(d, "read_mode", Unmirrored(s))
           a8 == Write("both", "companding", CompandingValue(d, s, cache))
           a9 == Write("both", "agc_aec", AgcAecValue(d, s, cache))
           a10 == Write(d, "gain", s.gain)
           a11 == Write(d, "read_mode", Mirrored(s))
           a12 == Write(d, "shutter", Lines(s.exposure, Line(s), MaxShutter(v, d)))
           a13 == Write("both", "black_control", BlackControl(s))
           a14 == Write("both", "black_value", s.black_level)
           a15 == Write("both", "black_step", s.black_level_step_size)
           a16 == Write("both", "desired_bin", s.brightness)
           a17 == Write("both", "max_shutter",
                        Lines(MaxExposure(s), Line(s), MaxMaxShutter(v, d)))
           t == << a1, a2, a3, a4, a5, a6, a7, a8, a9, a10, a11, a12, a13, a14, a15, a16, a17 >>
<1>1. p = t
  BY Zenon DEF IsSettings, Settings, Vb, Hb, Line, Mirrored, Unmirrored, CompandingValue, AgcAecValue,
               BlackControl
<1>2. ASSUME NEW q, NEW k, NEW e, NEW n, NEW x, q[k] = Write(e, n, x)
      PROVE  Puts(q, k, e, n, x)
  BY <1>2 DEF Puts, Write
<1> HIDE DEF a1, a2, a3, a4, a5, a6, a7, a8, a9, a10, a11, a12, a13, a14, a15, a16, a17
<1>3. t \in Seq({a1, a2, a3, a4, a5, a6, a7, a8, a9, a10, a11, a12, a13, a14, a15, a16, a17})
  BY SMT
<1>4. Len(t) = 17
  BY SMT
<1>5. /\ t[1] = a1 /\ t[2] = a2 /\ t[3] = a3 /\ t[4] = a4 /\ t[5] = a5 /\ t[6] = a6
      /\ t[7] = a7 /\ t[8] = a8 /\ t[9] = a9 /\ t[10] = a10 /\ t[11] = a11 /\ t[12] = a12
      /\ t[13] = a13 /\ t[14] = a14 /\ t[15] = a15 /\ t[16] = a16 /\ t[17] = a17
  BY SMT
<1> HIDE DEF t
<1>6. IsSeq(t)
  BY <1>3, Zenon DEF IsSeq
<1>7. /\ Puts(t, 1, d, "vblank", Vb(s)) /\ Puts(t, 2, d, "hblank", Hb(s))
      /\ Puts(t, 3, d, "column", Startx(s)) /\ Puts(t, 4, d, "row", Starty(s))
  BY <1>2, <1>5, Zenon DEF a1, a2, a3, a4
<1>8. /\ Puts(t, 5, d, "width", Wide(s)) /\ Puts(t, 6, d, "height", High(s))
      /\ Puts(t, 7, d, "read_mode", Unmirrored(s))
      /\ Puts(t, 8, "both", "companding", CompandingValue(d, s, cache))
      /\ Puts(t, 9, "both", "agc_aec", AgcAecValue(d, s, cache))
  BY <1>2, <1>5, Zenon DEF a5, a6, a7, a8, a9
<1>9. /\ Puts(t, 10, d, "gain", s.gain) /\ Puts(t, 11, d, "read_mode", Mirrored(s))
      /\ Puts(t, 12, d, "shutter", Lines(s.exposure, Line(s), MaxShutter(v, d)))
      /\ Puts(t, 13, "both", "black_control", BlackControl(s))
  BY <1>2, <1>5, Zenon DEF a10, a11, a12, a13
<1>10. /\ Puts(t, 14, "both", "black_value", s.black_level)
       /\ Puts(t, 15, "both", "black_step", s.black_level_step_size)
  BY <1>2, <1>5, Zenon DEF a14, a15
<1>11. /\ Puts(t, 16, "both", "desired_bin", s.brightness)
       /\ Puts(t, 17, "both", "max_shutter",
               Lines(MaxExposure(s), Line(s), MaxMaxShutter(v, d)))
  BY <1>2, <1>5, Zenon DEF a16, a17
<1> QED BY <1>1, <1>4, <1>6, <1>7, <1>8, <1>9, <1>10, <1>11, Zenon

\* Blankings are positive and at most the largest of the imager.
LEMMA BlankingRanges == Hblanks \subseteq 1 .. MaxHblank /\ Vblanks \subseteq 1 .. MaxVblank
<1>1. ASSUME NEW h \in Hblanks PROVE h \in 1 .. MaxHblank
  BY SMT DEF Hblanks, MaxHblank
<1>2. ASSUME NEW w \in Vblanks PROVE w \in 1 .. MaxVblank
  BY SMT DEF Vblanks, MaxVblank, MinVblank
<1> QED BY <1>1, <1>2, Zenon

\* A value right for a register of a context keeps the types of the registers.
LEMMA ContextValues ==
    ASSUME NEW d \in Contexts, NEW n, NEW x, ContextValueOK(n, x)
    PROVE  ValueOK(<<d, n>>, x)
<1>1. <<d, n>> # <<"both", "max_shutter">>
  BY SMT DEF Contexts
<1>2. ASSUME NEW e \in Contexts, NEW m \in TimingNames, <<d, n>> = <<e, m>>
      PROVE  ContextValueOK(m, x)
  <2>1. m = n
    BY <1>2, SMT
  <2> QED BY <2>1, Zenon
<1> QED BY <1>1, <1>2, Zenon DEF ValueOK

\* So does a value for a register that both contexts share.
LEMMA SharedValues ==
    ASSUME NEW n, NEW x, n = "max_shutter" => x \in LongestShutters
    PROVE  ValueOK(<<"both", n>>, x)
<1>1. \A e \in Contexts, m \in TimingNames : <<"both", n>> # <<e, m>>
  BY SMT DEF Contexts
<1>2. <<"both", n>> = <<"both", "max_shutter">> => n = "max_shutter"
  BY SMT
<1> QED BY <1>1, <1>2, Zenon DEF ValueOK

\* The contexts in use are contexts of the imager.
LEMMA UsedContexts == ASSUME NEW c PROVE Used(c) \subseteq Contexts
  BY DEF Used, Contexts

\* A register of a context holds what is wanted when it suits that context.
LEMMA ContextWanted ==
    ASSUME NEW c, NEW v, NEW d \in Contexts, NEW n, NEW x,
           WindowWanted(SettingsOf(c, d), n, x), ExposureWanted(v, d, SettingsOf(c, d), n, x)
    PROVE  Wanted(c, v, <<d, n>>, x)
<1>1. /\ <<d, n>> # <<"both", "max_shutter">> /\ <<d, n>> # <<"both", "test_pattern">>
      /\ \A m : <<d, n>> # <<"both", m>>
  BY SMT DEF Contexts
<1>2. ASSUME NEW e \in Used(c), NEW m \in ContextNames, <<d, n>> = <<e, m>>
      PROVE  /\ WindowWanted(SettingsOf(c, e), m, x)
             /\ ExposureWanted(v, e, SettingsOf(c, e), m, x)
  <2>1. e = d /\ m = n
    BY <1>2, SMT
  <2> QED BY <2>1, Zenon
<1> QED BY <1>1, <1>2, Zenon DEF Wanted

\* A shared register holds what is wanted when it suits every context in use.
LEMMA SharedWanted ==
    ASSUME NEW c, NEW v, NEW n, NEW x,
           n \in Switches => \A d \in Used(c) : SwitchWanted(d, SettingsOf(c, d), n, x),
           n = "max_shutter" => LongestWanted(c, v, x),
           n = "test_pattern" => PatternOn(x) = c.test_pattern
    PROVE  Wanted(c, v, <<"both", n>>, x)
<1>1. \A e \in Used(c) : \A m : <<"both", n>> # <<e, m>>
  BY UsedContexts, SMT DEF Contexts
<1>2. \A m : <<"both", n>> = <<"both", m>> => m = n
  BY SMT
<1> QED BY <1>1, <1>2, Zenon DEF Wanted

\* What the tables of mt9v.cpp put into the registers that hold rows.
LEMMA ShutterValues ==
    ASSUME NEW e \in Nat, NEW line \in RowTicks, NEW v, NEW d
    PROVE  /\ Lines(e, line, MaxShutter(v, d)) \in Shutters
           /\ Lines(e, line, MaxMaxShutter(v, d)) \in LongestShutters
<1>1. /\ MaxShutter(v, d) \in Nat \ {0} /\ MaxShutter(v, d) <= MostRows
      /\ MostRows \in Nat
  BY SMT DEF MaxShutter, MostRows
<1>2. /\ MaxMaxShutter(v, d) \in Nat \ {0} /\ MaxMaxShutter(v, d) <= MostRowsAutomatic
      /\ MostRowsAutomatic \in Nat
  BY SMT DEF MaxMaxShutter, MostRowsAutomatic
<1>3. \A a, b \in Nat : a <= b => 1 .. a \subseteq 1 .. b
  OBVIOUS
<1>4. line \in Nat \ {0}
  BY Sizes, Zenon
<1>5. \A m \in Nat \ {0} : Lines(e, line, m) \in 1 .. m
  BY <1>4, LinesBounds, Zenon
<1>6. \A m \in Nat \ {0} : m \in Nat
  OBVIOUS
<1> QED BY <1>1, <1>2, <1>3, <1>5, <1>6, Zenon DEF Shutters, LongestShutters

\* The exposure of settings in range is a number.
LEMMA ExposureNat ==
    ASSUME NEW c, NEW s, SettingsInRange(c, s)
    PROVE  s.exposure \in Nat
<1>1. s.exposure \in 0 .. LongestExposure
  BY Zenon DEF SettingsInRange
<1> QED BY <1>1, SMT

\* So is the longest automatic exposure.
LEMMA LongestNat ==
    ASSUME NEW c, InRange(c), NEW s, SettingsInRange(c, s)
    PROVE  MaxExposure(s) \in Nat
<1>1. s.imager_rate \in 1 .. 100 /\ s.max_exposure \in Nat
  BY Zenon DEF SettingsInRange
<1>2. \A r \in 1 .. 100 : 990000 \div r \in Nat
  BY SMT
<1> QED BY <1>1, <1>2, SMT DEF MaxExposure

(***************************************************************************)
(* The writes of setImagerSettings for a context that is in use: the       *)
(* registers are given what is wanted, but read_mode at first without the  *)
(* mirror bits, and the switches as the cache has those of the other       *)
(* context.                                                                *)
(***************************************************************************)
LEMMA SettingsWrites ==
    ASSUME NEW c, InRange(c), NEW v, NEW d \in Used(c), NEW cache,
           NEW s, s = SettingsOf(c, d), ~Refused(s),
           NEW p, IsSettings(p, v, d, s, cache)
    PROVE  \A k \in 1 .. 17 :
             /\ p[k].reg \in Registers /\ ValueOK(p[k].reg, p[k].value)
             /\ p[k].reg # <<"both", "test_pattern">>
             /\ \/ Wanted(c, v, p[k].reg, p[k].value)
                \/ k = 7
                \/ k \in 8 .. 9
<1>0. d \in Contexts
  BY UsedContexts, Zenon
<1> DEFINE Good(w) == /\ w.reg \in Registers /\ ValueOK(w.reg, w.value)
                      /\ w.reg # <<"both", "test_pattern">>
           Right(w) == Wanted(c, v, w.reg, w.value)
           Names == {"vblank", "hblank", "column", "row", "width", "height", "shutter",
                     "gain", "read_mode"}
           SharedNames == {"agc_aec", "companding", "max_shutter", "desired_bin",
                           "black_control", "black_value", "black_step"}
<1>1. SettingsInRange(c, s)
  BY <1>0, SettingsTyped, Zenon
<1>2. /\ Wide(s) \in Widths /\ High(s) \in Heights
      /\ Hb(s) \in Hblanks /\ Vb(s) \in Vblanks /\ Line(s) \in RowTicks
  BY <1>1, WindowInRange, Zenon
<1>3. Hblanks \subseteq 1 .. MaxHblank /\ Vblanks \subseteq 1 .. MaxVblank
  BY BlankingRanges
<1>4. ASSUME NEW n \in Names, NEW x, NEW k, Puts(p, k, d, n, x), ContextValueOK(n, x)
      PROVE  Good(p[k])
  <2>1. <<d, n>> \in Registers /\ <<d, n>> # <<"both", "test_pattern">>
    BY <1>0, SMT DEF Registers, ContextRegisters, Contexts
  <2>2. ValueOK(<<d, n>>, x)
    BY <1>0, <1>4, ContextValues, Zenon
  <2> QED BY <1>4, <2>1, <2>2 DEF Puts
<1>5. ASSUME NEW n, NEW x, NEW k, Puts(p, k, d, n, x), WindowWanted(s, n, x),
             ExposureWanted(v, d, s, n, x)
      PROVE  Right(p[k])
  <2>1. Wanted(c, v, <<d, n>>, x)
    BY <1>0, <1>5, ContextWanted, Zenon
  <2> QED BY <1>5, <2>1 DEF Puts
<1>6. ASSUME NEW n \in SharedNames, NEW x, NEW k, Puts(p, k, "both", n, x),
             n = "max_shutter" => x \in LongestShutters
      PROVE  Good(p[k])
  <2>1. <<"both", n>> \in Registers /\ <<"both", n>> # <<"both", "test_pattern">>
    BY SMT DEF Registers, SharedRegisters
  <2>2. ValueOK(<<"both", n>>, x)
    BY <1>6, SharedValues, Zenon
  <2> QED BY <1>6, <2>1, <2>2 DEF Puts
<1>7. ASSUME NEW n \in SharedNames \ Switches, NEW x, NEW k, Puts(p, k, "both", n, x),
             n = "max_shutter" => LongestWanted(c, v, x)
      PROVE  Right(p[k])
  <2>1. n \notin Switches /\ n # "test_pattern"
    BY SMT
  <2>2. Wanted(c, v, <<"both", n>>, x)
    BY <1>7, <2>1, SharedWanted, Zenon
  <2> QED BY <1>7, <2>2 DEF Puts
<1> HIDE DEF Good, Right
<1>11. Good(p[1]) /\ Right(p[1])
  <2>1. Puts(p, 1, d, "vblank", Vb(s))
    BY SettingsElements, Zenon
  <2>2. ContextValueOK("vblank", Vb(s))
    BY <1>2, <1>3, Zenon DEF ContextValueOK
  <2>3. WindowWanted(s, "vblank", Vb(s)) /\ ExposureWanted(v, d, s, "vblank", Vb(s))
    BY Zenon DEF WindowWanted, ExposureWanted
  <2> QED BY <1>4, <1>5, <2>1, <2>2, <2>3, SMT
<1>12. Good(p[2]) /\ Right(p[2])
  <2>1. Puts(p, 2, d, "hblank", Hb(s))
    BY SettingsElements, Zenon
  <2>2. ContextValueOK("hblank", Hb(s))
    BY <1>2, <1>3, Zenon DEF ContextValueOK
  <2>3. WindowWanted(s, "hblank", Hb(s)) /\ ExposureWanted(v, d, s, "hblank", Hb(s))
    BY Zenon DEF WindowWanted, ExposureWanted
  <2> QED BY <1>4, <1>5, <2>1, <2>2, <2>3, SMT
<1>13. Good(p[3]) /\ Right(p[3])
  <2>1. Puts(p, 3, d, "column", Startx(s))
    BY SettingsElements, Zenon
  <2>2. ContextValueOK("column", Startx(s))
    BY Zenon DEF ContextValueOK
  <2>3. WindowWanted(s, "column", Startx(s)) /\ ExposureWanted(v, d, s, "column", Startx(s))
    BY Zenon DEF WindowWanted, ExposureWanted
  <2> QED BY <1>4, <1>5, <2>1, <2>2, <2>3, SMT
<1>14. Good(p[4]) /\ Right(p[4])
  <2>1. Puts(p, 4, d, "row", Starty(s))
    BY SettingsElements, Zenon
  <2>2. ContextValueOK("row", Starty(s))
    BY Zenon DEF ContextValueOK
  <2>3. WindowWanted(s, "row", Starty(s)) /\ ExposureWanted(v, d, s, "row", Starty(s))
    BY Zenon DEF WindowWanted, ExposureWanted
  <2> QED BY <1>4, <1>5, <2>1, <2>2, <2>3, SMT
<1>15. Good(p[5]) /\ Right(p[5])
  <2>1. Puts(p, 5, d, "width", Wide(s))
    BY SettingsElements, Zenon
  <2>2. ContextValueOK("width", Wide(s))
    BY <1>2, Zenon DEF ContextValueOK
  <2>3. WindowWanted(s, "width", Wide(s)) /\ ExposureWanted(v, d, s, "width", Wide(s))
    BY Zenon DEF WindowWanted, ExposureWanted
  <2> QED BY <1>4, <1>5, <2>1, <2>2, <2>3, SMT
<1>16. Good(p[6]) /\ Right(p[6])
  <2>1. Puts(p, 6, d, "height", High(s))
    BY SettingsElements, Zenon
  <2>2. ContextValueOK("height", High(s))
    BY <1>2, Zenon DEF ContextValueOK
  <2>3. WindowWanted(s, "height", High(s)) /\ ExposureWanted(v, d, s, "height", High(s))
    BY Zenon DEF WindowWanted, ExposureWanted
  <2> QED BY <1>4, <1>5, <2>1, <2>2, <2>3, SMT
<1>17. Good(p[7])
  <2>1. Puts(p, 7, d, "read_mode", Unmirrored(s))
    BY SettingsElements, Zenon
  <2>2. ContextValueOK("read_mode", Unmirrored(s))
    BY Zenon DEF ContextValueOK
  <2> QED BY <1>4, <2>1, <2>2, SMT
<1>18. Good(p[8]) /\ Good(p[9])
  <2>1. /\ Puts(p, 8, "both", "companding", CompandingValue(d, s, cache))
        /\ Puts(p, 9, "both", "agc_aec", AgcAecValue(d, s, cache))
    BY SettingsElements, Zenon
  <2> QED BY <1>6, <2>1, SMT
<1>20. Good(p[10]) /\ Right(p[10])
  <2>1. Puts(p, 10, d, "gain", s.gain)
    BY SettingsElements, Zenon
  <2>2. ContextValueOK("gain", s.gain)
    BY Zenon DEF ContextValueOK
  <2>3. WindowWanted(s, "gain", s.gain) /\ ExposureWanted(v, d, s, "gain", s.gain)
    BY Zenon DEF WindowWanted, ExposureWanted
  <2> QED BY <1>4, <1>5, <2>1, <2>2, <2>3, SMT
<1>21. Good(p[11]) /\ Right(p[11])
  <2>1. Puts(p, 11, d, "read_mode", Mirrored(s))
    BY SettingsElements, Zenon
  <2>2. ContextValueOK("read_mode", Mirrored(s))
    BY Zenon DEF ContextValueOK
  <2>3. WindowWanted(s, "read_mode", Mirrored(s)) /\ ExposureWanted(v, d, s, "read_mode", Mirrored(s))
    BY Zenon DEF WindowWanted, ExposureWanted, Mirrored
  <2> QED BY <1>4, <1>5, <2>1, <2>2, <2>3, SMT
<1>22. Good(p[12]) /\ Right(p[12])
  <2> DEFINE x == Lines(s.exposure, Line(s), MaxShutter(v, d))
  <2>1. Puts(p, 12, d, "shutter", x)
    BY SettingsElements, Zenon
  <2>2. ContextValueOK("shutter", x)
    <3>1. s.exposure \in Nat
      BY <1>1, ExposureNat, Zenon
    <3>2. x \in Shutters
      BY <1>2, <3>1, ShutterValues, Zenon
    <3> QED BY <3>2, Zenon DEF ContextValueOK
  <2>3. WindowWanted(s, "shutter", x) /\ ExposureWanted(v, d, s, "shutter", x)
    BY Zenon DEF WindowWanted, ExposureWanted
  <2> HIDE DEF x
  <2> QED BY <1>4, <1>5, <2>1, <2>2, <2>3, SMT
<1>23. /\ Good(p[13]) /\ Good(p[14]) /\ Good(p[15]) /\ Good(p[16])
       /\ Right(p[13]) /\ Right(p[14]) /\ Right(p[15]) /\ Right(p[16])
  <2>1. /\ Puts(p, 13, "both", "black_control", BlackControl(s))
        /\ Puts(p, 14, "both", "black_value", s.black_level)
        /\ Puts(p, 15, "both", "black_step", s.black_level_step_size)
        /\ Puts(p, 16, "both", "desired_bin", s.brightness)
    BY SettingsElements, Zenon
  <2>2. \A n \in {"black_control", "black_value", "black_step", "desired_bin"} :
          n \in SharedNames \ Switches /\ n # "max_shutter"
    BY SMT DEF Switches
  <2>3. ASSUME NEW n \in {"black_control", "black_value", "black_step", "desired_bin"},
               NEW x, NEW k, Puts(p, k, "both", n, x)
        PROVE  Good(p[k]) /\ Right(p[k])
    <3>1. n \in SharedNames /\ n \in SharedNames \ Switches /\ n # "max_shutter"
      BY <2>2, SMT
    <3> QED BY <1>6, <1>7, <2>3, <3>1, Zenon
  <2> QED BY <2>1, <2>3, SMT
<1>24. Good(p[17]) /\ Right(p[17])
  <2> DEFINE x == Lines(MaxExposure(s), Line(s), MaxMaxShutter(v, d))
  <2>1. Puts(p, 17, "both", "max_shutter", x)
    BY SettingsElements, Zenon
  <2>2. x \in LongestShutters
    BY <1>1, <1>2, LongestNat, ShutterValues, Zenon
  <2>3. LongestWanted(c, v, x)
    <3>1. ~Both(c) => d = "primary"
      BY Zenon DEF Used
    <3> QED BY <3>1, Zenon DEF LongestWanted, SettingsOf
  <2>4. "max_shutter" \in SharedNames /\ "max_shutter" \in SharedNames \ Switches
    BY SMT DEF Switches
  <2> HIDE DEF x
  <2> QED BY <1>6, <1>7, <2>1, <2>2, <2>3, <2>4, Zenon
<1>25. \A k \in 1 .. 17 : Good(p[k])
  BY <1>11, <1>12, <1>13, <1>14, <1>15, <1>16, <1>17, <1>18, <1>20, <1>21, <1>22, <1>23,
     <1>24, SMT
<1>26. \A k \in 1 .. 17 : Right(p[k]) \/ k = 7 \/ k \in 8 .. 9
  BY <1>11, <1>12, <1>13, <1>14, <1>15, <1>16, <1>20, <1>21, <1>22, <1>23, <1>24, SMT
<1> QED BY <1>25, <1>26, Zenon DEF Good, Right

\* setImagerSettings writes every register that the settings decide.
LEMMA SettingsPending ==
    ASSUME NEW v, NEW d, NEW s, NEW cache, NEW p, IsSettings(p, v, d, s, cache)
    PROVE  /\ \A n \in ContextNames : Pending(p, <<d, n>>)
           /\ \A n \in Switches \cup {"max_shutter"} : Pending(p, <<"both", n>>)
<1>1. ASSUME NEW k \in 1 .. 17, NEW e, NEW n, NEW x, Puts(p, k, e, n, x)
      PROVE  Pending(p, <<e, n>>)
  <2>1. Len(p) = 17
    BY SettingsElements, Zenon
  <2> QED BY <1>1, <2>1, Zenon DEF Puts, Pending
<1>2. /\ Pending(p, <<d, "vblank">>) /\ Pending(p, <<d, "hblank">>)
      /\ Pending(p, <<d, "width">>) /\ Pending(p, <<d, "height">>)
  <2>1. /\ Puts(p, 1, d, "vblank", Vb(s)) /\ Puts(p, 2, d, "hblank", Hb(s))
        /\ Puts(p, 5, d, "width", Wide(s)) /\ Puts(p, 6, d, "height", High(s))
    BY SettingsElements, Zenon
  <2>2. 1 \in 1 .. 17 /\ 2 \in 1 .. 17 /\ 5 \in 1 .. 17 /\ 6 \in 1 .. 17
    BY SMT
  <2> QED BY <1>1, <2>1, <2>2, Zenon
<1>3. /\ Pending(p, <<d, "gain">>) /\ Pending(p, <<d, "read_mode">>)
      /\ Pending(p, <<d, "shutter">>)
  <2>1. /\ Puts(p, 10, d, "gain", s.gain) /\ Puts(p, 11, d, "read_mode", Mirrored(s))
        /\ Puts(p, 12, d, "shutter", Lines(s.exposure, Line(s), MaxShutter(v, d)))
    BY SettingsElements, Zenon
  <2>2. 10 \in 1 .. 17 /\ 11 \in 1 .. 17 /\ 12 \in 1 .. 17
    BY SMT
  <2> QED BY <1>1, <2>1, <2>2, Zenon
<1>4. /\ Pending(p, <<"both", "companding">>) /\ Pending(p, <<"both", "agc_aec">>)
      /\ Pending(p, <<"both", "max_shutter">>)
  <2>1. /\ Puts(p, 8, "both", "companding", CompandingValue(d, s, cache))
        /\ Puts(p, 9, "both", "agc_aec", AgcAecValue(d, s, cache))
        /\ Puts(p, 17, "both", "max_shutter",
                Lines(MaxExposure(s), Line(s), MaxMaxShutter(v, d)))
    BY SettingsElements, Zenon
  <2>2. 8 \in 1 .. 17 /\ 9 \in 1 .. 17 /\ 17 \in 1 .. 17
    BY SMT
  <2> QED BY <1>1, <2>1, <2>2, Zenon
<1> QED BY <1>2, <1>3, <1>4, Zenon DEF ContextNames, Switches

(***************************************************************************)
(* The switches share a register: the second context keeps those of the    *)
(* first because it uses the caches of its parent.                         *)
(***************************************************************************)
LEMMA FirstSwitches ==
    ASSUME NEW s
    PROVE  /\ SwitchWanted("primary", s, "companding", CompandingValue("primary", s, CacheAtReset))
           /\ SwitchWanted("primary", s, "agc_aec", AgcAecValue("primary", s, CacheAtReset))
  BY SMT DEF SwitchWanted, CompandingValue, AgcAecValue, CacheAtReset, CompandingAtReset,
             AgcAecAtReset, Contexts

\* With the cache of the first context the second keeps the switches of both
\* right.
LEMMA SecondSwitches ==
    ASSUME NEW s, NEW t
    PROVE  LET x == CompandingValue("alternate", t, AlternateCache(s))
               y == AgcAecValue("alternate", t, AlternateCache(s))
           IN  /\ SwitchWanted("primary", s, "companding", x)
               /\ SwitchWanted("alternate", t, "companding", x)
               /\ SwitchWanted("primary", s, "agc_aec", y)
               /\ SwitchWanted("alternate", t, "agc_aec", y)
  BY SMT DEF SwitchWanted, CompandingValue, AgcAecValue, AlternateCache, CacheAfter,
             CompandingAtReset, AgcAecAtReset, Contexts

\* Plans, one after the other.
LEMMA PlansJoined ==
    ASSUME NEW p, NEW q, IsSeq(p), IsSeq(q)
    PROVE  /\ IsSeq(p \o q) /\ Len(p) \in Nat /\ Len(q) \in Nat
           /\ Len(p \o q) = Len(p) + Len(q)
           /\ \A k \in 1 .. Len(p) : (p \o q)[k] = p[k]
           /\ \A k \in 1 .. Len(q) : (p \o q)[Len(p) + k] = q[k]
           /\ \A k \in 1 .. Len(p \o q) :
                k \in 1 .. Len(p) \/ \E j \in 1 .. Len(q) : k = Len(p) + j
<1>0. PICK S, T : p \in Seq(S) /\ q \in Seq(T)
  BY Zenon DEF IsSeq
<1>1. Len(p) \in Nat /\ Len(q) \in Nat
  BY <1>0
<1>2. Len(p \o q) = Len(p) + Len(q)
  BY <1>0
<1>3. \A k \in 1 .. Len(p) : (p \o q)[k] = p[k]
  BY <1>0, <1>1
<1>4. \A k \in 1 .. Len(q) : (p \o q)[Len(p) + k] = q[k]
  BY <1>0, <1>1
<1>5. ASSUME NEW k \in 1 .. Len(p) + Len(q)
      PROVE  k \in 1 .. Len(p) \/ \E j \in 1 .. Len(q) : k = Len(p) + j
  <2>1. CASE k <= Len(p)
    BY <1>1, <2>1
  <2>2. CASE k > Len(p)
    <3>1. k - Len(p) \in 1 .. Len(q) /\ k = Len(p) + (k - Len(p))
      BY <1>1, <2>2
    <3> QED BY <3>1, Zenon
  <2> QED BY <1>1, <2>1, <2>2
<1>6. p \in Seq(S \cup T) /\ q \in Seq(S \cup T)
  BY <1>0
<1>7. p \o q \in Seq(S \cup T)
  BY <1>6
<1>8. IsSeq(p \o q)
  BY <1>7, Zenon DEF IsSeq
<1> QED BY <1>1, <1>2, <1>3, <1>4, <1>5, <1>8, Zenon

\* Two plans after each other leave what is wanted, if the second corrects the
\* first.
LEMMA PlanJoined ==
    ASSUME NEW c, NEW v, NEW p, NEW q, PlanOK(p), PlanOK(q)
    PROVE  /\ PlanOK(p \o q)
           /\ \A r : Pending(p \o q, r) <=> Pending(p, r) \/ Pending(q, r)
           /\ LastWanted(c, v, q)
              /\ (\A k \in 1 .. Len(p) : \/ Wanted(c, v, p[k].reg, p[k].value)
                                         \/ Follows(p, k)
                                         \/ Pending(q, p[k].reg))
              => LastWanted(c, v, p \o q)
<1> DEFINE w == p \o q
<1>1. IsSeq(p) /\ IsSeq(q)
  BY Zenon DEF PlanOK
<1>2. /\ IsSeq(w) /\ Len(w) = Len(p) + Len(q)
      /\ \A k \in 1 .. Len(p) : w[k] = p[k]
      /\ \A k \in 1 .. Len(q) : w[Len(p) + k] = q[k]
      /\ \A k \in 1 .. Len(w) : k \in 1 .. Len(p) \/ \E j \in 1 .. Len(q) : k = Len(p) + j
  <2>1. IsSeq(w) /\ Len(w) = Len(p) + Len(q)
    BY <1>1, PlansJoined, Zenon
  <2>2. \A k \in 1 .. Len(p) : w[k] = p[k]
    BY <1>1, PlansJoined, Zenon
  <2>3. \A k \in 1 .. Len(q) : w[Len(p) + k] = q[k]
    BY <1>1, PlansJoined, SMT
  <2>4. \A k \in 1 .. Len(w) : k \in 1 .. Len(p) \/ \E j \in 1 .. Len(q) : k = Len(p) + j
    BY <1>1, PlansJoined, Zenon
  <2> QED BY <2>1, <2>2, <2>3, <2>4, Zenon
<1>3. Len(p) \in Nat /\ Len(q) \in Nat
  BY <1>1, PlansJoined, Zenon
<1> HIDE DEF w
<1>4. /\ \A k \in 1 .. Len(p) : k \in 1 .. Len(w)
      /\ \A k \in 1 .. Len(q) : Len(p) + k \in 1 .. Len(w)
  <2>1. \A a, b \in Nat : /\ \A k \in 1 .. a : k \in 1 .. a + b
                          /\ \A k \in 1 .. b : a + k \in 1 .. a + b
    OBVIOUS
  <2>2. Len(w) = Len(p) + Len(q)
    BY <1>2, Zenon
  <2> QED BY <1>3, <2>1, <2>2, Zenon
<1>5. PlanOK(w)
  <2>1. ASSUME NEW k \in 1 .. Len(w)
        PROVE  w[k].reg \in Registers /\ ValueOK(w[k].reg, w[k].value)
    <3>1. CASE k \in 1 .. Len(p)
      BY <1>2, <3>1, Zenon DEF PlanOK
    <3>2. CASE \E j \in 1 .. Len(q) : k = Len(p) + j
      BY <1>2, <3>2, Zenon DEF PlanOK
    <3> QED BY <1>2, <3>1, <3>2, Zenon
  <2> QED BY <1>2, <2>1, Zenon DEF PlanOK
<1>6. ASSUME NEW r PROVE Pending(w, r) <=> Pending(p, r) \/ Pending(q, r)
  <2>1. Pending(p, r) => Pending(w, r)
    BY <1>2, <1>4, Zenon DEF Pending
  <2>2. Pending(q, r) => Pending(w, r)
    BY <1>2, <1>4, Zenon DEF Pending
  <2>3. ASSUME Pending(w, r) PROVE Pending(p, r) \/ Pending(q, r)
    <3>1. PICK k \in 1 .. Len(w) : w[k].reg = r
      BY <2>3, Zenon DEF Pending
    <3>2. CASE k \in 1 .. Len(p)
      BY <1>2, <3>1, <3>2, Zenon DEF Pending
    <3>3. CASE \E j \in 1 .. Len(q) : k = Len(p) + j
      BY <1>2, <3>1, <3>3, Zenon DEF Pending
    <3> QED BY <1>2, <3>2, <3>3, Zenon
  <2> QED BY <2>1, <2>2, <2>3
<1>7. ASSUME LastWanted(c, v, q),
             \A k \in 1 .. Len(p) : \/ Wanted(c, v, p[k].reg, p[k].value)
                                    \/ Follows(p, k)
                                    \/ Pending(q, p[k].reg),
             NEW k \in 1 .. Len(w)
      PROVE  Wanted(c, v, w[k].reg, w[k].value) \/ Follows(w, k)
  <2>1. CASE k \in 1 .. Len(p)
    <3>1. w[k] = p[k]
      BY <1>2, <2>1, Zenon
    <3>2. Follows(p, k) => Follows(w, k)
      BY <1>2, <1>4, <3>1, SMT DEF Follows
    <3>3. ASSUME Pending(q, p[k].reg) PROVE Follows(w, k)
      <4>1. PICK j \in 1 .. Len(q) : q[j].reg = p[k].reg
        BY <3>3, Zenon DEF Pending
      <4>2. Len(p) + j > k /\ Len(p) + j \in 1 .. Len(w) /\ w[Len(p) + j] = q[j]
        BY <1>2, <1>3, <1>4, <2>1
      <4> QED BY <3>1, <4>1, <4>2, SMT DEF Follows
    <3> QED BY <1>7, <2>1, <3>1, <3>2, <3>3, SMT
  <2>2. CASE \E j \in 1 .. Len(q) : k = Len(p) + j
    <3>1. PICK j \in 1 .. Len(q) : k = Len(p) + j
      BY <2>2, Zenon
    <3>2. w[k] = q[j]
      BY <1>2, <3>1, Zenon
    <3>3. ASSUME Follows(q, j) PROVE Follows(w, k)
      <4>1. PICK i \in 1 .. Len(q) : i > j /\ q[i].reg = q[j].reg
        BY <3>3, Zenon DEF Follows
      <4>2. Len(p) + i > k /\ Len(p) + i \in 1 .. Len(w) /\ w[Len(p) + i] = q[i]
        BY <1>2, <1>3, <1>4, <3>1, <4>1
      <4> QED BY <3>2, <4>1, <4>2, SMT DEF Follows
    <3>4. Wanted(c, v, q[j].reg, q[j].value) \/ Follows(q, j)
      BY <1>7, Zenon DEF LastWanted
    <3> QED BY <3>2, <3>3, <3>4, SMT
  <2> QED BY <1>2, <2>1, <2>2, Zenon
<1> QED BY <1>5, <1>6, <1>7, Zenon DEF w, LastWanted

\* The constructor writes no register that the settings decide.
ConstructorNames ==
    {"magic18", "magic15", "magic20", "magic21", "row_noise", "v2", "hdr", "knee"}

\* What the constructor writes contradicts no setting.
LEMMA ConstructorPlan ==
    ASSUME NEW c, NEW v, NEW u
    PROVE  /\ PlanOK(Constructor(u))
           /\ \A k \in 1 .. Len(Constructor(u)) :
                Wanted(c, v, Constructor(u)[k].reg, Constructor(u)[k].value)
           /\ ~Pending(Constructor(u), <<"both", "test_pattern">>)
<1> DEFINE p == Constructor(u)
           Sort == {Warned(n, x, g) : n \in ConstructorNames, x \in {0, 20},
                                      g \in {"magic", "noise", "v2", "hdr", "knee"}}
<1>1. p \in Seq(Sort)
  <2>1. ASSUME NEW n \in ConstructorNames, NEW x \in {0, 20},
               NEW g \in {"magic", "noise", "v2", "hdr", "knee"}
        PROVE  Warned(n, x, g) \in Sort
    OBVIOUS
  <2>2. /\ "magic18" \in ConstructorNames /\ "magic15" \in ConstructorNames
        /\ "magic20" \in ConstructorNames /\ "magic21" \in ConstructorNames
        /\ "row_noise" \in ConstructorNames /\ "v2" \in ConstructorNames
        /\ "hdr" \in ConstructorNames /\ "knee" \in ConstructorNames
    BY Zenon DEF ConstructorNames
  <2> HIDE DEF Sort
  <2>3. Magic \in Seq(Sort)
    BY <2>1, <2>2, SMT DEF Magic
  <2>4. /\ << Warned("row_noise", 0, "noise"), Warned("v2", 0, "v2"),
              Warned("hdr", 0, "hdr"), Warned("knee", 0, "knee") >> \in Seq(Sort)
        /\ << Warned("row_noise", 20, "noise") >> \in Seq(Sort)
    BY <2>1, <2>2, SMT
  <2>5. \A a, b \in Seq(Sort) : a \o b \in Seq(Sort)
    OBVIOUS
  <2> QED BY <2>3, <2>4, <2>5, Zenon DEF Constructor
<1>2. ASSUME NEW w \in Sort
      PROVE  /\ w.reg \in Registers /\ ValueOK(w.reg, w.value)
             /\ Wanted(c, v, w.reg, w.value)
             /\ w.reg # <<"both", "test_pattern">>
  <2>1. PICK n \in ConstructorNames, x \in {0, 20} : w.reg = <<"both", n>> /\ w.value = x
    BY SMT DEF Warned
  <2>2. <<"both", n>> \in Registers
    BY SMT DEF Registers, SharedRegisters, ConstructorNames
  <2>3. n # "test_pattern" /\ n # "max_shutter" /\ n \notin Switches
    BY SMT DEF ConstructorNames, Switches
  <2>4. ValueOK(<<"both", n>>, x) /\ Wanted(c, v, <<"both", n>>, x)
    <3> HIDE DEF Sort
    <3>1. ValueOK(<<"both", n>>, x)
      BY <2>3, SharedValues, Zenon
    <3>2. Wanted(c, v, <<"both", n>>, x)
      BY <2>3, SharedWanted, Zenon
    <3> QED BY <3>1, <3>2
  <2>5. <<"both", n>> # <<"both", "test_pattern">>
    BY <2>3, SMT
  <2> QED BY <2>1, <2>2, <2>4, <2>5, SMT
<1> HIDE DEF p, Sort
<1>3. \A k \in 1 .. Len(p) : p[k] \in Sort
  BY <1>1
<1>4. IsSeq(p)
  BY <1>1, Zenon DEF IsSeq
<1>5. PlanOK(p) /\ (\A k \in 1 .. Len(p) : Wanted(c, v, p[k].reg, p[k].value))
      /\ ~Pending(p, <<"both", "test_pattern">>)
  BY <1>2, <1>3, <1>4, Zenon DEF PlanOK, Pending
<1> QED BY <1>5, Zenon DEF p

\* setMode refuses the window of both contexts or of none.
LEMMA SameWindow ==
    ASSUME NEW c, NEW s, NEW t, SettingsInRange(c, s), SettingsInRange(c, t), Refused(s)
    PROVE  Refused(t)
<1>1. /\ s.width = t.width /\ s.height = t.height
      /\ s.x_offset = t.x_offset /\ s.y_offset = t.y_offset
      /\ s.horizontal_binning = t.horizontal_binning
      /\ s.vertical_binning = t.vertical_binning
  BY SMT DEF SettingsInRange
<1>2. Wide(s) = Wide(t) /\ High(s) = High(t) /\ Startx(s) = Startx(t) /\ Starty(s) = Starty(t)
  BY <1>1, SMT DEF Wide, High, Startx, Starty
<1>3. /\ BinShift(s.horizontal_binning) = BinShift(t.horizontal_binning)
      /\ BinShift(s.vertical_binning) = BinShift(t.vertical_binning)
  BY <1>1, SMT
<1> QED BY <1>2, <1>3, SMT DEF Refused

\* Of the writes for a context only those of the switches can be wrong for
\* another.
LEMMA SettingsPlan ==
    ASSUME NEW c, InRange(c), NEW v, NEW d \in Used(c), NEW cache,
           NEW s, s = SettingsOf(c, d), ~Refused(s),
           NEW p, IsSettings(p, v, d, s, cache)
    PROVE  /\ PlanOK(p)
           /\ ~Pending(p, <<"both", "test_pattern">>)
           /\ \A k \in 1 .. Len(p) :
                Wanted(c, v, p[k].reg, p[k].value) \/ Follows(p, k) \/ k \in 8 .. 9
<1>1. IsSeq(p) /\ Len(p) = 17
  BY SettingsElements, Zenon
<1>2. \A k \in 1 .. 17 :
        /\ p[k].reg \in Registers /\ ValueOK(p[k].reg, p[k].value)
        /\ p[k].reg # <<"both", "test_pattern">>
        /\ Wanted(c, v, p[k].reg, p[k].value) \/ k = 7 \/ k \in 8 .. 9
  BY SettingsWrites, Zenon
<1>3. Follows(p, 7)
  <2>1. Puts(p, 7, d, "read_mode", Unmirrored(s)) /\ Puts(p, 11, d, "read_mode", Mirrored(s))
    BY SettingsElements, Zenon
  <2>2. p[11].reg = p[7].reg
    BY <2>1, Zenon DEF Puts
  <2>3. 11 \in 1 .. 17 /\ 11 > 7
    BY SMT
  <2> QED BY <1>1, <2>2, <2>3, Zenon DEF Follows
<1>4. PlanOK(p)
  BY <1>1, <1>2, Zenon DEF PlanOK
<1>5. ~Pending(p, <<"both", "test_pattern">>)
  BY <1>1, <1>2, Zenon DEF Pending
<1>6. \A k \in 1 .. Len(p) :
        Wanted(c, v, p[k].reg, p[k].value) \/ Follows(p, k) \/ k \in 8 .. 9
  BY <1>1, <1>2, <1>3, Zenon
<1> QED BY <1>4, <1>5, <1>6

\* The empty plan writes nothing.
LEMMA EmptyPlan ==
    ASSUME NEW c, NEW v
    PROVE  /\ PlanOK(<<>>) /\ LastWanted(c, v, <<>>)
           /\ \A r : ~Pending(<<>>, r)
<1>1. <<>> \in Seq({}) /\ Len(<<>>) = 0
  OBVIOUS
<1>2. \A k \in 1 .. Len(<<>>) : FALSE
  BY <1>1, SMT
<1>3. IsSeq(<<>>)
  BY <1>1, Zenon DEF IsSeq
<1> QED BY <1>2, <1>3, Zenon DEF PlanOK, LastWanted, Pending

(***************************************************************************)
(* The plan of an opening gives every register that the settings decide    *)
(* what is wanted.                                                         *)
(***************************************************************************)
LEMMA OpeningPlan ==
    ASSUME NEW c, InRange(c), NEW v, ~Impossible(c, v)
    PROVE  /\ PlanOK(Writes(c, v))
           /\ LastWanted(c, v, Writes(c, v))
           /\ \A r \in Decided(c) : Pending(Writes(c, v), r)
           /\ ~Pending(Writes(c, v), <<"both", "test_pattern">>)
<1> DEFINE a == Constructor(v)
           s == SettingsOf(c, "primary")
           t == SettingsOf(c, "alternate")
           p == Settings(v, "primary", s, CacheAtReset)
           q == Settings(v, "alternate", t, AlternateCache(s))
           Whole == a \o p
           Rest == IF Both(c) THEN q ELSE <<>>
<1>1. Writes(c, v) = Whole \o Rest
  BY Zenon DEF Writes, SettingsOf
<1>2. SettingsInRange(c, s) /\ SettingsInRange(c, t)
  BY SettingsTyped DEF Contexts
<1>3. ~Refused(s) /\ ~Refused(t)
  <2>1. ~Refused(s)
    BY Zenon DEF Impossible, SettingsOf
  <2> HIDE DEF s, t
  <2> QED BY <1>2, <2>1, SameWindow, Zenon
<1>4. "primary" \in Used(c) /\ (Both(c) => "alternate" \in Used(c))
  BY DEF Used, Contexts
<1>5. /\ IsSettings(p, v, "primary", s, CacheAtReset)
      /\ IsSettings(q, v, "alternate", t, AlternateCache(s))
  BY Zenon DEF IsSettings
<1>6. s = SettingsOf(c, "primary") /\ t = SettingsOf(c, "alternate")
  BY Zenon
<1>7. /\ PlanOK(a) /\ ~Pending(a, <<"both", "test_pattern">>)
      /\ \A k \in 1 .. Len(a) : Wanted(c, v, a[k].reg, a[k].value)
  BY ConstructorPlan, Zenon
<1> HIDE DEF a, s, t, p, q
<1>8. /\ PlanOK(p) /\ ~Pending(p, <<"both", "test_pattern">>)
      /\ \A k \in 1 .. Len(p) :
           Wanted(c, v, p[k].reg, p[k].value) \/ Follows(p, k) \/ k \in 8 .. 9
  BY <1>3, <1>4, <1>5, <1>6, SettingsPlan, Zenon
<1>9. /\ Puts(p, 8, "both", "companding", CompandingValue("primary", s, CacheAtReset))
      /\ Puts(p, 9, "both", "agc_aec", AgcAecValue("primary", s, CacheAtReset))
  BY <1>5, SettingsElements, Zenon
<1>10. \A e \in ContextNames : Pending(p, <<"primary", e>>)
  BY <1>5, SettingsPending, Zenon
<1>11. \A e \in Switches \cup {"max_shutter"} : Pending(p, <<"both", e>>)
  BY <1>5, SettingsPending, Zenon
<1>12. ASSUME Both(c)
       PROVE  /\ PlanOK(q) /\ ~Pending(q, <<"both", "test_pattern">>)
              /\ LastWanted(c, v, q)
              /\ \A e \in ContextNames : Pending(q, <<"alternate", e>>)
              /\ \A e \in Switches : Pending(q, <<"both", e>>)
  <2>1. /\ PlanOK(q) /\ ~Pending(q, <<"both", "test_pattern">>)
        /\ \A k \in 1 .. Len(q) :
             Wanted(c, v, q[k].reg, q[k].value) \/ Follows(q, k) \/ k \in 8 .. 9
    BY <1>3, <1>4, <1>5, <1>6, <1>12, SettingsPlan, Zenon
  <2>2. \A e \in ContextNames : Pending(q, <<"alternate", e>>)
    BY <1>5, SettingsPending, Zenon
  <2>3. \A e \in Switches : Pending(q, <<"both", e>>)
    BY <1>5, SettingsPending, Zenon
  <2>4. /\ Puts(q, 8, "both", "companding", CompandingValue("alternate", t, AlternateCache(s)))
        /\ Puts(q, 9, "both", "agc_aec", AgcAecValue("alternate", t, AlternateCache(s)))
    BY <1>5, SettingsElements, Zenon
  <2>5. \A d \in Used(c) : d = "primary" \/ d = "alternate"
    BY DEF Used, Contexts
  <2>6. Wanted(c, v, q[8].reg, q[8].value)
    <3>1. \A d \in Used(c) : SwitchWanted(d, SettingsOf(c, d), "companding",
                               CompandingValue("alternate", t, AlternateCache(s)))
      BY <1>6, <2>5, SecondSwitches, Zenon
    <3>2. Wanted(c, v, <<"both", "companding">>,
                 CompandingValue("alternate", t, AlternateCache(s)))
      BY <3>1, SharedWanted, SMT
    <3> QED BY <2>4, <3>2, Zenon DEF Puts
  <2>7. Wanted(c, v, q[9].reg, q[9].value)
    <3>1. \A d \in Used(c) : SwitchWanted(d, SettingsOf(c, d), "agc_aec",
                               AgcAecValue("alternate", t, AlternateCache(s)))
      BY <1>6, <2>5, SecondSwitches, Zenon
    <3>2. Wanted(c, v, <<"both", "agc_aec">>, AgcAecValue("alternate", t, AlternateCache(s)))
      BY <3>1, SharedWanted, SMT
    <3> QED BY <2>4, <3>2, Zenon DEF Puts
  <2>8. \A k \in 8 .. 9 : Wanted(c, v, q[k].reg, q[k].value)
    BY <2>6, <2>7, SMT
  <2>9. LastWanted(c, v, q)
    BY <2>1, <2>8, Zenon DEF LastWanted
  <2> QED BY <2>1, <2>2, <2>3, <2>9
<1>13. /\ PlanOK(Rest) /\ ~Pending(Rest, <<"both", "test_pattern">>)
       /\ LastWanted(c, v, Rest)
  BY <1>12, EmptyPlan, Zenon
<1>14. \A k \in 1 .. Len(p) : \/ Wanted(c, v, p[k].reg, p[k].value)
                              \/ Follows(p, k)
                              \/ Pending(Rest, p[k].reg)
  <2>1. CASE Both(c)
    <3>1. Pending(q, p[8].reg) /\ Pending(q, p[9].reg)
      BY <1>9, <1>12, <2>1, Zenon DEF Puts, Switches
    <3>2. \A k \in 8 .. 9 : Pending(Rest, p[k].reg)
      BY <2>1, <3>1, SMT
    <3> QED BY <1>8, <3>2, Zenon
  <2>2. CASE ~Both(c)
    <3>1. \A d \in Used(c) : d = "primary"
      BY <2>2 DEF Used
    <3>2. Wanted(c, v, p[8].reg, p[8].value)
      <4>1. \A d \in Used(c) : SwitchWanted(d, SettingsOf(c, d), "companding",
                                 CompandingValue("primary", s, CacheAtReset))
        BY <1>6, <3>1, FirstSwitches, Zenon
      <4>2. Wanted(c, v, <<"both", "companding">>, CompandingValue("primary", s, CacheAtReset))
        BY <4>1, SharedWanted, SMT
      <4> QED BY <1>9, <4>2, Zenon DEF Puts
    <3>3. Wanted(c, v, p[9].reg, p[9].value)
      <4>1. \A d \in Used(c) : SwitchWanted(d, SettingsOf(c, d), "agc_aec",
                                 AgcAecValue("primary", s, CacheAtReset))
        BY <1>6, <3>1, FirstSwitches, Zenon
      <4>2. Wanted(c, v, <<"both", "agc_aec">>, AgcAecValue("primary", s, CacheAtReset))
        BY <4>1, SharedWanted, SMT
      <4> QED BY <1>9, <4>2, Zenon DEF Puts
    <3>4. \A k \in 8 .. 9 : Wanted(c, v, p[k].reg, p[k].value)
      BY <3>2, <3>3, SMT
    <3> QED BY <1>8, <3>4, Zenon
  <2> QED BY <2>1, <2>2
<1> HIDE DEF Rest
<1>15. PlanOK(p \o Rest) /\ LastWanted(c, v, p \o Rest)
  BY <1>8, <1>13, <1>14, PlanJoined, Zenon
<1>16. \A r : Pending(p \o Rest, r) <=> Pending(p, r) \/ Pending(Rest, r)
  BY <1>8, <1>13, PlanJoined, Zenon
<1>17. PlanOK(a \o (p \o Rest)) /\ LastWanted(c, v, a \o (p \o Rest))
  BY <1>7, <1>15, PlanJoined, Zenon
<1>18. \A r : Pending(a \o (p \o Rest), r) <=> Pending(a, r) \/ Pending(p, r) \/ Pending(Rest, r)
  BY <1>7, <1>15, <1>16, PlanJoined, Zenon
<1>19. a \o (p \o Rest) = Writes(c, v)
  <2>1. PICK A, P, R : a \in Seq(A) /\ p \in Seq(P) /\ Rest \in Seq(R)
    BY <1>7, <1>8, <1>13, Zenon DEF PlanOK, IsSeq
  <2>2. \E S : a \in Seq(S) /\ p \in Seq(S) /\ Rest \in Seq(S)
    <3>1. /\ a \in Seq(A \cup P \cup R) /\ p \in Seq(A \cup P \cup R)
          /\ Rest \in Seq(A \cup P \cup R)
      BY <2>1
    <3> QED BY <3>1, Zenon
  <2>3. (a \o p) \o Rest = a \o (p \o Rest)
    <3>1. PICK S : a \in Seq(S) /\ p \in Seq(S) /\ Rest \in Seq(S)
      BY <2>2, Zenon
    <3> QED BY <3>1, ConcatAssociative
  <2> QED BY <1>1, <2>3
<1>20. ASSUME NEW r \in Decided(c) PROVE Pending(p, r) \/ Pending(Rest, r)
  <2>1. CASE r \in Used(c) \X ContextNames
    <3>1. PICK d \in Used(c), e \in ContextNames : r = <<d, e>>
      BY <2>1
    <3>2. d = "primary" \/ (Both(c) /\ d = "alternate")
      BY DEF Used, Contexts
    <3>3. CASE d = "primary"
      BY <1>10, <3>1, <3>3, Zenon
    <3>4. CASE Both(c) /\ d = "alternate"
      <4>1. Rest = q
        BY <3>4, Zenon DEF Rest
      <4> QED BY <1>12, <3>1, <3>4, <4>1, Zenon
    <3> QED BY <3>2, <3>3, <3>4
  <2>2. CASE r \in {"both"} \X (Switches \cup {"max_shutter"})
    <3>1. PICK e \in Switches \cup {"max_shutter"} : r = <<"both", e>>
      BY <2>2
    <3> QED BY <1>11, <3>1, Zenon
  <2> QED BY <2>1, <2>2, Zenon DEF Decided
<1> QED BY <1>7, <1>8, <1>13, <1>17, <1>18, <1>19, <1>20, Zenon

-----------------------------------------------------------------------------
(* The steps of a plan *)

\* The first n writes of p are made, and q is left.
Passes(p, n, q) == n \in 1 .. Len(p) /\ q = SubSeq(p, n + 1, Len(p))
Passed(p, n) == {p[k].reg : k \in 1 .. n}

\* The rest of a plan is a plan, with all writes pending but those that were
\* made.
LEMMA PlanSuffix ==
    ASSUME NEW c, NEW v, NEW p, PlanOK(p), NEW n, NEW q, Passes(p, n, q)
    PROVE  /\ PlanOK(q)
           /\ LastWanted(c, v, p) => LastWanted(c, v, q)
           /\ \A r : Pending(q, r) => Pending(p, r)
           /\ \A r : Pending(p, r) => Pending(q, r) \/ r \in Passed(p, n)
<1>0. n \in 1 .. Len(p) /\ q = SubSeq(p, n + 1, Len(p))
  BY Zenon DEF Passes
<1>1. PICK S : p \in Seq(S)
  BY Zenon DEF PlanOK, IsSeq
<1>2. Len(p) \in Nat /\ n \in Nat /\ n <= Len(p)
  BY <1>0, <1>1
<1>3. PICK m \in Nat : m = Len(p) - n
  <2>1. Len(p) - n \in Nat
    BY <1>2
  <2> QED BY <2>1, Zenon
<1>4. /\ q \in Seq(S) /\ Len(q) = m
      /\ \A k \in 1 .. m : q[k] = p[n + k]
  <2>1. \A k \in n + 1 .. Len(p) : p[k] \in S
    BY <1>1, <1>2
  <2>2. n + 1 \in Int /\ Len(p) \in Int
    BY <1>2
  <2>3. /\ q \in Seq(S)
        /\ Len(q) = IF n + 1 <= Len(p) THEN Len(p) - (n + 1) + 1 ELSE 0
        /\ \A i \in 1 .. Len(p) - (n + 1) + 1 : q[i] = p[n + 1 + i - 1]
    BY <1>0, <2>1, <2>2, SubSeqProperties
  <2>4. Len(p) - (n + 1) + 1 = m /\ (IF n + 1 <= Len(p) THEN m ELSE 0) = m
    BY <1>2, <1>3
  <2>5. Len(q) = m
    BY <2>3, <2>4
  <2>6. \A k \in 1 .. m : n + 1 + k - 1 = n + k
    BY <1>2, <1>3
  <2> QED BY <2>3, <2>4, <2>5, <2>6
<1>5. \A k \in 1 .. m : n + k \in 1 .. Len(p)
  BY <1>2, <1>3
<1>6. \A k \in 1 .. Len(p) : k \in 1 .. n \/ (k - n \in 1 .. m /\ k = n + (k - n))
  BY <1>2, <1>3
<1>7. IsSeq(q) /\ Len(q) = m
  BY <1>4, Zenon DEF IsSeq
<1>8. \A k \in 1 .. m : q[k] = p[n + k]
  BY <1>4, Zenon
<1>9. PlanOK(q)
  BY <1>5, <1>7, <1>8, Zenon DEF PlanOK
<1>10. ASSUME LastWanted(c, v, p), NEW k \in 1 .. m
       PROVE  Wanted(c, v, q[k].reg, q[k].value) \/ Follows(q, k)
  <2>1. Wanted(c, v, p[n + k].reg, p[n + k].value) \/ Follows(p, n + k)
    BY <1>5, <1>10, Zenon DEF LastWanted
  <2>2. ASSUME Follows(p, n + k) PROVE Follows(q, k)
    <3>1. PICK j \in 1 .. Len(p) : j > n + k /\ p[j].reg = p[n + k].reg
      BY <2>2, Zenon DEF Follows
    <3>2. j - n \in 1 .. m /\ j - n > k /\ j = n + (j - n)
      BY <1>2, <1>3, <3>1
    <3>3. q[j - n] = p[j] /\ q[k] = p[n + k]
      BY <1>8, <3>2, Zenon
    <3> QED BY <1>7, <3>1, <3>2, <3>3, Zenon DEF Follows
  <2> QED BY <1>8, <2>1, <2>2, Zenon
<1>11. LastWanted(c, v, p) => LastWanted(c, v, q)
  BY <1>7, <1>10, Zenon DEF LastWanted
<1>12. ASSUME NEW r, Pending(q, r) PROVE Pending(p, r)
  BY <1>5, <1>7, <1>8, <1>12, Zenon DEF Pending
<1>13. ASSUME NEW r, Pending(p, r) PROVE Pending(q, r) \/ r \in Passed(p, n)
  <2>1. PICK k \in 1 .. Len(p) : p[k].reg = r
    BY <1>13, Zenon DEF Pending
  <2>2. CASE k \in 1 .. n
    BY <2>1, <2>2, Zenon DEF Passed
  <2>3. CASE k - n \in 1 .. m /\ k = n + (k - n)
    <3>1. q[k - n] = p[k]
      BY <1>8, <2>3, Zenon
    <3> QED BY <1>7, <2>1, <2>3, <3>1, Zenon DEF Pending
  <2> QED BY <1>6, <2>2, <2>3
<1> QED BY <1>9, <1>11, <1>12, <1>13, Zenon

\* The first write of a plan is what is wanted, or the register is written
\* again.
LEMMA PlanHead ==
    ASSUME NEW c, NEW v, NEW p, PlanOK(p), p # <<>>
    PROVE  /\ 1 \in 1 .. Len(p)
           /\ Head(p) = p[1]
           /\ Tail(p) = SubSeq(p, 1 + 1, Len(p))
           /\ LastWanted(c, v, p) =>
                Wanted(c, v, p[1].reg, p[1].value) \/ Pending(Tail(p), p[1].reg)
<1>1. PICK S : p \in Seq(S)
  BY Zenon DEF PlanOK, IsSeq
<1>2. Len(p) \in Nat /\ Len(p) # 0
  BY <1>1
<1>3. Head(p) = p[1]
  BY <1>1
<1>4. Tail(p) = SubSeq(p, 2, Len(p)) /\ 2 = 1 + 1
  BY <1>1, TailIsSubSeq
<1>5. 1 \in 1 .. Len(p)
  BY <1>2
<1>6. /\ Tail(p) \in Seq(S) /\ Len(Tail(p)) = Len(p) - 1
      /\ \A i \in 1 .. Len(Tail(p)) : Tail(p)[i] = p[i + 1]
  BY <1>1, HeadTailProperties
<1>7. ASSUME Follows(p, 1) PROVE Pending(Tail(p), p[1].reg)
  <2>1. PICK j \in 1 .. Len(p) : j > 1 /\ p[j].reg = p[1].reg
    BY <1>7, Zenon DEF Follows
  <2>2. j - 1 \in 1 .. Len(Tail(p)) /\ j = (j - 1) + 1
    BY <1>2, <1>6, <2>1
  <2>3. Tail(p)[j - 1] = p[j]
    BY <1>6, <2>2, Zenon
  <2> QED BY <2>1, <2>2, <2>3, Zenon DEF Pending
<1> QED BY <1>3, <1>4, <1>5, <1>7, Zenon DEF LastWanted

\* The reset values have their types, and the test pattern is off.
LEMMA ResetOK ==
    /\ DOMAIN Reset = Registers
    /\ \A r \in Registers : ValueOK(r, Reset[r])
    /\ ~PatternOn(Reset[<<"both", "test_pattern">>])
    /\ <<"both", "test_pattern">> \in Registers
<1>1. DOMAIN Reset = Registers
  BY Zenon DEF Reset
<1>2. \A r \in Registers : r[2] = "width" => Reset[r] = 752
  BY Zenon DEF Reset
<1>3. \A r \in Registers : r[2] = "height" => Reset[r] = 480
  BY Zenon DEF Reset
<1>4. ASSUME NEW r \in Registers,
             r[2] \in {"hblank", "vblank", "shutter", "max_shutter", "test_pattern"}
      PROVE  Reset[r] = 1
  <2>1. r[2] \notin {"width", "height", "read_mode", "agc_aec", "companding", "black_control"}
    BY <1>4, SMT
  <2> QED BY <2>1, Zenon DEF Reset
<1>5. ASSUME NEW d \in Contexts, NEW n \in TimingNames
      PROVE  ContextValueOK(n, Reset[<<d, n>>])
  <2>1. <<d, n>> \in Registers /\ <<d, n>>[2] = n
    BY SMT DEF Registers, ContextRegisters, TimingNames
  <2>2. CASE n = "width"
    <3>1. Reset[<<d, n>>] = 752
      BY <1>2, <2>1, <2>2, Zenon
    <3> QED BY <2>2, <3>1, SMT DEF ContextValueOK, Widths
  <2>3. CASE n = "height"
    <3>1. Reset[<<d, n>>] = 480
      BY <1>3, <2>1, <2>3, Zenon
    <3> QED BY <2>3, <3>1, SMT DEF ContextValueOK, Heights
  <2>4. CASE n \in {"hblank", "vblank", "shutter"}
    <3>1. Reset[<<d, n>>] = 1
      BY <1>4, <2>1, <2>4, Zenon
    <3> QED BY <2>4, <3>1, SMT DEF ContextValueOK, Shutters, MostRows, MaxHblank, MaxVblank
  <2> QED BY <2>2, <2>3, <2>4, SMT DEF TimingNames
<1>6. Reset[<<"both", "max_shutter">>] \in LongestShutters
  <2>1. <<"both", "max_shutter">> \in Registers /\ <<"both", "max_shutter">>[2] = "max_shutter"
    BY SMT DEF Registers, SharedRegisters
  <2>2. Reset[<<"both", "max_shutter">>] = 1
    BY <1>4, <2>1, SMT
  <2> QED BY <2>2, SMT DEF LongestShutters, MostRowsAutomatic
<1>7. /\ <<"both", "test_pattern">> \in Registers
      /\ ~PatternOn(Reset[<<"both", "test_pattern">>])
  <2>1. /\ <<"both", "test_pattern">> \in Registers
        /\ <<"both", "test_pattern">>[2] = "test_pattern"
    BY SMT DEF Registers, SharedRegisters
  <2>2. Reset[<<"both", "test_pattern">>] = 1
    BY <1>4, <2>1, SMT
  <2> QED BY <2>1, <2>2, SMT DEF PatternOn
<1>8. \A r \in Registers : ValueOK(r, Reset[r])
  BY <1>5, <1>6, Zenon DEF ValueOK
<1> QED BY <1>1, <1>7, <1>8

\* The outcomes of a write: it is confirmed, it is not and the plan goes on,
\* it is not and writes are skipped, or it ends the opening.
Confirmed(w) == Stored(w) /\ plan' = Tail(plan) /\ doubtful' = doubtful \ {w.reg} /\ pc' = pc
Perhaps(w) == Stored(w) \/ UNCHANGED regs
Unconfirmed(w) ==
    Perhaps(w) /\ plan' = Tail(plan) /\ doubtful' = doubtful \cup {w.reg} /\ pc' = pc
Skipped(w) == Perhaps(w) /\ (\E n \in 1 .. Len(plan) : Skips(n)) /\ pc' = pc
Failed(w) == Perhaps(w) /\ plan' = <<>> /\ doubtful' = doubtful \cup {w.reg} /\ pc' = "idle"

\* A write is confirmed, unconfirmed, skipped or failed, and changes registers
\* only.
LEMMA WriteOutcomes ==
    ASSUME WriteRegister
    PROVE  /\ plan # <<>>
           /\ UNCHANGED <<cols, rows, sensor0, triggermode, version, serial, state, config,
                          restarted>>
           /\ \/ Confirmed(Head(plan)) \/ Unconfirmed(Head(plan))
              \/ Skipped(Head(plan)) \/ Failed(Head(plan))
  BY Zenon DEF WriteRegister, Confirmed, Unconfirmed, Skipped, Failed, Perhaps

\* A write that may have been obeyed changes at most its register, to its
\* value.
LEMMA StoredValue ==
    ASSUME RegistersInv, plan # <<>>, Perhaps(Head(plan))
    PROVE  /\ DOMAIN regs' = Registers
           /\ \A r \in Registers : r # Head(plan).reg => regs'[r] = regs[r]
           /\ \A r \in Registers : ValueOK(r, regs'[r])
           /\ Stored(Head(plan)) => regs'[Head(plan).reg] = Head(plan).value
<1>1. Head(plan).reg \in Registers /\ ValueOK(Head(plan).reg, Head(plan).value)
  <2>1. 1 \in 1 .. Len(plan) /\ Head(plan) = plan[1]
    BY PlanHead, Zenon DEF RegistersInv
  <2> QED BY <2>1, Zenon DEF RegistersInv, PlanOK
<1>2. DOMAIN regs = Registers /\ \A r \in Registers : ValueOK(r, regs[r])
  BY Zenon DEF RegistersInv
<1>3. CASE Stored(Head(plan))
  <2>1. regs' = [regs EXCEPT ![Head(plan).reg] = Head(plan).value]
    BY <1>3, Zenon DEF Stored
  <2> QED BY <1>1, <1>2, <2>1, Zenon
<1>4. CASE UNCHANGED regs /\ ~Stored(Head(plan))
  BY <1>2, <1>4, Zenon
<1> QED BY <1>3, <1>4, Zenon DEF Perhaps

\* Writing keeps the registers well typed, and leaves a plan.
LEMMA WriteKeepsRegisters ==
    ASSUME RegistersInv, WriteRegister
    PROVE  RegistersInv'
<1> DEFINE w == Head(plan)
<1>1. PlanOK(plan) /\ plan # <<>> /\ doubtful \subseteq Registers
  BY WriteOutcomes, Zenon DEF RegistersInv
<1>2. /\ 1 \in 1 .. Len(plan) /\ w = plan[1] /\ Tail(plan) = SubSeq(plan, 1 + 1, Len(plan))
  BY <1>1, PlanHead, Zenon
<1>3. \A k \in 1 .. Len(plan) : plan[k].reg \in Registers
  BY <1>1, Zenon DEF PlanOK
<1>4. PlanOK(Tail(plan))
  <2>1. Passes(plan, 1, Tail(plan))
    BY <1>2, Zenon DEF Passes
  <2> QED BY <1>1, <2>1, PlanSuffix, Zenon
<1>5. Perhaps(w)
  BY WriteOutcomes, Zenon DEF Confirmed, Unconfirmed, Skipped, Failed, Perhaps
<1>6. DOMAIN regs' = Registers /\ \A r \in Registers : ValueOK(r, regs'[r])
  BY <1>1, <1>5, StoredValue, Zenon
<1>7. PlanOK(plan') /\ doubtful' \subseteq Registers
  <2>1. CASE Confirmed(w)
    BY <1>1, <1>4, <2>1, SMT DEF Confirmed
  <2>2. CASE Unconfirmed(w)
    BY <1>1, <1>2, <1>3, <1>4, <2>2, SMT DEF Unconfirmed
  <2>3. CASE Skipped(w)
    <3>1. PICK n \in 1 .. Len(plan) : Skips(n)
      BY <2>3, Zenon DEF Skipped
    <3>2. /\ plan' = SubSeq(plan, n + 1, Len(plan))
          /\ doubtful' = doubtful \cup {plan[k].reg : k \in 1 .. n}
      BY <3>1, Zenon DEF Skips
    <3>3. PlanOK(plan')
      <4>1. Passes(plan, n, plan')
        BY <3>2, Zenon DEF Passes
      <4> QED BY <1>1, <4>1, PlanSuffix, Zenon
    <3>4. \A k \in 1 .. n : k \in 1 .. Len(plan)
      <4>1. Len(plan) \in Nat
        BY <1>1 DEF PlanOK, IsSeq
      <4> QED BY <4>1
    <3>5. doubtful' \subseteq Registers
      BY <1>1, <1>3, <3>2, <3>4, Zenon
    <3> QED BY <3>3, <3>5
  <2>4. CASE Failed(w)
    BY <1>1, <1>2, <1>3, <2>4, EmptyPlan, Zenon DEF Failed
  <2> QED BY <2>1, <2>2, <2>3, <2>4, WriteOutcomes, Zenon
<1> QED BY <1>6, <1>7, Zenon DEF RegistersInv

(***************************************************************************)
(* A write keeps every register provided for, whatever becomes of it,      *)
(* unless it ends the opening.                                             *)
(***************************************************************************)
LEMMA WriteKeepsProvided ==
    ASSUME RegistersInv, WriteRegister, pc' = pc, pc # "idle"
    PROVE  /\ LastWanted(config, version, plan) => LastWanted(config, version, plan)'
           /\ LastWanted(config, version, plan) =>
                \A r \in Registers : Provided(r) => Provided(r)'
           /\ \A r : Pending(plan', r) => Pending(plan, r)
           /\ \A r \in Registers : ~Pending(plan, r) => regs'[r] = regs[r]
<1> DEFINE w == Head(plan)
<1>1. PlanOK(plan) /\ plan # <<>>
  BY WriteOutcomes, Zenon DEF RegistersInv
<1>2. /\ 1 \in 1 .. Len(plan) /\ w = plan[1] /\ Tail(plan) = SubSeq(plan, 1 + 1, Len(plan))
  BY <1>1, PlanHead, Zenon
<1>3. config' = config /\ version' = version
  BY WriteOutcomes, Zenon
<1>4. Perhaps(w)
  BY WriteOutcomes, Zenon DEF Confirmed, Unconfirmed, Skipped, Failed, Perhaps
<1>5. PICK n \in 1 .. Len(plan) :
         /\ plan' = SubSeq(plan, n + 1, Len(plan))
         /\ \/ n = 1 /\ Stored(w) /\ doubtful' = doubtful \ {w.reg}
            \/ doubtful' = doubtful \cup Passed(plan, n)
  <2>1. CASE Confirmed(w)
    BY <1>2, <2>1, Zenon DEF Confirmed
  <2>2. CASE Unconfirmed(w)
    <3>1. Passed(plan, 1) = {w.reg}
      BY <1>2 DEF Passed
    <3> QED BY <1>2, <2>2, <3>1, Zenon DEF Unconfirmed
  <2>3. CASE Skipped(w)
    BY <2>3, Zenon DEF Skipped, Skips, Passed
  <2>4. ~Failed(w)
    BY Zenon DEF Failed
  <2> QED BY <2>1, <2>2, <2>3, <2>4, WriteOutcomes, Zenon
<1>6. /\ LastWanted(config, version, plan) => LastWanted(config, version, plan')
      /\ \A r : Pending(plan', r) => Pending(plan, r)
      /\ \A r : Pending(plan, r) => Pending(plan', r) \/ r \in Passed(plan, n)
  <2>1. Passes(plan, n, plan')
    BY <1>5, Zenon DEF Passes
  <2> QED BY <1>1, <2>1, PlanSuffix, Zenon
<1>7. \A r \in Registers : r # w.reg => regs'[r] = regs[r]
  BY <1>1, <1>4, StoredValue, Zenon
<1>8. Pending(plan, w.reg) /\ w.reg \in Passed(plan, n)
  <2>1. Pending(plan, w.reg)
    BY <1>2, Zenon DEF Pending
  <2>2. 1 \in 1 .. n
    BY <1>5
  <2> QED BY <1>2, <2>1, <2>2, Zenon DEF Passed
<1>9. ASSUME LastWanted(config, version, plan), NEW r \in Registers, Provided(r)
      PROVE  Provided(r)'
  <2>1. CASE r # w.reg
    <3>1. regs'[r] = regs[r]
      BY <1>7, <2>1, Zenon
    <3>2. CASE r \in doubtful
      <4>1. r \in doubtful'
        BY <1>5, <2>1, <3>2
      <4> QED BY <4>1, Zenon DEF Provided
    <3>3. CASE Wanted(config, version, r, regs[r])
      BY <1>3, <3>1, <3>3, Zenon DEF Provided
    <3>4. CASE Pending(plan, r)
      <4>1. Pending(plan', r) \/ r \in Passed(plan, n)
        BY <1>6, <3>4, Zenon
      <4>2. r \in Passed(plan, n) => r \in doubtful'
        <5>1. Passed(plan, 1) = {w.reg}
          BY <1>2 DEF Passed
        <5> HIDE DEF w
        <5> QED BY <1>5, <2>1, <5>1
      <4> QED BY <4>1, <4>2, Zenon DEF Provided
    <3> QED BY <1>9, <3>2, <3>3, <3>4, Zenon DEF Provided
  <2>2. CASE r = w.reg /\ n = 1 /\ Stored(w) /\ doubtful' = doubtful \ {w.reg}
    <3>1. regs'[r] = w.value
      BY <1>1, <1>4, <2>2, StoredValue, Zenon
    <3>2. plan' = Tail(plan)
      BY <1>2, <1>5, <2>2, Zenon
    <3>3. Wanted(config, version, plan[1].reg, plan[1].value) \/ Pending(Tail(plan), plan[1].reg)
      BY <1>1, <1>9, PlanHead, Zenon
    <3> QED BY <1>2, <1>3, <2>2, <3>1, <3>2, <3>3, Zenon DEF Provided
  <2>3. CASE r = w.reg /\ doubtful' = doubtful \cup Passed(plan, n)
    <3>1. r \in doubtful'
      BY <1>8, <2>3
    <3> QED BY <3>1, Zenon DEF Provided
  <2> QED BY <1>5, <2>1, <2>2, <2>3, Zenon
<1>10. ASSUME NEW r \in Registers, ~Pending(plan, r) PROVE regs'[r] = regs[r]
  BY <1>7, <1>8, <1>10, Zenon
<1> QED BY <1>3, <1>6, <1>9, <1>10, Zenon

-----------------------------------------------------------------------------
(* The invariant holds at first and is kept by every step *)

TestRegister == <<"both", "test_pattern">>

\* The registers that the settings decide are registers of the imager.
LEMMA DecidedRegisters ==
    ASSUME NEW c
    PROVE  Decided(c) \subseteq Registers /\ TestRegister \in Registers
  BY UsedContexts, SMT DEF Decided, Registers, ContextRegisters, SharedRegisters, ContextNames,
     Switches, TestRegister

\* Nothing is claimed of a camera that is not being set up.
LEMMA ClosedOK ==
    ASSUME RegistersInv', ControlInv', cols' \in Nat, rows' \in Nat,
           pc' \in {"idle", "resolution"}, state' = "CLOSED" \/ restarted'
    PROVE  IInv'
<1>1. /\ ~SetUp' /\ ~Settling' /\ ~Testing'
      /\ pc' \notin {"version", "settings", "check", "pattern"}
  BY SMT DEF SetUp, Settling, Testing
<1>2. SizeInv' /\ SettingsInv'
  BY <1>1, Zenon DEF SizeInv, SettingsInv
<1>3. PatternInv'
  BY <1>1, SMT DEF PatternInv
<1>4. FirmwareInv'
  BY <1>1, SMT DEF FirmwareInv, SetUp
<1> QED BY <1>2, <1>3, <1>4, Zenon DEF IInv

\* Steps that touch no register keep what is said of registers.
LEMMA RegistersKept ==
    ASSUME RegistersInv, UNCHANGED <<regs, doubtful, plan>>
    PROVE  RegistersInv'
  BY Zenon DEF RegistersInv

\* Steps that touch no register keep what is said of settings.
LEMMA SettingsKept ==
    ASSUME SettingsInv, UNCHANGED <<regs, version, config, plan, doubtful>>,
           Settling' => Settling
    PROVE  SettingsInv'
  BY Zenon DEF SettingsInv, Provided

\* A closed driver and a camera just reset satisfy the invariant.
LEMMA InitInvariant == Init => IInv
<1> SUFFICES ASSUME Init PROVE IInv
  OBVIOUS
<1>1. RegistersInv
  <2>1. regs = Reset /\ doubtful = {} /\ plan = <<>>
    BY Zenon DEF Init
  <2> QED BY <2>1, ResetOK, EmptyPlan, Zenon DEF RegistersInv
<1>2. ControlInv
  BY ConfigsAssumption, SMT DEF Init, ControlInv
<1>3. ~SetUp /\ ~Settling /\ ~Testing /\ pc \notin {"version", "settings", "check", "pattern"}
  BY SMT DEF Init, SetUp, Settling, Testing
<1>4. SizeInv
  <2>1. cols \in Nat /\ rows \in Nat
    BY SMT DEF Init
  <2> QED BY <1>3, <2>1, Zenon DEF SizeInv
<1>5. SettingsInv
  BY <1>3, Zenon DEF SettingsInv
<1>6. PatternInv
  BY <1>3, SMT DEF PatternInv
<1>7. FirmwareInv
  BY <1>3, SMT DEF FirmwareInv, Init
<1> QED BY <1>1, <1>2, <1>4, <1>5, <1>6, <1>7, Zenon DEF IInv

\* Beginning to open keeps the invariant.
LEMMA OpenInvariant ==
    ASSUME IInv, NEW c \in Configs, Open(c)
    PROVE  IInv'
<1>1. InRange(config')
  BY ConfigsAssumption, UpdateInRange, Zenon DEF Open
<1>2. RegistersInv'
  BY RegistersKept, Zenon DEF IInv, Open, GiveUp, cameraVars, history
<1>3. state' = "CLOSED" /\ pc' \in {"idle", "resolution"} /\ plan' = <<>>
  BY SMT DEF IInv, ControlInv, Open, GiveUp
<1>4. ControlInv'
  BY <1>1, <1>3, SMT DEF IInv, ControlInv, Open, cameraVars
<1>5. cols' \in Nat /\ rows' \in Nat
  BY Zenon DEF IInv, SizeInv, Open, cameraVars
<1> QED BY <1>2, <1>3, <1>4, <1>5, ClosedOK, Zenon

\* So does the command that sets the resolution.
LEMMA SetResolutionInvariant ==
    ASSUME IInv, SetResolution
    PROVE  IInv'
<1>1. /\ pc = "resolution" /\ state = "CLOSED" /\ plan = <<>> /\ InRange(config)
      /\ sensor0 \in {7, Unused}
  BY SMT DEF IInv, ControlInv, SetResolution
<1>2. state' = "CLOSED" /\ plan' = <<>> /\ UNCHANGED <<version, config>>
  BY <1>1, Zenon DEF SetResolution, GiveUp
<1>3. config.width \in Nat /\ config.height \in Nat
  <2>1. config.width \in 1 .. 752 /\ config.height \in 1 .. 480
    BY <1>1, Zenon DEF InRange
  <2> QED BY <2>1, SMT
<1>4. ASSUME ResolutionSet
      PROVE  /\ RegistersInv' /\ regs' = Reset /\ doubtful' = {} /\ ~restarted'
             /\ cols' = config.width /\ rows' = config.height
             /\ sensor0' \in {7, Unused}
  <2>1. regs' = Reset /\ doubtful' = {} /\ ~restarted'
    BY <1>4, Zenon DEF ResolutionSet
  <2>2. cols' = config.width /\ rows' = config.height
    BY <1>4, SMT DEF ResolutionSet, FrameSize
  <2>3. RegistersInv'
    BY <1>2, <2>1, ResetOK, EmptyPlan, Zenon DEF RegistersInv
  <2>4. sensor0' \in {7, Unused}
    BY <1>1, <1>4, Zenon DEF ResolutionSet
  <2> QED BY <2>1, <2>2, <2>3, <2>4, Zenon
<1>5. CASE ResolutionSet /\ pc' = "version"
  <2>1. ControlInv'
    BY <1>1, <1>2, <1>4, <1>5, SMT DEF ControlInv
  <2>2. ~SetUp' /\ ~Settling' /\ ~Testing'
    BY <1>2, <1>5, SMT DEF SetUp, Settling, Testing
  <2>3. SizeInv'
    BY <1>2, <1>3, <1>4, <1>5, Zenon DEF SizeInv
  <2>4. PatternInv'
    BY <1>2, <1>4, <1>5, <2>2, ResetOK, EmptyPlan, Zenon DEF PatternInv
  <2>5. FirmwareInv' /\ SettingsInv'
    BY <1>2, <1>5, <2>2, SMT DEF FirmwareInv, SettingsInv
  <2> QED BY <1>4, <1>5, <2>1, <2>3, <2>4, <2>5, Zenon DEF IInv
<1>6. CASE pc' = "idle" /\ (ResolutionSet \/ UNCHANGED <<cameraVars, history>>)
  <2>1. RegistersInv' /\ cols' \in Nat /\ rows' \in Nat /\ sensor0' \in {7, Unused}
    <3>1. CASE ResolutionSet
      BY <1>3, <1>4, <3>1, Zenon
    <3>2. CASE UNCHANGED <<cameraVars, history>>
      BY <1>1, <1>2, <3>2, RegistersKept, Zenon DEF IInv, SizeInv, cameraVars, history
    <3> QED BY <1>6, <3>1, <3>2, Zenon
  <2>2. ControlInv'
    BY <1>1, <1>2, <1>6, <2>1, SMT DEF ControlInv
  <2>3. pc' \in {"idle", "resolution"}
    BY <1>6
  <2> QED BY <1>2, <2>1, <2>2, <2>3, ClosedOK, Zenon
<1> QED BY <1>5, <1>6, Zenon DEF SetResolution, GiveUp

\* So does identifying the imager, after which the writes are planned.
LEMMA GetInstanceInvariant ==
    ASSUME IInv, GetInstance
    PROVE  IInv'
<1>1. /\ pc = "version" /\ state = "CLOSED" /\ plan = <<>> /\ InRange(config)
      /\ ~restarted
  BY SMT DEF IInv, ControlInv, GetInstance
<1>2. UNCHANGED <<regs, cols, rows, sensor0, triggermode, version, config, doubtful, restarted>>
  BY Zenon DEF GetInstance, cameraVars, history
<1>3. state' = "CLOSED"
  BY <1>1, Zenon DEF GetInstance, GiveUp
<1>4. CASE plan' = Writes(config, version) /\ pc' = "settings"
  <2>1. PlanOK(plan') /\ ~Pending(plan', TestRegister)
    BY <1>1, <1>4, OpeningPlan, ConstructorPlan, Zenon DEF Writes, TestRegister
  <2>2. RegistersInv'
    BY <1>2, <2>1, Zenon DEF IInv, RegistersInv
  <2>3. ControlInv'
    BY <1>1, <1>2, <1>3, <1>4, SMT DEF IInv, ControlInv
  <2>4. ~SetUp' /\ ~Testing'
    BY <1>3, <1>4, SMT DEF SetUp, Testing
  <2>5. SizeInv'
    BY <1>1, <1>2, Zenon DEF IInv, SizeInv
  <2>6. SettingsInv'
    <3>1. ASSUME ~Impossible(config, version)
          PROVE  /\ LastWanted(config, version, plan')
                 /\ \A r \in Decided(config) : Pending(plan', r)
      BY <1>1, <1>4, <3>1, OpeningPlan, Zenon
    <3>2. Settling' => ~Impossible(config', version')
      BY <1>4, <2>4, SMT DEF Settling
    <3> QED BY <1>2, <3>1, <3>2, Zenon DEF SettingsInv, Provided
  <2>7. PatternInv'
    <3>1. ~PatternOn(regs'[TestRegister])
      BY <1>1, <1>2, Zenon DEF IInv, PatternInv, TestRegister
    <3>2. pc' # "version"
      BY <1>4
    <3> QED BY <2>1, <2>4, <3>1, <3>2, Zenon DEF PatternInv, TestRegister
  <2>8. FirmwareInv'
    BY <1>3, <1>4, <2>4, SMT DEF FirmwareInv
  <2> QED BY <2>2, <2>3, <2>5, <2>6, <2>7, <2>8, Zenon DEF IInv
<1>5. CASE pc' = "idle" /\ plan' = plan
  <2>1. RegistersInv' /\ cols' \in Nat /\ rows' \in Nat
    BY <1>2, <1>5, RegistersKept, Zenon DEF IInv, SizeInv
  <2>2. ControlInv'
    BY <1>1, <1>2, <1>3, <1>5, SMT DEF IInv, ControlInv
  <2>3. pc' \in {"idle", "resolution"}
    BY <1>5
  <2> QED BY <1>3, <2>1, <2>2, <2>3, ClosedOK, Zenon
<1> QED BY <1>4, <1>5, Zenon DEF GetInstance, GiveUp

\* So does a register write, whatever becomes of it.
LEMMA WriteRegisterInvariant ==
    ASSUME IInv, WriteRegister
    PROVE  IInv'
<1>1. /\ plan # <<>>
      /\ UNCHANGED <<cols, rows, sensor0, triggermode, version, serial, state, config, restarted>>
  BY WriteOutcomes, Zenon
<1>2. pc \in {"settings", "pattern"} /\ state = "CLOSED"
  BY <1>1, SMT DEF IInv, ControlInv
<1>3. RegistersInv'
  BY WriteKeepsRegisters, Zenon DEF IInv
<1>4. pc' = pc \/ (pc' = "idle" /\ plan' = <<>>)
  <2> DEFINE w == Head(plan)
  <2>1. Confirmed(w) \/ Unconfirmed(w) \/ Skipped(w) \/ Failed(w)
    BY WriteOutcomes, Zenon
  <2>2. (Confirmed(w) => pc' = pc) /\ (Unconfirmed(w) => pc' = pc) /\ (Skipped(w) => pc' = pc)
    BY Zenon DEF Confirmed, Unconfirmed, Skipped
  <2>3. Failed(w) => pc' = "idle" /\ plan' = <<>>
    BY Zenon DEF Failed
  <2> HIDE DEF w
  <2> QED BY <2>1, <2>2, <2>3, Zenon
<1>5. ControlInv'
  BY <1>1, <1>2, <1>4, SMT DEF IInv, ControlInv
<1>6. CASE pc' = "idle"
  <2>1. cols' \in Nat /\ rows' \in Nat
    BY <1>1, Zenon DEF IInv, SizeInv
  <2>2. pc' \in {"idle", "resolution"} /\ state' = "CLOSED"
    BY <1>1, <1>2, <1>6
  <2> QED BY <1>3, <1>5, <2>1, <2>2, ClosedOK, Zenon
<1>7. CASE pc' = pc
  <2>1. pc # "idle" /\ pc # "version" /\ pc # "check"
    BY <1>2
  <2>2. /\ LastWanted(config, version, plan) => LastWanted(config, version, plan)'
        /\ LastWanted(config, version, plan) =>
             \A r \in Registers : Provided(r) => Provided(r)'
        /\ \A r : Pending(plan', r) => Pending(plan, r)
        /\ \A r \in Registers : ~Pending(plan, r) => regs'[r] = regs[r]
    BY <1>7, <2>1, WriteKeepsProvided, Zenon DEF IInv
  <2>3. (Settling' <=> Settling) /\ (Testing' <=> Testing) /\ (SetUp' <=> SetUp)
    BY <1>1, <1>7, Zenon DEF Settling, Testing, SetUp
  <2>4. SizeInv'
    BY <1>1, <1>7, <2>3, Zenon DEF IInv, SizeInv
  <2>5. SettingsInv'
    BY <1>1, <2>2, <2>3, DecidedRegisters, Zenon DEF IInv, SettingsInv
  <2>6. PatternInv'
    <3>1. CASE pc = "settings"
      <4>1. ~PatternOn(regs[TestRegister]) /\ ~Pending(plan, TestRegister)
        BY <3>1, SMT DEF IInv, PatternInv, TestRegister
      <4>2. ~PatternOn(regs'[TestRegister]) /\ ~Pending(plan', TestRegister)
        BY <2>2, <4>1, DecidedRegisters, Zenon
      <4>3. ~Testing' /\ pc' # "version"
        BY <1>1, <1>2, <1>7, <3>1, SMT DEF Testing, SetUp
      <4> QED BY <4>2, <4>3, Zenon DEF PatternInv, TestRegister
    <3>2. CASE pc = "pattern"
      <4>1. Testing /\ Settling
        BY <3>2, SMT DEF Testing, Settling
      <4>2. LastWanted(config, version, plan) /\ Provided(TestRegister)
        BY <4>1, Zenon DEF IInv, SettingsInv, PatternInv, TestRegister
      <4>3. Provided(TestRegister)'
        BY <2>2, <4>2, DecidedRegisters, Zenon
      <4>4. pc' \notin {"version", "settings", "check"}
        BY <1>7, <3>2, SMT
      <4> QED BY <4>3, <4>4, SMT DEF PatternInv, TestRegister
    <3> QED BY <1>2, <3>1, <3>2
  <2>7. FirmwareInv'
    BY <1>1, <1>7, <2>3, Zenon DEF IInv, FirmwareInv
  <2> QED BY <1>3, <1>5, <2>4, <2>5, <2>6, <2>7, Zenon DEF IInv
<1> QED BY <1>4, <1>6, <1>7

\* So does the command that has the firmware report the context.
LEMMA SelectSensorInvariant ==
    ASSUME IInv, SelectSensor
    PROVE  IInv'
<1>1. /\ pc = "settings" /\ state = "CLOSED" /\ plan = <<>> /\ plan' = plan /\ state' = state
      /\ UNCHANGED <<regs, cols, rows, triggermode, version, config, doubtful, restarted>>
      /\ sensor0' \in {7, sensor0}
  BY SMT DEF IInv, ControlInv, SelectSensor, GiveUp, history
<1>2. RegistersInv'
  BY <1>1, RegistersKept, Zenon DEF IInv
<1>3. pc' \in {"idle", "check"}
  BY SMT DEF SelectSensor, GiveUp
<1>4. ControlInv'
  BY <1>1, <1>3, SMT DEF IInv, ControlInv
<1>5. cols' \in Nat /\ rows' \in Nat
  BY <1>1, Zenon DEF IInv, SizeInv
<1>6. CASE pc' = "idle"
  BY <1>1, <1>2, <1>4, <1>5, <1>6, ClosedOK, SMT
<1>7. CASE pc' = "check"
  <2>1. ~Impossible(config, version) /\ (Both(config) => sensor0' = 7)
    BY <1>7, SMT DEF SelectSensor, GiveUp
  <2>2. Settling /\ ~SetUp' /\ ~Testing'
    BY <1>1, <1>7, <2>1, SMT DEF Settling, SetUp, Testing
  <2>3. SizeInv'
    BY <1>1, Zenon DEF IInv, SizeInv
  <2>4. SettingsInv'
    BY <1>1, <2>2, SettingsKept, Zenon DEF IInv
  <2>5. PatternInv'
    <3>1. ~PatternOn(regs'[TestRegister]) /\ ~Pending(plan', TestRegister) /\ pc' # "version"
      BY <1>1, <1>7, SMT DEF IInv, PatternInv, TestRegister
    <3> QED BY <2>2, <3>1, Zenon DEF PatternInv, TestRegister
  <2>6. FirmwareInv'
    BY <1>1, <2>1, SMT DEF FirmwareInv
  <2> QED BY <1>2, <1>4, <2>3, <2>4, <2>5, <2>6, Zenon DEF IInv
<1> QED BY <1>3, <1>6, <1>7

\* A test pattern is on or off.
LEMMA PatternBoolean == \A x : PatternOn(x) \in BOOLEAN
  BY SMT DEF PatternOn

\* The plan for the test pattern writes its register only.
LEMMA TestPatternPlan ==
    ASSUME NEW c, NEW v
    PROVE  /\ PlanOK(TestPattern) /\ Pending(TestPattern, TestRegister)
           /\ c.test_pattern = TRUE => LastWanted(c, v, TestPattern)
<1> DEFINE p == TestPattern
<1>1. /\ Len(p) = 2 /\ IsSeq(p)
      /\ p[1].reg = <<"both", "test_pattern">> /\ PatternOn(p[1].value)
      /\ p[2].reg = <<"both", "hdr">>
  <2>1. p \in Seq({Write("both", "test_pattern", 14336), Write("both", "hdr", 6)})
    BY DEF TestPattern
  <2>2. IsSeq(p)
    <3>1. PICK S : p \in Seq(S)
      BY <2>1
    <3> QED BY <3>1, Zenon DEF IsSeq
  <2> QED BY <2>2, SMT DEF TestPattern, Write, PatternOn
<1>2. \A k \in 1 .. Len(p) : k = 1 \/ k = 2
  BY <1>1, SMT
<1>3. <<"both", "test_pattern">> \in Registers /\ <<"both", "hdr">> \in Registers
  BY SMT DEF Registers, SharedRegisters
<1>4. \A x : ValueOK(<<"both", "test_pattern">>, x) /\ ValueOK(<<"both", "hdr">>, x)
  <2>1. "test_pattern" # "max_shutter" /\ "hdr" # "max_shutter"
    OBVIOUS
  <2>2. \A n, x : n # "max_shutter" => ValueOK(<<"both", n>>, x)
    BY SharedValues, Zenon
  <2> QED BY <2>1, <2>2, Zenon
<1> HIDE DEF p
<1>5. PlanOK(p)
  BY <1>1, <1>2, <1>3, <1>4, Zenon DEF PlanOK
<1>6. 1 \in 1 .. Len(p)
  BY <1>1, SMT
<1>7. Pending(p, TestRegister)
  BY <1>1, <1>6, Zenon DEF Pending, TestRegister
<1>8. ASSUME c.test_pattern = TRUE PROVE LastWanted(c, v, p)
  <2>1. PatternOn(p[1].value) = c.test_pattern
    BY <1>1, <1>8, PatternBoolean, Zenon
  <2>2. Wanted(c, v, p[1].reg, p[1].value)
    BY <1>1, <2>1, SharedWanted, Zenon DEF Switches
  <2>3. Wanted(c, v, p[2].reg, p[2].value)
    BY <1>1, SharedWanted, Zenon DEF Switches
  <2> QED BY <1>2, <2>2, <2>3, Zenon DEF LastWanted
<1> QED BY <1>5, <1>7, <1>8, Zenon DEF p

\* Checking the imager model, before the test pattern, keeps the invariant.
LEMMA CheckModelInvariant ==
    ASSUME IInv, CheckModel
    PROVE  IInv'
<1>1. /\ pc = "check" /\ state = "CLOSED" /\ plan = <<>> /\ state' = state
      /\ UNCHANGED <<regs, cols, rows, sensor0, triggermode, version, config, doubtful, restarted>>
      /\ InRange(config)
  BY SMT DEF IInv, ControlInv, CheckModel, GiveUp, history, cameraVars
<1>2. cols' \in Nat /\ rows' \in Nat
  BY <1>1, Zenon DEF IInv, SizeInv
<1>3. CASE pc' = "idle" /\ plan' = plan
  <2>1. RegistersInv'
    BY <1>1, <1>3, RegistersKept, Zenon DEF IInv
  <2>2. ControlInv'
    BY <1>1, <1>3, SMT DEF IInv, ControlInv
  <2>3. pc' \in {"idle", "resolution"} /\ state' = "CLOSED"
    BY <1>1, <1>3
  <2> QED BY <1>2, <2>1, <2>2, <2>3, ClosedOK, Zenon
<1>4. CASE pc' = "pattern" /\ plan' = IF config.test_pattern THEN TestPattern ELSE <<>>
  <2>1. /\ PlanOK(plan') /\ LastWanted(config, version, plan')
        /\ config.test_pattern => Pending(plan', TestRegister)
    BY <1>1, <1>4, TestPatternPlan, EmptyPlan, Zenon
  <2>2. RegistersInv'
    BY <1>1, <2>1, Zenon DEF IInv, RegistersInv
  <2>3. ControlInv'
    BY <1>1, <1>4, SMT DEF IInv, ControlInv
  <2>4. Settling
    BY <1>1, SMT DEF Settling
  <2>5. SizeInv'
    BY <1>1, Zenon DEF IInv, SizeInv
  <2>6. SettingsInv'
    <3>1. \A r : ~Pending(plan, r)
      BY <1>1, EmptyPlan, Zenon
    <3>2. \A r : Provided(r) => Provided(r)'
      BY <1>1, <3>1, Zenon DEF Provided
    <3> QED BY <1>1, <2>1, <2>4, <3>2, Zenon DEF IInv, SettingsInv
  <2>7. Provided(TestRegister)'
    <3>1. CASE config.test_pattern
      BY <2>1, <3>1, Zenon DEF Provided
    <3>2. CASE ~config.test_pattern
      <4>1. ~PatternOn(regs'[TestRegister])
        BY <1>1, SMT DEF IInv, PatternInv, TestRegister
      <4>2. config.test_pattern = FALSE
        <5>1. config.test_pattern \in BOOLEAN
          BY <1>1, Zenon DEF InRange
        <5> QED BY <3>2, <5>1
      <4>3. PatternOn(regs'[TestRegister]) = config.test_pattern
        BY <4>1, <4>2, PatternBoolean, Zenon
      <4>4. Wanted(config, version, TestRegister, regs'[TestRegister])
        BY <4>3, SharedWanted, Zenon DEF TestRegister, Switches
      <4> QED BY <1>1, <4>4, Zenon DEF Provided
    <3> QED BY <3>1, <3>2
  <2>8. PatternInv'
    <3>1. pc' \notin {"version", "settings", "check"}
      BY <1>4
    <3> QED BY <2>7, <3>1, SMT DEF PatternInv, TestRegister
  <2>9. FirmwareInv'
    <3>1. Both(config') => sensor0' = 7
      BY <1>1, SMT DEF IInv, FirmwareInv
    <3> QED BY <1>1, <3>1, SMT DEF FirmwareInv
  <2> QED BY <2>2, <2>3, <2>5, <2>6, <2>8, <2>9, Zenon DEF IInv
<1> QED BY <1>3, <1>4, Zenon DEF CheckModel, GiveUp

\* So does the end of an opening.
LEMMA OpenedInvariant ==
    ASSUME IInv, Opened
    PROVE  IInv'
<1>1. /\ pc = "pattern" /\ pc' = "idle" /\ state' = "OPENED" /\ plan = <<>> /\ plan' = plan
      /\ UNCHANGED <<regs, cols, rows, sensor0, triggermode, version, config, doubtful, restarted>>
  BY Zenon DEF Opened, history, cameraVars
<1>2. RegistersInv'
  BY <1>1, RegistersKept, Zenon DEF IInv
<1>3. ControlInv'
  BY <1>1, SMT DEF IInv, ControlInv
<1>4. Settling /\ Testing
  BY <1>1, SMT DEF Settling, Testing
<1>5. SizeInv'
  BY <1>1, SMT DEF IInv, SizeInv
<1>6. SettingsInv'
  BY <1>1, <1>4, SettingsKept, Zenon DEF IInv
<1>7. PatternInv'
  <2>1. Provided(TestRegister)
    BY <1>4, Zenon DEF IInv, PatternInv, TestRegister
  <2>2. Provided(TestRegister)'
    BY <1>1, <2>1, Zenon DEF Provided
  <2>3. pc' \notin {"version", "settings", "check"}
    BY <1>1
  <2> QED BY <2>2, <2>3, SMT DEF PatternInv, TestRegister
<1>8. FirmwareInv'
  <2>1. Both(config') => sensor0' = 7
    BY <1>1, SMT DEF IInv, FirmwareInv
  <2> QED BY <1>1, <2>1, SMT DEF FirmwareInv
<1> QED BY <1>2, <1>3, <1>5, <1>6, <1>7, <1>8, Zenon DEF IInv

\* An open camera stays set up as it was while it is started and stopped.
LEMMA RunningInvariant ==
    ASSUME IInv, pc = "idle", state # "CLOSED", state' \in {"CLOSED", "OPENED", "RUNNING"},
           UNCHANGED <<regs, cols, rows, sensor0, version, pc, config, plan, doubtful, restarted>>,
           state' = "RUNNING" => triggermode' = TrigMode(config)
    PROVE  IInv'
<1>1. RegistersInv'
  BY RegistersKept, Zenon DEF IInv
<1>2. ControlInv'
  BY SMT DEF IInv, ControlInv
<1>3. SetUp' => SetUp
  BY SMT DEF SetUp
<1>4. (Settling' => Settling) /\ (Testing' => Testing)
  BY <1>3, SMT DEF Settling, Testing
<1>5. SizeInv'
  BY <1>3, SMT DEF IInv, SizeInv
<1>6. SettingsInv'
  BY <1>4, SettingsKept, Zenon DEF IInv
<1>7. PatternInv'
  <2>1. Testing' => Provided(TestRegister)'
    BY <1>4, Zenon DEF IInv, PatternInv, TestRegister, Provided
  <2>2. pc' \notin {"version", "settings", "check"}
    OBVIOUS
  <2> QED BY <2>1, <2>2, SMT DEF PatternInv, TestRegister
<1>8. FirmwareInv'
  <2>1. SetUp' => (Both(config') => sensor0' = 7)
    BY <1>3, SMT DEF IInv, FirmwareInv
  <2> QED BY <2>1, SMT DEF FirmwareInv
<1> QED BY <1>1, <1>2, <1>5, <1>6, <1>7, <1>8, Zenon DEF IInv

\* So do starting, the end of a stream and closing.
LEMMA StartInvariant ==
    ASSUME IInv, Start \/ StreamEnds \/ Close
    PROVE  IInv'
<1>1. pc = "idle" /\ state # "CLOSED"
  BY SMT DEF IInv, ControlInv, Start, StreamEnds, Close
<1>2. UNCHANGED <<regs, cols, rows, sensor0, version, pc, config, plan, doubtful, restarted>>
  BY Zenon DEF Start, StreamEnds, Close, cameraVars, history
<1>3. /\ state' \in {"CLOSED", "OPENED", "RUNNING"}
      /\ state' = "RUNNING" => triggermode' = TrigMode(config)
  BY SMT DEF Start, StreamEnds, Close
<1> QED BY <1>1, <1>2, <1>3, RunningInvariant, Zenon

\* So does a reset of the imager that the driver does not notice.
LEMMA ImagerColdInvariant ==
    ASSUME IInv, ImagerCold
    PROVE  IInv'
<1>1. /\ pc = "idle" /\ pc' = pc /\ restarted' = TRUE /\ regs' = Reset /\ sensor0' = Unused
      /\ UNCHANGED <<cols, rows, version, state, config, plan, doubtful>>
  BY Zenon DEF ImagerCold
<1>2. RegistersInv'
  BY <1>1, ResetOK, Zenon DEF IInv, RegistersInv
<1>3. ControlInv'
  BY <1>1, SMT DEF IInv, ControlInv
<1>4. cols' \in Nat /\ rows' \in Nat
  BY <1>1, Zenon DEF IInv, SizeInv
<1>5. pc' \in {"idle", "resolution"}
  BY <1>1
<1> QED BY <1>1, <1>2, <1>3, <1>4, <1>5, ClosedOK, Zenon

(***************************************************************************)
(* The invariant: while the driver writes the settings, each register that *)
(* they decide holds what is wanted, is still to be written, or is in      *)
(* doubt, and the frame size and trigger of the firmware go with them.     *)
(***************************************************************************)
THEOREM Invariant == Spec => []IInv
<1>1. ASSUME IInv, [Next]_vars PROVE IInv'
  <2>1. CASE \E c \in Configs : Open(c)
    BY <1>1, <2>1, OpenInvariant
  <2>2. CASE DriverStep
    BY <1>1, <2>2, SetResolutionInvariant, GetInstanceInvariant, WriteRegisterInvariant,
       SelectSensorInvariant, CheckModelInvariant, OpenedInvariant, StartInvariant, Zenon
       DEF DriverStep
  <2>3. CASE StreamEnds \/ Close
    BY <1>1, <2>3, StartInvariant
  <2>4. CASE ImagerCold
    BY <1>1, <2>4, ImagerColdInvariant
  <2>5. CASE UNCHANGED vars
    <3>1. UNCHANGED <<regs, cols, rows, sensor0, triggermode, version, state, pc, config, plan,
                      doubtful, restarted>>
      BY <2>5, Zenon DEF vars, cameraVars, history
    <3>2. RegistersInv' /\ ControlInv' /\ SizeInv'
      BY <1>1, <3>1, Zenon DEF IInv, RegistersInv, ControlInv, SizeInv, SetUp
    <3>3. (Settling' => Settling) /\ (Testing' => Testing)
      BY <3>1, Zenon DEF Settling, Testing, SetUp
    <3>4. SettingsInv'
      BY <1>1, <3>1, <3>3, SettingsKept, Zenon DEF IInv
    <3>5. PatternInv' /\ FirmwareInv'
      BY <1>1, <3>1, <3>3, Zenon DEF IInv, PatternInv, FirmwareInv, Provided, SetUp
    <3> QED BY <3>2, <3>4, <3>5, Zenon DEF IInv
  <2> QED BY <1>1, <2>1, <2>2, <2>3, <2>4, <2>5, Zenon DEF Next
<1> QED BY <1>1, InitInvariant, PTL DEF Spec

-----------------------------------------------------------------------------
(* The properties *)

\* Numbers of rows, blankings and windows stay within the bounds of the
\* imager, and the driver writes registers only while it opens the camera.
THEOREM TypeCorrect == Spec => []TypeOK
<1>1. ASSUME IInv PROVE TypeOK
  <2>1. ASSUME NEW d \in Contexts, NEW n \in TimingNames
        PROVE  ContextValueOK(n, regs[<<d, n>>])
    <3>1. <<d, n>> \in Registers
      BY SMT DEF Registers, ContextRegisters, TimingNames
    <3> QED BY <1>1, <3>1, Zenon DEF IInv, RegistersInv, ValueOK
  <2>2. ASSUME NEW d \in Contexts
        PROVE  /\ regs[<<d, "shutter">>] \in Shutters
               /\ regs[<<d, "width">>] \in Widths
               /\ regs[<<d, "height">>] \in Heights
               /\ regs[<<d, "hblank">>] \in 1 .. MaxHblank
               /\ regs[<<d, "vblank">>] \in 1 .. MaxVblank
    BY <2>1, Zenon DEF ContextValueOK, TimingNames
  <2>3. regs[<<"both", "max_shutter">>] \in LongestShutters
    <3>1. <<"both", "max_shutter">> \in Registers
      BY SMT DEF Registers, SharedRegisters
    <3> QED BY <1>1, <3>1, Zenon DEF IInv, RegistersInv, ValueOK
  <2>4. DOMAIN regs = Registers /\ doubtful \subseteq Registers /\ cols \in Nat /\ rows \in Nat
    BY <1>1, Zenon DEF IInv, RegistersInv, SizeInv
  <2>5. /\ sensor0 \in {7, Unused}
        /\ state \in {"CLOSED", "OPENED", "RUNNING"}
        /\ pc \in {"idle", "resolution", "version", "settings", "check", "pattern"}
        /\ pc # "idle" => state = "CLOSED"
        /\ plan # <<>> => pc \in {"settings", "pattern"}
    BY <1>1, Zenon DEF IInv, ControlInv
  <2> QED BY <2>2, <2>3, <2>4, <2>5, Zenon DEF TypeOK
<1> QED BY <1>1, Invariant, PTL

\* Once the camera is set up nothing is left to be written: each register the
\* settings decide holds what is wanted, unless it is in doubt.
LEMMA RegistersHold ==
    ASSUME IInv, SetUp, NEW r, r \in Decided(config) \/ r = TestRegister, r \notin doubtful
    PROVE  Wanted(config, version, r, regs[r])
<1>1. plan = <<>> /\ pc = "idle"
  BY SMT DEF IInv, ControlInv, SetUp
<1>2. Settling /\ Testing
  BY Zenon DEF Settling, Testing
<1>3. Provided(r)
  BY <1>2, Zenon DEF IInv, SettingsInv, PatternInv, TestRegister
<1> QED BY <1>1, <1>3, EmptyPlan, Zenon DEF Provided

\* In an open driver a register of a context holds what is wanted, or is in
\* doubt.
LEMMA ContextHolds ==
    ASSUME IInv, SetUp, NEW d \in Used(config), NEW n \in ContextNames, <<d, n>> \notin doubtful
    PROVE  /\ WindowWanted(SettingsOf(config, d), n, regs[<<d, n>>])
           /\ ExposureWanted(version, d, SettingsOf(config, d), n, regs[<<d, n>>])
<1>1. <<d, n>> \in Decided(config)
  BY DEF Decided
<1>2. Wanted(config, version, <<d, n>>, regs[<<d, n>>])
  BY <1>1, RegistersHold, Zenon
<1> QED BY <1>2, Zenon DEF Wanted

\* So does a register that both contexts share.
LEMMA SharedHolds ==
    ASSUME IInv, SetUp, NEW n \in Switches \cup {"max_shutter"}, <<"both", n>> \notin doubtful
    PROVE  /\ n \in Switches => \A d \in Used(config) :
                SwitchWanted(d, SettingsOf(config, d), n, regs[<<"both", n>>])
           /\ n = "max_shutter" => LongestWanted(config, version, regs[<<"both", n>>])
<1>1. <<"both", n>> \in Decided(config)
  BY DEF Decided
<1>2. Wanted(config, version, <<"both", n>>, regs[<<"both", n>>])
  BY <1>1, RegistersHold, Zenon
<1> QED BY <1>2, Zenon DEF Wanted

\* "The imager frame size set by I2C must match the one used by the
\* firmware", for every context in use, and the firmware is triggered as
\* configured, and reports the context when frames of both come.
THEOREM Agreement == Spec => []FirmwareAgrees
<1>1. ASSUME IInv PROVE FirmwareAgrees
  <2> SUFFICES ASSUME SetUp PROVE FirmwareAgrees
    BY Zenon DEF FirmwareAgrees
  <2>1. cols = config.width /\ rows = config.height /\ InRange(config)
    BY <1>1, Zenon DEF IInv, SizeInv, ControlInv
  <2>2. ASSUME NEW d \in InUse,
               {<<d, "width">>, <<d, "height">>, <<d, "read_mode">>} \cap doubtful = {}
        PROVE  /\ regs[<<d, "width">>] = cols * 2^regs[<<d, "read_mode">>].binx
               /\ regs[<<d, "height">>] = rows * 2^regs[<<d, "read_mode">>].biny
    <3> DEFINE s == SettingsOf(config, d)
    <3>1. d \in Used(config) /\ d \in Contexts
      BY UsedContexts, Zenon DEF InUse, Used
    <3>2. \A n \in {"width", "height", "read_mode"} :
            n \in ContextNames /\ <<d, n>> \notin doubtful
      BY <2>2 DEF ContextNames
    <3>3. \A n \in {"width", "height", "read_mode"} : WindowWanted(s, n, regs[<<d, n>>])
      BY <1>1, <3>1, <3>2, ContextHolds, Zenon
    <3>4. /\ regs[<<d, "width">>] = Wide(s) /\ regs[<<d, "height">>] = High(s)
          /\ regs[<<d, "read_mode">>] =
               ReadMode(BinShift(s.horizontal_binning), BinShift(s.vertical_binning),
                        s.mirror_x # s.rotate_180, s.mirror_y # s.rotate_180)
      BY <3>3, Zenon DEF WindowWanted
    <3>5. /\ regs[<<d, "read_mode">>].binx = BinShift(s.horizontal_binning)
          /\ regs[<<d, "read_mode">>].biny = BinShift(s.vertical_binning)
      BY <3>4, SMT DEF ReadMode
    <3>6. s.width = cols /\ s.height = rows
      BY <2>1, <3>1, SettingsTyped, Zenon DEF SettingsInRange
    <3> HIDE DEF s
    <3> QED BY <3>4, <3>5, <3>6, Zenon DEF Wide, High
  <2>3. ASSUME state = "RUNNING"
        PROVE  triggermode = TrigMode(config) /\ (triggermode.alternate => sensor0 = 7)
    <3>1. triggermode = TrigMode(config)
      BY <1>1, <2>3, Zenon DEF IInv, FirmwareInv, SetUp
    <3>2. Both(config) => sensor0 = 7
      BY <1>1, Zenon DEF IInv, FirmwareInv
    <3>3. triggermode.alternate = Both(config)
      BY <3>1, SMT DEF TrigMode
    <3> QED BY <3>1, <3>2, <3>3, Zenon
  <2> QED BY <2>2, <2>3, Zenon DEF FirmwareAgrees
<1> QED BY <1>1, Invariant, PTL

\* Switches, gain and mirror bits of an open driver are as configured.
LEMMA FlagsHold ==
    ASSUME IInv, SetUp, NEW d \in Used(config)
    PROVE  Flags(d, SettingsOf(config, d))
<1> DEFINE s == SettingsOf(config, d)
<1>1. ASSUME Sure(<<"both", "agc_aec">>)
      PROVE  regs[<<"both", "agc_aec">>][d] = [agc |-> s.auto_gain, aec |-> s.auto_exposure]
  BY <1>1, SharedHolds, Zenon DEF Sure, Switches, SwitchWanted
<1>2. ASSUME Sure(<<"both", "companding">>)
      PROVE  regs[<<"both", "companding">>][d] = s.companding
  BY <1>2, SharedHolds, Zenon DEF Sure, Switches, SwitchWanted
<1>3. ASSUME Sure(<<d, "gain">>) PROVE regs[<<d, "gain">>] = s.gain
  BY <1>3, ContextHolds, Zenon DEF Sure, ContextNames, WindowWanted
<1>4. ASSUME Sure(<<d, "read_mode">>)
      PROVE  /\ regs[<<d, "read_mode">>].mirrorx = (s.mirror_x # s.rotate_180)
             /\ regs[<<d, "read_mode">>].mirrory = (s.mirror_y # s.rotate_180)
  <2>1. regs[<<d, "read_mode">>] =
          ReadMode(BinShift(s.horizontal_binning), BinShift(s.vertical_binning),
                   s.mirror_x # s.rotate_180, s.mirror_y # s.rotate_180)
    BY <1>4, ContextHolds, Zenon DEF Sure, ContextNames, WindowWanted
  <2> QED BY <2>1, SMT DEF ReadMode
<1> QED BY <1>1, <1>2, <1>3, <1>4, Zenon DEF Flags

\* Exposure and frame period of an open driver are as configured.
LEMMA TimingHolds ==
    ASSUME IInv, SetUp, NEW d \in Used(config)
    PROVE  Timing(d, SettingsOf(config, d))
<1> DEFINE s == SettingsOf(config, d)
           line == regs[<<d, "width">>] + regs[<<d, "hblank">>]
           lines == regs[<<d, "height">>] + regs[<<d, "vblank">>]
           late == line * lines - Target(s.imager_rate)
<1>1. SUFFICES ASSUME {<<d, n>> : n \in TimingNames} \cap doubtful = {}
               PROVE  /\ Near(regs[<<d, "shutter">>], line, s.exposure)
                      /\ \/ 2 * late \in -line - 8 .. line + 8
                         \/ regs[<<d, "vblank">>] = MinVblank /\ late > 0
                         \/ regs[<<d, "vblank">>] = MaxVblank /\ late < 0
  <2>1. {<<d, n>> : n \in TimingNames} =
          {<<d, "width">>, <<d, "height">>, <<d, "hblank">>, <<d, "vblank">>, <<d, "shutter">>}
    BY DEF TimingNames
  <2> QED BY <2>1, Zenon DEF Timing
<1>2. d \in Contexts /\ InRange(config)
  BY UsedContexts, Zenon DEF IInv, ControlInv
<1>3. SettingsInRange(config, s)
  BY <1>2, SettingsTyped, Zenon
<1>4. ~Refused(s)
  <2>1. ~Impossible(config, version)
    BY Zenon DEF IInv, SettingsInv, Settling
  <2>2. SettingsInRange(config, PrimarySettings(config)) /\ ~Refused(PrimarySettings(config))
    BY <1>2, <2>1, SettingsTyped, Zenon DEF Impossible, SettingsOf, Contexts
  <2> QED BY <1>3, <2>2, SameWindow, Zenon
<1>5. /\ Wide(s) \in Widths /\ High(s) \in Heights /\ Hb(s) \in Hblanks /\ Line(s) \in RowTicks
  BY <1>2, <1>3, <1>4, WindowInRange, Zenon
<1>6. /\ regs[<<d, "width">>] = Wide(s) /\ regs[<<d, "height">>] = High(s)
      /\ regs[<<d, "hblank">>] = Hb(s) /\ regs[<<d, "vblank">>] = Vb(s)
      /\ regs[<<d, "shutter">>] = Lines(s.exposure, Line(s), MaxShutter(version, d))
  <2>1. \A n \in TimingNames : n \in ContextNames /\ <<d, n>> \notin doubtful
    BY <1>1 DEF TimingNames, ContextNames
  <2>2. \A n \in TimingNames : /\ WindowWanted(s, n, regs[<<d, n>>])
                               /\ ExposureWanted(version, d, s, n, regs[<<d, n>>])
    BY <2>1, ContextHolds, Zenon
  <2> QED BY <2>2, Zenon DEF TimingNames, WindowWanted, ExposureWanted
<1>7. s.imager_rate \in Rates /\ s.exposure \in 0 .. LongestExposure
  BY <1>3, Zenon DEF SettingsInRange, Rates
<1> HIDE DEF s
<1>8. line = Line(s)
  BY <1>6, Zenon DEF Line
<1>9. Near(regs[<<d, "shutter">>], line, s.exposure)
  BY <1>5, <1>6, <1>7, <1>8, ExposureHeld, Zenon
<1>10. LET l == (Wide(s) + Hb(s)) * (High(s) + Vb(s)) - Target(s.imager_rate)
       IN  \/ 2 * l \in -(Wide(s) + Hb(s)) - 8 .. (Wide(s) + Hb(s)) + 8
           \/ Vb(s) = MinVblank /\ l > 0
           \/ Vb(s) = MaxVblank /\ l < 0
  BY <1>5, <1>7, VblankBounds, Zenon DEF Vb
<1>11. \/ 2 * late \in -line - 8 .. line + 8
       \/ regs[<<d, "vblank">>] = MinVblank /\ late > 0
       \/ regs[<<d, "vblank">>] = MaxVblank /\ late < 0
  BY <1>6, <1>10, Zenon
<1> QED BY <1>9, <1>11, Zenon

\* The longest automatic exposure is as configured, with one context in use.
LEMMA LongestHolds ==
    ASSUME IInv, SetUp, ~Both(config)
    PROVE  Longest(PrimarySettings(config))
<1> DEFINE s == PrimarySettings(config)
           line == regs[<<"primary", "width">>] + regs[<<"primary", "hblank">>]
           longest == regs[<<"both", "max_shutter">>]
           limit == MaxMaxShutter(version, "primary")
<1>1. SUFFICES ASSUME {<<"primary", "width">>, <<"primary", "hblank">>, <<"both", "max_shutter">>}
                        \cap doubtful = {}
               PROVE  Near(longest, line, MaxExposure(s)) \/ longest = limit
  BY Zenon DEF Longest
<1>2. InRange(config) /\ s = SettingsOf(config, "primary")
  BY Zenon DEF IInv, ControlInv, SettingsOf
<1>3. SettingsInRange(config, s) /\ "primary" \in Used(config)
  BY <1>2, SettingsTyped, Zenon DEF Contexts, Used
<1>4. ~Refused(s)
  BY Zenon DEF IInv, SettingsInv, Settling, Impossible
<1>5. Line(s) \in RowTicks /\ MaxExposure(s) \in Nat
  BY <1>2, <1>3, <1>4, WindowInRange, LongestNat, Zenon
<1>6. /\ <<"primary", "width">> \notin doubtful /\ <<"primary", "hblank">> \notin doubtful
      /\ <<"both", "max_shutter">> \notin doubtful
  BY <1>1
<1>7. line = Line(s)
  <2>1. regs[<<"primary", "width">>] = Wide(s) /\ regs[<<"primary", "hblank">>] = Hb(s)
    BY <1>2, <1>3, <1>6, ContextHolds, Zenon DEF ContextNames, WindowWanted
  <2> QED BY <2>1, Zenon DEF Line
<1>8. longest = Lines(MaxExposure(s), Line(s), limit)
  BY <1>6, SharedHolds, Zenon DEF LongestWanted
<1>9. limit \in Nat \ {0}
  BY SMT DEF MaxMaxShutter
<1>10. Line(s) \in Nat \ {0}
  BY <1>5, Sizes, Zenon
<1> HIDE DEF s, limit
<1> QED BY <1>5, <1>7, <1>8, <1>9, <1>10, LinesBounds, Zenon

(***************************************************************************)
(* An open driver has every context in use as configured, whatever writes  *)
(* failed on the way, as far as it is sure of the registers: switches,     *)
(* gain and mirror; the exposure within a row and the frame period within  *)
(* half a row of the one asked for, as far as the imager can; the longest  *)
(* automatic exposure; the test pattern.                                   *)
(***************************************************************************)
THEOREM Configured == Spec => []ContextsAsConfigured
<1>1. ASSUME IInv PROVE ContextsAsConfigured
  <2> SUFFICES ASSUME SetUp PROVE ContextsAsConfigured
    BY Zenon DEF ContextsAsConfigured
  <2>1. Flags("primary", PrimarySettings(config)) /\ Timing("primary", PrimarySettings(config))
    <3>1. "primary" \in Used(config) /\ SettingsOf(config, "primary") = PrimarySettings(config)
      BY DEF Used, Contexts, SettingsOf
    <3> QED BY <1>1, <3>1, FlagsHold, TimingHolds, Zenon
  <2>2. ASSUME Both(config)
        PROVE  /\ Flags("alternate", AlternateSettings(config))
               /\ Timing("alternate", AlternateSettings(config))
    <3>1. /\ "alternate" \in Used(config)
          /\ SettingsOf(config, "alternate") = AlternateSettings(config)
      BY <2>2 DEF Used, Contexts, SettingsOf
    <3> QED BY <1>1, <3>1, FlagsHold, TimingHolds, Zenon
  <2>3. ASSUME ~Both(config) PROVE Longest(PrimarySettings(config))
    BY <1>1, <2>3, LongestHolds, Zenon
  <2>4. ASSUME Sure(<<"both", "test_pattern">>)
        PROVE  PatternOn(regs[<<"both", "test_pattern">>]) = config.test_pattern
    <3>1. Wanted(config, version, TestRegister, regs[TestRegister])
      BY <1>1, <2>4, RegistersHold, Zenon DEF Sure, TestRegister
    <3> QED BY <3>1, Zenon DEF Wanted, TestRegister
  <2> QED BY <2>1, <2>2, <2>3, <2>4, Zenon DEF ContextsAsConfigured
<1> QED BY <1>1, Invariant, PTL
=============================================================================
