----------------------------- MODULE CameraOpen -----------------------------
(***************************************************************************)
(* How the driver sets up a camera: doOpen and doStart of                  *)
(* wge100_camera_node.cpp with config_update, setImagerSettings and the    *)
(* commands they send (wge100lib.c), and what these do inside the camera   *)
(* (wge.fs, mt9v.fs).                                                      *)
(*                                                                         *)
(* Finding and configuring the camera is the subject of Discovery; here it *)
(* succeeds or not.  A command that fails may have had its effect, since   *)
(* it may be the answer that is lost.  wge100ReliableSensorWrite stores    *)
(* the value when its compare succeeded (SensorAccess); it may return 0    *)
(* without that, and the register is then in doubt.                        *)
(***************************************************************************)
EXTENDS Imager, FiniteSets

CONSTANTS Configs,    \* the configurations of the driver
          Versions,   \* the imagers a camera may have
          Serials,    \* "none" (0), "027" and "other"
          MaxOpens,   \* bound: openings begun
          MaxFaults   \* bound: commands and writes that fail

\* What dynamic reconfigure lets through (common_parameters.py); the longest
\* exposure is a tenth of a second.
LongestExposure == 100000
ContextInRange(r) ==
    /\ DOMAIN r = {"auto_exposure", "auto_gain", "gain", "exposure", "companding"}
    /\ r.auto_exposure \in BOOLEAN /\ r.auto_gain \in BOOLEAN /\ r.companding \in BOOLEAN
    /\ r.gain \in 16 .. 127
    /\ r.exposure \in 0 .. LongestExposure

CommonFields ==
    {"width", "height", "x_offset", "y_offset", "horizontal_binning", "vertical_binning",
     "imager_rate", "mirror_x", "mirror_y", "rotate_180", "auto_black_level", "black_level",
     "black_level_filter_length", "black_level_step_size", "brightness", "max_exposure"}
InRange(c) ==
    /\ DOMAIN c = CommonFields \cup
         {"primary", "alternate", "register_set", "ext_trig", "trig_rate",
          "trig_timestamp_topic", "rising_edge_trig", "test_pattern"}
    /\ ContextInRange(c.primary) /\ ContextInRange(c.alternate)
    /\ c.register_set \in {"primary", "alternate", "both"}
    /\ c.width \in 1 .. 752 /\ c.height \in 1 .. 480
    /\ c.x_offset \in 0 .. 752 /\ c.y_offset \in 0 .. 480
    /\ c.horizontal_binning \in 1 .. 4 /\ c.vertical_binning \in 1 .. 4
    /\ c.imager_rate \in 1 .. 100 /\ c.trig_rate \in 1 .. 100
    /\ c.max_exposure \in 0 .. LongestExposure
    /\ c.black_level \in -127 .. 127 /\ c.black_level_filter_length \in 0 .. 7
    /\ c.black_level_step_size \in 0 .. 31 /\ c.brightness \in 1 .. 64
    /\ c.mirror_x \in BOOLEAN /\ c.mirror_y \in BOOLEAN /\ c.rotate_180 \in BOOLEAN
    /\ c.auto_black_level \in BOOLEAN /\ c.test_pattern \in BOOLEAN
    /\ c.ext_trig \in BOOLEAN /\ c.trig_timestamp_topic \in BOOLEAN /\ c.rising_edge_trig \in BOOLEAN

ASSUME ConfigsAssumption == \A c \in Configs : InRange(c)
ASSUME MaxOpensAssumption == MaxOpens \in Nat
ASSUME MaxFaultsAssumption == MaxFaults \in Nat
ASSUME VersionsAssumption == Versions \subseteq {"MT9V034", "MT9V032", "unknown"}
ASSUME SerialsAssumption == Serials \subseteq {"none", "027", "other"}

VARIABLES
    regs, cols, rows,      \* the imager, and the frame size of the firmware
    sensor0, triggermode,  \* what the firmware reports and how it is triggered
    version, serial,       \* the camera found
    state, pc, config,
    plan,                  \* register writes still to be made
    doubtful,              \* registers whose last write was not confirmed (history)
    restarted,             \* the camera lost its settings since (history)
    opens, faults          \* (history)

cameraVars == <<regs, cols, rows, sensor0, triggermode>>
history == <<doubtful, restarted>>
vars == <<cameraVars, version, serial, state, pc, config, plan, history, opens, faults>>

NoTrigger == [external |-> FALSE, alternate |-> FALSE, rising |-> FALSE]
Unused == -1

Init ==
    /\ regs = Reset
    /\ cols = 640
    /\ rows = 480
    /\ sensor0 = Unused
    /\ triggermode = NoTrigger
    /\ version \in Versions
    /\ serial \in Serials
    /\ state = "CLOSED"
    /\ pc = "idle"
    /\ config \in Configs
    /\ plan = <<>>
    /\ doubtful = {}
    /\ restarted = FALSE
    /\ opens = 0
    /\ faults = 0

-----------------------------------------------------------------------------
(* config_update and the settings of the contexts *)

Period(c) == IF c.ext_trig THEN 990000 \div c.trig_rate ELSE 990000 \div c.imager_rate
Legal(binning) == IF binning = 3 THEN 2 ELSE binning
AtMost(v, limit) == IF v > limit THEN limit ELSE v

\* Only the exposure of the primary settings is checked.
ConfigUpdate(c) ==
    [c EXCEPT !.horizontal_binning = Legal(@),
              !.vertical_binning = Legal(@),
              !.primary.exposure = IF c.primary.auto_exposure THEN @ ELSE AtMost(@, Period(c)),
              !.max_exposure = IF c.primary.auto_exposure THEN AtMost(@, Period(c)) ELSE @]

Both(c) == c.register_set = "both"

Common(c) == [f \in CommonFields |-> c[f]]
Merged(r, s) == [f \in DOMAIN r \cup DOMAIN s |-> IF f \in DOMAIN s THEN s[f] ELSE r[f]]

\* With both contexts on, three settings trade places ("workaround for
\* firmware/imager bug").
Swapped(s, t) ==
    [s EXCEPT !.auto_exposure = t.auto_exposure, !.gain = t.gain, !.companding = t.companding]

PrimarySettings(c) ==
    Merged(Common(c), CASE c.register_set = "primary" -> c.primary
                        [] c.register_set = "alternate" -> c.alternate
                        [] OTHER -> Swapped(c.primary, c.alternate))
AlternateSettings(c) == Merged(Common(c), Swapped(c.alternate, c.primary))

\* The writes for configuration c; none after the constructor when setMode
\* refuses or there is no alternate context.
Impossible(c, v) == Refused(PrimarySettings(c)) \/ (Both(c) /\ v # "MT9V034")
Writes(c, v) ==
    IF Impossible(c, v)
    THEN Constructor(v)
    ELSE Constructor(v)
           \o Settings(v, "primary", PrimarySettings(c), CacheAtReset)
           \o IF Both(c)
              THEN Settings(v, "alternate", AlternateSettings(c),
                            AlternateCache(PrimarySettings(c)))
              ELSE <<>>

TestPattern == << Write("both", "test_pattern", 14336), Write("both", "hdr", 6) >>

-----------------------------------------------------------------------------
(* doOpen *)

Fault == faults < MaxFaults /\ faults' = faults + 1

\* doOpen returns early.
GiveUp == pc' = "idle" /\ UNCHANGED <<state, plan>>

Open(c) ==
    /\ state = "CLOSED"
    /\ pc = "idle"
    /\ opens < MaxOpens
    /\ opens' = opens + 1
    /\ config' = ConfigUpdate(c)
    /\ \/ /\ ~(c.ext_trig /\ ~c.trig_timestamp_topic)
          /\ pc' = "resolution"
          /\ UNCHANGED <<state, plan, faults>>
       \/ /\ c.ext_trig /\ ~c.trig_timestamp_topic
          /\ GiveUp
          /\ UNCHANGED faults
       \/ Fault /\ GiveUp   \* the camera is not found or not configured
    /\ UNCHANGED <<cameraVars, version, serial, history>>

\* handle-imagersetres: the imager is reset first.  A fault: it is told the
\* size of the window before binning.
WindowSize(c) == <<Wide(PrimarySettings(c)), High(PrimarySettings(c))>>
FrameSize(c) == <<c.width, c.height>>
ResolutionSet ==
    /\ regs' = Reset
    /\ cols' = FrameSize(config)[1]
    /\ rows' = FrameSize(config)[2]
    /\ doubtful' = {}
    /\ restarted' = FALSE
    /\ UNCHANGED <<sensor0, triggermode>>

SetResolution ==
    /\ pc = "resolution"
    /\ \/ /\ ResolutionSet
          /\ pc' = "version"
          /\ UNCHANGED <<state, plan, faults>>
       \/ /\ Fault
          /\ ResolutionSet \/ UNCHANGED <<cameraVars, history>>
          /\ GiveUp
    /\ UNCHANGED <<version, serial, config, opens>>

\* MT9VImager::getInstance and the constructor.
GetInstance ==
    /\ pc = "version"
    /\ \/ /\ version # "unknown"
          /\ plan' = Writes(config, version)
          /\ pc' = "settings"
          /\ UNCHANGED <<state, faults>>
       \/ version = "unknown" /\ GiveUp /\ UNCHANGED faults
       \/ Fault /\ GiveUp   \* the version is not read, or read wrongly
    /\ UNCHANGED <<cameraVars, version, serial, config, history, opens>>

\* The first write failed and was only warned of: the rest of its condition
\* is skipped.
Skips(n) ==
    /\ \A k \in 1 .. n : plan[k].group = plan[1].group
    /\ n < Len(plan) => plan[n + 1].group # plan[1].group
    /\ plan' = SubSeq(plan, n + 1, Len(plan))
    /\ doubtful' = doubtful \cup {plan[k].reg : k \in 1 .. n}

Stored(w) == regs' = [regs EXCEPT ![w.reg] = w.value]

\* wge100ReliableSensorWrite of the first write of the plan.
WriteRegister ==
    /\ plan # <<>>
    /\ LET w == Head(plan) IN
       \/ /\ Stored(w)
          /\ plan' = Tail(plan)
          /\ doubtful' = doubtful \ {w.reg}
          /\ UNCHANGED <<state, pc, faults>>
       \/ /\ Fault   \* returns 0 without a successful compare
          /\ Stored(w) \/ UNCHANGED regs
          /\ plan' = Tail(plan)
          /\ doubtful' = doubtful \cup {w.reg}
          /\ UNCHANGED <<state, pc>>
       \/ /\ Fault
          /\ Stored(w) \/ UNCHANGED regs
          /\ IF w.group = "setting"
             THEN /\ plan' = <<>>
                  /\ pc' = "idle"
                  /\ doubtful' = doubtful \cup {w.reg}
             ELSE /\ \E n \in 1 .. Len(plan) : Skips(n)
                  /\ UNCHANGED pc
          /\ UNCHANGED state
    /\ UNCHANGED <<cols, rows, sensor0, triggermode, version, serial, config, restarted, opens>>

\* All settings are written; wge100SensorSelect when both contexts are on.
SelectSensor ==
    /\ pc = "settings"
    /\ plan = <<>>
    /\ \/ /\ Impossible(config, version)
          /\ GiveUp
          /\ UNCHANGED <<sensor0, faults>>
       \/ /\ ~Impossible(config, version)
          /\ sensor0' = IF Both(config) THEN 7 ELSE sensor0
          /\ pc' = "check"
          /\ UNCHANGED <<state, plan, faults>>
       \/ /\ ~Impossible(config, version)
          /\ Both(config)
          /\ Fault
          /\ sensor0' \in {7, sensor0}
          /\ GiveUp
    /\ UNCHANGED <<regs, cols, rows, triggermode, version, serial, config, history, opens>>

\* The serial number must go with the imager; then the test pattern.
CheckModel ==
    /\ pc = "check"
    /\ IF serial # "none" /\ (serial = "027") = (version = "MT9V032")
       THEN GiveUp
       ELSE /\ pc' = "pattern"
            /\ plan' = IF config.test_pattern THEN TestPattern ELSE <<>>
            /\ UNCHANGED state
    /\ UNCHANGED <<cameraVars, version, serial, config, history, opens, faults>>

Opened ==
    /\ pc = "pattern"
    /\ plan = <<>>
    /\ pc' = "idle"
    /\ state' = "OPENED"
    /\ UNCHANGED <<cameraVars, version, serial, config, plan, history, opens, faults>>

-----------------------------------------------------------------------------
(* doStart, doStop and doClose, and the camera by itself *)

TrigMode(c) == [external |-> c.ext_trig, alternate |-> Both(c), rising |-> c.rising_edge_trig]

Start ==
    /\ state = "OPENED"
    /\ \/ /\ triggermode' = TrigMode(config)
          /\ state' = "RUNNING"
          /\ UNCHANGED faults
       \/ /\ Fault
          /\ triggermode' \in {triggermode, TrigMode(config)}
          /\ state' = "CLOSED"
    /\ UNCHANGED <<regs, cols, rows, sensor0, version, serial, pc, config, plan, history, opens>>

\* The driver stops, or its image thread ends.
StreamEnds ==
    /\ state = "RUNNING"
    /\ state' = "OPENED"
    /\ UNCHANGED <<cameraVars, version, serial, pc, config, plan, history, opens, faults>>

Close ==
    /\ state = "OPENED"
    /\ state' = "CLOSED"
    /\ UNCHANGED <<cameraVars, version, serial, pc, config, plan, history, opens, faults>>

(***************************************************************************)
(* mt9v-cold: no packet came for ten seconds, or the camera boots.  The    *)
(* commands of an opening are not that far apart.                          *)
(***************************************************************************)
ImagerCold ==
    /\ pc = "idle"
    /\ ~restarted
    /\ restarted' = TRUE
    /\ regs' = Reset
    /\ sensor0' = Unused
    /\ triggermode' = NoTrigger
    /\ UNCHANGED <<cols, rows, version, serial, state, pc, config, plan, doubtful, opens, faults>>

DriverStep ==
    \/ SetResolution
    \/ GetInstance
    \/ WriteRegister
    \/ SelectSensor
    \/ CheckModel
    \/ Opened
    \/ Start

Next ==
    \/ \E c \in Configs : Open(c)
    \/ DriverStep
    \/ StreamEnds
    \/ Close
    \/ ImagerCold

Spec == Init /\ [][Next]_vars

-----------------------------------------------------------------------------
\* Numbers of rows that the shutter registers hold, and the longest blanking
\* of a row.
MostRows == 32767
MostRowsAutomatic == 32765
MaxHblank == 1022
Shutters == 1 .. MostRows
LongestShutters == 1 .. MostRowsAutomatic

TypeOK ==
    /\ DOMAIN regs = Registers
    /\ \A c \in Contexts : /\ regs[<<c, "shutter">>] \in Shutters
                           /\ regs[<<c, "width">>] \in Widths
                           /\ regs[<<c, "height">>] \in Heights
                           /\ regs[<<c, "hblank">>] \in 1 .. MaxHblank
                           /\ regs[<<c, "vblank">>] \in 1 .. MaxVblank
    /\ regs[<<"both", "max_shutter">>] \in LongestShutters
    /\ cols \in Nat /\ rows \in Nat
    /\ sensor0 \in {7, Unused}
    /\ state \in {"CLOSED", "OPENED", "RUNNING"}
    /\ pc \in {"idle", "resolution", "version", "settings", "check", "pattern"}
    /\ pc # "idle" => state = "CLOSED"
    /\ plan # <<>> => pc \in {"settings", "pattern"}
    /\ doubtful \subseteq Registers

\* The camera still is as the driver set it up.
SetUp == state # "CLOSED" /\ ~restarted
Sure(r) == r \notin doubtful

(***************************************************************************)
(* "The imager frame size set by I2C must match the one used by the        *)
(* firmware, or system failure could result": in every context in use, the *)
(* window after binning has the rows and columns that the firmware sends.  *)
(* While the driver runs, the firmware is triggered as configured, and it  *)
(* reports the context of a frame when frames of both come.                *)
(***************************************************************************)
InUse == IF Both(config) THEN Contexts ELSE {"primary"}
FirmwareAgrees ==
    SetUp =>
      /\ \A c \in InUse :
           {<<c, "width">>, <<c, "height">>, <<c, "read_mode">>} \cap doubtful = {} =>
             /\ regs[<<c, "width">>] = cols * 2^regs[<<c, "read_mode">>].binx
             /\ regs[<<c, "height">>] = rows * 2^regs[<<c, "read_mode">>].biny
      /\ state = "RUNNING" => /\ triggermode = TrigMode(config)
                              /\ triggermode.alternate => sensor0 = 7

(***************************************************************************)
(* An open driver has every context in use as configured, though the       *)
(* contexts share registers of which each changes its own part only, and   *)
(* writes fail on the way: switches, gain, mirror; an exposure within a    *)
(* row of the one asked for; a frame period within half a row of it, as    *)
(* far as the limits of the blanking allow.  The longest exposure of the   *)
(* automatic control is as asked when one context is in use; when both     *)
(* are, the alternate one's lower limit decides.                           *)
(***************************************************************************)
Flags(c, s) ==
    /\ Sure(<<"both", "agc_aec">>) =>
         regs[<<"both", "agc_aec">>][c] = [agc |-> s.auto_gain, aec |-> s.auto_exposure]
    /\ Sure(<<"both", "companding">>) => regs[<<"both", "companding">>][c] = s.companding
    /\ Sure(<<c, "gain">>) => regs[<<c, "gain">>] = s.gain
    /\ Sure(<<c, "read_mode">>) =>
         /\ regs[<<c, "read_mode">>].mirrorx = (s.mirror_x # s.rotate_180)
         /\ regs[<<c, "read_mode">>].mirrory = (s.mirror_y # s.rotate_180)

\* That many rows are the exposure asked for to within a row, or the one row
\* that there must be.
Near(exposed, line, exposure) ==
    \/ exposed * line \in 16 * exposure - line .. 16 * exposure
    \/ exposed = 1 /\ line > 16 * exposure

Timing(c, s) ==
    {<<c, "width">>, <<c, "height">>, <<c, "hblank">>, <<c, "vblank">>, <<c, "shutter">>}
        \cap doubtful = {} =>
      LET line == regs[<<c, "width">>] + regs[<<c, "hblank">>]
          lines == regs[<<c, "height">>] + regs[<<c, "vblank">>]
          late == line * lines - Target(s.imager_rate)
      IN  /\ Near(regs[<<c, "shutter">>], line, s.exposure)
          /\ \/ 2 * late \in -line - 8 .. line + 8
             \/ regs[<<c, "vblank">>] = MinVblank /\ late > 0
             \/ regs[<<c, "vblank">>] = MaxVblank /\ late < 0

Longest(s) ==
    {<<"primary", "width">>, <<"primary", "hblank">>, <<"both", "max_shutter">>}
        \cap doubtful = {} =>
      LET line == regs[<<"primary", "width">>] + regs[<<"primary", "hblank">>]
          longest == regs[<<"both", "max_shutter">>]
      IN  \/ Near(longest, line, MaxExposure(s))
          \/ longest = MaxMaxShutter(version, "primary")

PatternOn(x) == x = 14336

ContextsAsConfigured ==
    SetUp => /\ Flags("primary", PrimarySettings(config))
             /\ Timing("primary", PrimarySettings(config))
             /\ Both(config) => /\ Flags("alternate", AlternateSettings(config))
                                /\ Timing("alternate", AlternateSettings(config))
             /\ ~Both(config) => Longest(PrimarySettings(config))
             /\ Sure(<<"both", "test_pattern">>) =>
                  PatternOn(regs[<<"both", "test_pattern">>]) = config.test_pattern
=============================================================================
