---------------------------- MODULE MCCameraOpen ----------------------------
(***************************************************************************)
(* Instances of CameraOpen for TLC.                                        *)
(***************************************************************************)
EXTENDS CameraOpen

Context(ae, ag, g, e, comp) ==
    [auto_exposure |-> ae, auto_gain |-> ag, gain |-> g, exposure |-> e, companding |-> comp]

Plain ==
    [width |-> 640, height |-> 480, x_offset |-> 0, y_offset |-> 0,
     horizontal_binning |-> 1, vertical_binning |-> 1, imager_rate |-> 30,
     mirror_x |-> FALSE, mirror_y |-> FALSE, rotate_180 |-> FALSE,
     auto_black_level |-> TRUE, black_level |-> 0, black_level_filter_length |-> 4,
     black_level_step_size |-> 2, brightness |-> 58, max_exposure |-> 0,
     primary |-> Context(TRUE, TRUE, 16, 10000, TRUE),
     alternate |-> Context(FALSE, TRUE, 32, 5000, FALSE),
     register_set |-> "primary", ext_trig |-> FALSE, trig_rate |-> 30,
     trig_timestamp_topic |-> FALSE, rising_edge_trig |-> FALSE, test_pattern |-> FALSE]

\* Both contexts; binned, turned and too long exposed with a test pattern;
\* a window outside the imager; slow; an external trigger without a topic.
MCConfigs ==
    {Plain,
     [Plain EXCEPT !.register_set = "both", !.primary.auto_gain = FALSE],
     [Plain EXCEPT !.register_set = "alternate", !.mirror_x = TRUE],
     [Plain EXCEPT !.width = 320, !.height = 240, !.horizontal_binning = 3,
                   !.vertical_binning = 2, !.imager_rate = 60, !.mirror_x = TRUE,
                   !.rotate_180 = TRUE, !.primary = Context(FALSE, FALSE, 20, 50000, FALSE),
                   !.test_pattern = TRUE],
     [Plain EXCEPT !.width = 752],
     [Plain EXCEPT !.imager_rate = 1, !.max_exposure = 100000, !.ext_trig = TRUE,
                   !.trig_rate = 1, !.trig_timestamp_topic = TRUE, !.rising_edge_trig = TRUE,
                   !.primary.exposure = 3],
     [Plain EXCEPT !.ext_trig = TRUE]}
=============================================================================
