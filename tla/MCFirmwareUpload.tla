-------------------------- MODULE MCFirmwareUpload --------------------------
(***************************************************************************)
(* Instances of FirmwareUpload for TLC: pages of two bytes, eight of them, *)
(* half for the firmware, segments of four bytes, the sync byte second.    *)
(***************************************************************************)
EXTENDS FirmwareUpload

Segment(n) == [type |-> "segment", addr |-> n, data |-> <<>>]
Data(a, d) == [type |-> "data", addr |-> a, data |-> d]
Eof == [type |-> "eof", addr |-> 0, data |-> <<>>]
Bad == [type |-> "bad", addr |-> 0, data |-> <<>>]

MCFiles ==
    {<<Segment(0), Data(0, <<7, 170>>), Data(2, <<12, 128>>), Segment(1), Data(0, <<1>>), Eof>>,
     <<Segment(0), Data(0, <<9, 85, 30>>), Eof>>,
     <<Segment(0), Data(0, <<7, 170, 1>>), Segment(1), Data(0, <<2, 3, 4>>), Eof>>,
     <<Segment(0), Data(0, <<7, 170, 3, 4>>), Segment(1), Data(0, <<5, 6, 7, 8>>), Eof>>,
     <<Segment(0), Data(0, <<7, 171>>), Eof>>,
     <<Segment(0), Data(0, <<7, 170>>)>>,
     <<Segment(0), Data(0, <<7, 170>>), Eof, Data(2, <<1>>)>>,
     <<Segment(0), Data(0, <<7, 170>>), Bad, Eof>>,
     <<Data(0, <<7, 170>>), Eof>>,
     <<Data(1, <<7, 170>>), Eof>>,
     <<Segment(0), Data(0, <<7, 170>>), Segment(1), Data(0, <<1>>), Eof>>,
     <<Segment(0), Data(0, <<7, 170>>), Data(1, <<1>>), Eof>>}
=============================================================================
