------------------------------ MODULE MCRouting ------------------------------
(***************************************************************************)
(* Cards and configurations of sources for TLC.                            *)
(***************************************************************************)
EXTENDS Routing

T == INSTANCE TLC

Yuv(channel, source, link) ==
  [channel |-> channel, source |-> source, link |-> link, rgba |-> FALSE,
   rgbIn |-> FALSE, passthrough |-> FALSE, is12G |-> FALSE, audio |-> "none"]

Symmetry == T!Permutations(Streams)

BidirectionalCard == [bidirectional |-> TRUE, outputs |-> 8]

\* One whose connectors are inputs or outputs for good.
FixedCard == [bidirectional |-> FALSE, outputs |-> 4]

\* One with half as many bidirectional connectors.
SmallCard == [bidirectional |-> TRUE, outputs |-> 4]

MCCards == {BidirectionalCard, SmallCard, FixedCard}

\* Single links next to each other, quad links on both halves of the card, a
\* quad link where none is possible, colour conversion and passthrough; frames of
\* both sizes on channels next to each other.
MCConfigs ==
  { [Yuv(5, "SDI", "single") EXCEPT !.audio = "embedded"],
    [Yuv(1, "SDI", "single") EXCEPT !.passthrough = TRUE, !.is12G = TRUE],
    [Yuv(2, "SDI", "single") EXCEPT !.passthrough = TRUE, !.rgba = TRUE],
    [Yuv(2, "SDI", "single") EXCEPT !.is12G = TRUE],
    [Yuv(2, "HDMI", "single") EXCEPT !.rgbIn = TRUE, !.audio = "HDMI"],
    [Yuv(1, "Analog", "single") EXCEPT !.audio = "analog"], Yuv(1, "HDMI", "uhd"),
    Yuv(1, "SDI", "sqd"), Yuv(1, "SDI", "tsi"),
    Yuv(1, "SDI", "tsi8k"), Yuv(1, "SDI", "tsi8khfr"),
    Yuv(2, "SDI", "sqd"), Yuv(5, "SDI", "sqd"),
    [Yuv(5, "SDI", "tsi") EXCEPT !.rgba = TRUE] }
=============================================================================
