---------------------------- MODULE RoutingProofs ----------------------------
(***************************************************************************)
(* Theorems about the routing, for any number of sources, and for all      *)
(* configurations that are sensible: those whose inputs are the channel's  *)
(* own.                                                                    *)
(*                                                                         *)
(* The argument is one of ownership.  A source that is set up depends on   *)
(* its wiring; each connector and each signal of that belongs to channels  *)
(* the source claims (Owners).  Whatever the setup of another source       *)
(* removes or connects belongs to a channel which that one claims.  The    *)
(* claims are disjoint, so the wiring stays, provided a setup writes back  *)
(* the routing it read (Locked): that is what the semaphore is for.        *)
(***************************************************************************)
EXTENDS Routing, TLAPS

\* The channels for which SetupVideo takes inputs, converters and frame buffers of
\* the same number: HDMI and analog inputs are fewer, 4k from HDMI has its
\* multiplexers and 8k the second frame buffer on channels 1 and 2 only.
Sensible(c) ==
  /\ c.source = "HDMI" => c.channel <= 4
  /\ c.source = "Analog" => c.channel = 1
  /\ c.link \in {"uhd", "tsi8k", "tsi8khfr"} => c.channel = 1

\* What SetupVideo connects.
Wiring(c) == Passthrough(c) @@ QuadRoutes(c) @@ EndToEnd(c) @@ FirstRoute(c)

\* The channels that a connector or a signal belongs to.
Owners(x) ==
  CASE x[1] \in {"MuxA", "MuxB"} -> IF x[2] <= 2 THEN 1..4 ELSE 5..8
    [] x[1] = "FBB" -> IF x[2] <= 4 THEN 1..4 ELSE 5..8
    [] x[1] = "HDMIIn1Q" -> {1}
    [] OTHER -> {x[2]}

Inputs == {"SDIIn", "SDIInDS2", "HDMIIn", "HDMIInRGB", "HDMIIn1Q", "AnalogIn"}

-----------------------------------------------------------------------------
Underway == {"locked", "read", "applied"}

\* One source at a time is in its setup, and it has the semaphore.
Locked ==
  /\ sem \in 0..1
  /\ \A s \in Streams : pc[s] \in Underway => sem = 0
  /\ \A s, t \in Streams : pc[s] \in Underway /\ pc[t] \in Underway => s = t
  /\ \A s \in Streams : pc[s] = "read" => router[s] = routing

\* Open sources are set up for channels of their own.
Apart ==
  /\ \A s \in Streams : (pc[s] = "closed") <=> (config[s] = NoConfig)
  /\ \A s \in Streams :
       /\ Claims(config[s]) \subseteq 1..card.outputs
       /\ config[s] # NoConfig /\ PassesThrough(config[s]) =>
            PassthroughChannel(config[s]) \notin InputChannels(config[s])
       /\ pc[s] \notin {"closed", "locked"} => Supported(config[s])
  /\ \A s, t \in Streams : s # t => Claims(config[s]) \cap Claims(config[t]) = {}

\* A source that runs has its own frames and sound.
Held ==
  \A s \in Streams :
    LET c == config[s]
    IN  /\ pc[s] = "running" =>
             c.channel \in DOMAIN circulating /\ circulating[c.channel] = FrameRange(c)
        /\ pc[s] \in {"ready", "running"} /\ c.audio # "none" =>
             c.channel \in DOMAIN heard /\ heard[c.channel] = AudioInput(c)

\* What a source that is set up depends on.
Driven ==
  \A s \in SetUp : PassesThrough(config[s]) => PassthroughChannel(config[s]) \in transmit

WiredFor(c) ==
  \A d \in DOMAIN Wiring(c) : d \in DOMAIN routing /\ routing[d] = Wiring(c)[d]

Wired == \A s \in SetUp : WiredFor(config[s])

\* Only connectors are connected.
FromInputs == \A d \in DOMAIN routing : d[1] \notin Inputs

Inv == TypeOK /\ Locked /\ Apart /\ Held /\ InputsNotDriven /\ Driven /\ FromInputs

-----------------------------------------------------------------------------
\* Connections put together.

Connectors == {"FB", "FBB", "FBDS2", "MuxA", "MuxB", "CSC", "SDIOut", "HDMIOutQ"}

\* All of f's connections are of connectors in A to signals in B.
Within(f, A, B) == \A d \in DOMAIN f : d \in A /\ f[d] \in B

LEMMA InMerged ==
  ASSUME NEW f, NEW g, NEW x, x \in DOMAIN f \/ x \in DOMAIN g
  PROVE  x \in DOMAIN (f @@ g)
  BY DEF @@

LEMMA InSingle == ASSUME NEW d, NEW e PROVE d \in DOMAIN (d :> e)
  BY DEF :>

LEMMA WithinMerged ==
  ASSUME NEW f, NEW g, NEW A, NEW B, Within(f, A, B), Within(g, A, B)
  PROVE  Within(f @@ g, A, B)
  BY DEF Within, @@

LEMMA WithinSingle ==
  ASSUME NEW d, NEW e, NEW A, NEW B, d \in A, e \in B
  PROVE  Within(d :> e, A, B)
  BY DEF Within, :>

LEMMA WithinNone == ASSUME NEW A, NEW B PROVE Within(NoRoute, A, B)
  BY DEF Within, NoRoute

\* The multiplexers' connections are of frame buffers n and n + 1 and of
\* multiplexers m and m + 1.
LEMMA WithinMuxRoutes ==
  ASSUME NEW m, NEW n, NEW signals, NEW A, NEW B,
         {<<"FBB", n>>, <<"FB", n + 1>>, <<"FBB", n + 1>>, <<"MuxA", m>>, <<"MuxB", m>>,
          <<"MuxA", m + 1>>, <<"MuxB", m + 1>>} \subseteq A,
         {<<"MuxB", m>>, <<"MuxA", m + 1>>, <<"MuxB", m + 1>>, signals[1], signals[2],
          signals[3], signals[4]} \subseteq B
  PROVE  Within(MuxRoutes(m, n, signals), A, B)
  BY WithinMerged, WithinSingle DEF MuxRoutes

-----------------------------------------------------------------------------
\* Configurations.

LEMMA ConfigFacts ==
  ASSUME NEW c \in Configs
  PROVE  /\ c \in Config /\ c.channel \in 1..8
         /\ c.source \in {"SDI", "HDMI", "Analog"}
         /\ c.link \in {"single", "sqd", "tsi", "tsi8k", "tsi8khfr", "uhd"}
         /\ c.rgba \in BOOLEAN /\ c.rgbIn \in BOOLEAN
         /\ c.link \in {"sqd", "tsi", "tsi8k", "tsi8khfr"} => c.source = "SDI"
         /\ c.link = "uhd" \/ c.rgbIn => c.source = "HDMI"
         /\ InputNumber(c) \in 1..8
         /\ c # NoConfig
<1>1. c \in Config
  BY RoutingAssumption
<1>2. c.channel \in 1..8
  BY <1>1 DEF Config, Channels
<1>3. c # NoConfig
  BY <1>2 DEF NoConfig
<1> QED
  BY <1>1, <1>2, <1>3, RoutingAssumption DEF Config, InputNumber

\* Quad links from SDI are on one half of the card.
LEMMA Halves ==
  ASSUME NEW c \in Configs, Supported(c), c.link \in {"sqd", "tsi", "tsi8k", "tsi8khfr"}
  PROVE  \/ c.channel = 1 /\ Base(c) = 0 /\ FirstMux(c) = 1
         \/ c.channel = 5 /\ Base(c) = 4 /\ FirstMux(c) = 3
  BY ConfigFacts DEF Supported, Base, FirstMux

LEMMA Numbers ==
  ASSUME NEW c \in Configs
  PROVE  FirstMux(c) \in {1, 3} /\ Base(c) \in {0, 4}
  BY DEF FirstMux, Base

-----------------------------------------------------------------------------
\* The parts of a wiring stay within any sets that hold what each is made of.

LEMMA FirstRouteWithin ==
  ASSUME NEW c \in Configs, NEW A, NEW B,
         {FbfInput(c), Csc(c)} \subseteq A,
         {InputIdentifier(c), Csc(c)} \subseteq B,
         c.link \in {"uhd", "tsi"} => <<"MuxA", FirstMux(c)>> \in B
  PROVE  Within(FirstRoute(c), A, B)
<1> DEFINE first == IF c.link \in {"uhd", "tsi"} THEN <<"MuxA", FirstMux(c)>>
                                                 ELSE InputIdentifier(c)
<1>1. first \in B
  OBVIOUS
<1>2. Within(FbfInput(c) :> first, A, B) /\ Within(Csc(c) :> first, A, B)
        /\ Within(FbfInput(c) :> Csc(c), A, B)
  BY <1>1, WithinSingle
<1>3. Within(Csc(c) :> first @@ FbfInput(c) :> Csc(c), A, B)
  BY <1>2, WithinMerged
<1> QED
  BY <1>2, <1>3 DEF FirstRoute

LEMMA EndToEndWithin ==
  ASSUME NEW c \in Configs, NEW A, NEW B,
         c.channel <= 4 =>
           /\ {<<"HDMIOutQ", c.channel>>, <<"SDIOut", c.channel>>} \subseteq A
           /\ {<<"HDMIIn", c.channel>>, <<"SDIIn", c.channel>>} \subseteq B
  PROVE  Within(EndToEnd(c), A, B)
<1>1. CASE card.bidirectional \/ c.channel > 4
  BY <1>1, WithinNone DEF EndToEnd
<1>2. CASE ~(card.bidirectional \/ c.channel > 4)
  <2>1. c.channel <= 4
    BY <1>2, ConfigFacts
  <2> QED
    BY <1>2, <2>1, WithinSingle DEF EndToEnd
<1> QED
  BY <1>1, <1>2

LEMMA PassthroughWithin ==
  ASSUME NEW c \in Configs, NEW A, NEW B,
         PassesThrough(c) =>
           <<"SDIOut", PassthroughChannel(c)>> \in A /\ <<"SDIIn", c.channel>> \in B
  PROVE  Within(Passthrough(c), A, B)
  BY WithinNone, WithinSingle DEF Passthrough

LEMMA WiringWithin ==
  ASSUME NEW c \in Configs, NEW A, NEW B,
         Within(FirstRoute(c), A, B), Within(EndToEnd(c), A, B),
         Within(QuadRoutes(c), A, B), Within(Passthrough(c), A, B)
  PROVE  Within(Wiring(c), A, B)
  BY WithinMerged DEF Wiring

LEMMA SqdWithin ==
  ASSUME NEW c \in Configs, NEW A, NEW B, c.link = "sqd",
         {"FB"} \X (Base(c) + 2 .. Base(c) + 4) \subseteq A,
         {"SDIIn"} \X (Base(c) + 2 .. Base(c) + 4) \subseteq B
  PROVE  Within(QuadRoutes(c), A, B)
<1>1. QuadRoutes(c) = [d \in {"FB"} \X (Base(c) + 2 .. Base(c) + 4) |-> <<"SDIIn", d[2]>>]
  BY DEF QuadRoutes
<1>2. \A d \in {"FB"} \X (Base(c) + 2 .. Base(c) + 4) :
        <<"SDIIn", d[2]>> \in {"SDIIn"} \X (Base(c) + 2 .. Base(c) + 4)
  OBVIOUS
<1> QED
  BY <1>1, <1>2 DEF Within

LEMMA TsiWithin ==
  ASSUME NEW c \in Configs, NEW A, NEW B, NEW m, NEW b,
         c.link = "tsi", m = FirstMux(c), b = Base(c),
         {<<"FBB", b + 1>>, <<"FB", b + 1 + 1>>, <<"FBB", b + 1 + 1>>, <<"MuxA", m>>,
          <<"MuxB", m>>, <<"MuxA", m + 1>>, <<"MuxB", m + 1>>} \subseteq A,
         {<<"MuxB", m>>, <<"MuxA", m + 1>>, <<"MuxB", m + 1>>, <<"SDIIn", b + 1>>,
          <<"SDIIn", b + 2>>, <<"SDIIn", b + 3>>, <<"SDIIn", b + 4>>} \subseteq B
  PROVE  Within(QuadRoutes(c), A, B)
<1> DEFINE signals == [n \in 1..4 |-> <<"SDIIn", b + n>>]
<1>1. /\ signals[1] = <<"SDIIn", b + 1>> /\ signals[2] = <<"SDIIn", b + 2>>
      /\ signals[3] = <<"SDIIn", b + 3>> /\ signals[4] = <<"SDIIn", b + 4>>
  OBVIOUS
<1>2. QuadRoutes(c) = MuxRoutes(m, b + 1, signals)
  BY DEF QuadRoutes
<1> HIDE DEF signals
<1> QED
  BY <1>1, <1>2, WithinMuxRoutes

LEMMA UhdWithin ==
  ASSUME NEW c \in Configs, NEW A, NEW B, c.link = "uhd",
         {<<"FBB", 1>>, <<"FB", 2>>, <<"FBB", 2>>, <<"MuxA", 1>>, <<"MuxB", 1>>,
          <<"MuxA", 2>>, <<"MuxB", 2>>} \subseteq A,
         {<<"MuxB", 1>>, <<"MuxA", 2>>, <<"MuxB", 2>>, <<"HDMIIn", 1>>, <<"HDMIIn1Q", 2>>,
          <<"HDMIIn1Q", 3>>, <<"HDMIIn1Q", 4>>} \subseteq B
  PROVE  Within(QuadRoutes(c), A, B)
<1> DEFINE signals == [q \in 1..4 |-> IF q = 1 THEN <<"HDMIIn", 1>> ELSE <<"HDMIIn1Q", q>>]
<1>1. /\ signals[1] = <<"HDMIIn", 1>> /\ signals[2] = <<"HDMIIn1Q", 2>>
      /\ signals[3] = <<"HDMIIn1Q", 3>> /\ signals[4] = <<"HDMIIn1Q", 4>>
  OBVIOUS
<1>2. QuadRoutes(c) = MuxRoutes(1, 1, signals)
  BY DEF QuadRoutes
<1> HIDE DEF signals
<1>3. 1 + 1 = 2
  OBVIOUS
<1> QED
  BY <1>1, <1>2, <1>3, WithinMuxRoutes

-----------------------------------------------------------------------------
\* What is wired belongs to the channels of the configuration.

\* Connectors or signals that belong to channels in C.
Own(kinds, C) == {x \in kinds \X Channels : Owners(x) \subseteq C}

\* C holds the channels that the wiring of c is numbered by.
Covers(C, c) ==
  /\ C \subseteq 1..8
  /\ c.channel \in C /\ InputNumber(c) \in C
  /\ PassesThrough(c) => PassthroughChannel(c) \in C
  /\ c.link \in {"sqd", "tsi", "tsi8k", "tsi8khfr"} => Base(c) + 1 .. Base(c) + 4 \subseteq C
  /\ c.link = "uhd" => 1..4 \subseteq C

Plain == {"FB", "FBDS2", "CSC", "SDIOut", "HDMIOutQ", "SDIIn", "SDIInDS2", "HDMIIn",
          "HDMIInRGB", "AnalogIn"}

LEMMA OwnPlain ==
  ASSUME NEW C, C \subseteq 1..8, NEW n \in C, NEW kinds, NEW k \in kinds, k \in Plain
  PROVE  <<k, n>> \in Own(kinds, C)
<1>1. Owners(<<k, n>>) = {n}
  BY DEF Owners, Plain
<1> QED
  BY <1>1 DEF Own, Channels

LEMMA OwnHalf ==
  ASSUME NEW C, C \subseteq 1..8, NEW kinds, NEW k \in kinds
  PROVE  /\ 1..4 \subseteq C /\ k \in {"MuxA", "MuxB", "FBB"} =>
              <<k, 1>> \in Own(kinds, C) /\ <<k, 2>> \in Own(kinds, C)
         /\ 5..8 \subseteq C /\ k \in {"MuxA", "MuxB"} =>
              <<k, 3>> \in Own(kinds, C) /\ <<k, 4>> \in Own(kinds, C)
         /\ 5..8 \subseteq C /\ k = "FBB" =>
              <<k, 5>> \in Own(kinds, C) /\ <<k, 6>> \in Own(kinds, C)
<1>1. \A h \in {"MuxA", "MuxB", "FBB"} : Owners(<<h, 1>>) = 1..4 /\ Owners(<<h, 2>>) = 1..4
  BY DEF Owners
<1>2. /\ \A h \in {"MuxA", "MuxB"} : Owners(<<h, 3>>) = 5..8 /\ Owners(<<h, 4>>) = 5..8
      /\ Owners(<<"FBB", 5>>) = 5..8 /\ Owners(<<"FBB", 6>>) = 5..8
  BY DEF Owners
<1> QED
  BY <1>1, <1>2 DEF Own, Channels

LEMMA OwnQuadrant ==
  ASSUME NEW C, 1 \in C, NEW kinds, "HDMIIn1Q" \in kinds, NEW n \in 2..4
  PROVE  <<"HDMIIn1Q", n>> \in Own(kinds, C)
<1>1. Owners(<<"HDMIIn1Q", n>>) = {1}
  BY DEF Owners
<1> QED
  BY <1>1 DEF Own, Channels

LEMMA WiringOwn ==
  ASSUME NEW c \in Configs, Supported(c), NEW C, Covers(C, c),
         c.link \in {"tsi8k", "tsi8khfr"} => SecondFrameBuffer(c)[2] \in C
  PROVE  Within(Wiring(c), Own(Connectors, C), Own(Kinds, C))
<1> DEFINE A == Own(Connectors, C)
           B == Own(Kinds, C)
<1>1. /\ C \subseteq 1..8
      /\ \A k \in Connectors \cap Plain, n \in C : <<k, n>> \in A
      /\ \A k \in Kinds \cap Plain, n \in C : <<k, n>> \in B
  BY OwnPlain DEF Covers
<1>2. Within(FirstRoute(c), A, B)
  <2>1. FbfInput(c) \in A /\ Csc(c) \in A /\ Csc(c) \in B
    BY <1>1 DEF Covers, FbfInput, Csc, Connectors, Kinds, Plain
  <2>2. InputIdentifier(c) \in B
    <3>1. InputKind(c) \in Kinds \cap Plain
      BY ConfigFacts DEF InputKind, Kinds, Plain
    <3> QED
      BY <3>1, <1>1 DEF InputIdentifier, Covers
  <2>3. ASSUME c.link \in {"uhd", "tsi"}
        PROVE  <<"MuxA", FirstMux(c)>> \in B
    <3>1. CASE c.link = "uhd"
      <4>1. FirstMux(c) = 1 /\ 1..4 \subseteq C
        BY <3>1, ConfigFacts DEF FirstMux, Covers
      <4>2. <<"MuxA", 1>> \in B
        BY <4>1, <1>1, OwnHalf DEF Kinds
      <4> QED
        BY <4>1, <4>2
    <3>2. CASE c.link = "tsi"
      <4>1. \/ FirstMux(c) = 1 /\ 1..4 \subseteq C
            \/ FirstMux(c) = 3 /\ 5..8 \subseteq C
        BY <3>2, Halves DEF Covers
      <4>2. 1..4 \subseteq C => <<"MuxA", 1>> \in B
        BY <1>1, OwnHalf DEF Kinds
      <4>3. 5..8 \subseteq C => <<"MuxA", 3>> \in B
        BY <1>1, OwnHalf DEF Kinds
      <4> QED
        BY <4>1, <4>2, <4>3
    <3> QED
      BY <2>3, <3>1, <3>2
  <2> HIDE DEF A, B
  <2> QED
    BY <2>1, <2>2, <2>3, FirstRouteWithin
<1>3. Within(EndToEnd(c), A, B)
  <2>1. /\ {<<"HDMIOutQ", c.channel>>, <<"SDIOut", c.channel>>} \subseteq A
        /\ {<<"HDMIIn", c.channel>>, <<"SDIIn", c.channel>>} \subseteq B
    BY <1>1 DEF Covers, Connectors, Kinds, Plain
  <2> HIDE DEF A, B
  <2> QED
    BY <2>1, EndToEndWithin
<1>4. Within(Passthrough(c), A, B)
  <2>1. /\ PassesThrough(c) => <<"SDIOut", PassthroughChannel(c)>> \in A
        /\ <<"SDIIn", c.channel>> \in B
    BY <1>1 DEF Covers, Connectors, Kinds, Plain
  <2> HIDE DEF A, B
  <2> QED
    BY <2>1, PassthroughWithin
<1>5. Within(QuadRoutes(c), A, B)
  <2>1. CASE c.link = "single"
    BY <2>1, WithinNone DEF QuadRoutes
  <2>2. CASE c.link = "sqd"
    <3>1. Base(c) + 2 .. Base(c) + 4 \subseteq C
      BY <2>2, Numbers DEF Covers
    <3>2. /\ {"FB"} \X (Base(c) + 2 .. Base(c) + 4) \subseteq A
          /\ {"SDIIn"} \X (Base(c) + 2 .. Base(c) + 4) \subseteq B
      BY <3>1, <1>1 DEF Connectors, Kinds, Plain
    <3> HIDE DEF A, B
    <3> QED
      BY <2>2, <3>2, SqdWithin
  <2>3. CASE c.link \in {"tsi8k", "tsi8khfr"}
    <3>1. {Base(c) + 1, Base(c) + 2, Base(c) + 3, Base(c) + 4} \subseteq C
      BY <2>3, Numbers DEF Covers
    <3>2. SecondFrameBuffer(c) = <<"FB", SecondFrameBuffer(c)[2]>>
      BY DEF SecondFrameBuffer
    <3>3. {<<"FBDS2", Base(c) + 1>>, <<"FBDS2", Base(c) + 2>>, SecondFrameBuffer(c)} \subseteq A
      BY <2>3, <3>1, <3>2, <1>1 DEF Connectors, Plain
    <3>4. {<<"SDIIn", Base(c) + 2>>, <<"SDIIn", Base(c) + 3>>, <<"SDIIn", Base(c) + 4>>,
           <<"SDIInDS2", Base(c) + 1>>, <<"SDIInDS2", Base(c) + 2>>} \subseteq B
      BY <3>1, <1>1 DEF Kinds, Plain
    <3> HIDE DEF A, B
    <3>5. CASE c.link = "tsi8khfr"
      BY <3>3, <3>4, <3>5, WithinMerged, WithinSingle DEF QuadRoutes
    <3>6. CASE c.link = "tsi8k"
      BY <3>3, <3>4, <3>6, WithinMerged, WithinSingle DEF QuadRoutes
    <3> QED
      BY <2>3, <3>5, <3>6
  <2>4. CASE c.link = "tsi"
    <3> DEFINE b == Base(c)
               m == FirstMux(c)
    <3>1. \/ b = 0 /\ m = 1 /\ 1..4 \subseteq C
          \/ b = 4 /\ m = 3 /\ 5..8 \subseteq C
      BY <2>4, Halves DEF Covers
    <3>2. {b + 1, b + 2, b + 3, b + 4} \subseteq C
      BY <3>1
    <3> HIDE DEF b, m
    <3>3. /\ {<<"FBB", b + 1>>, <<"FBB", b + 1 + 1>>} \subseteq A
          /\ \A k \in {"MuxA", "MuxB"} :
               {<<k, m>>, <<k, m + 1>>} \subseteq A /\ {<<k, m>>, <<k, m + 1>>} \subseteq B
      <4>1. "FBB" \in Connectors /\ {"MuxA", "MuxB"} \subseteq Connectors \cap Kinds
        BY DEF Connectors, Kinds
      <4>2. CASE b = 0 /\ m = 1 /\ 1..4 \subseteq C
        <5>1. b + 1 = 1 /\ b + 1 + 1 = 2 /\ m + 1 = 2
          BY <4>2
        <5>2. /\ <<"MuxA", 1>> \in A /\ <<"MuxA", 2>> \in A
              /\ <<"MuxB", 1>> \in A /\ <<"MuxB", 2>> \in A
          BY <4>1, <4>2, <1>1, OwnHalf
        <5>3. /\ <<"MuxA", 1>> \in B /\ <<"MuxA", 2>> \in B
              /\ <<"MuxB", 1>> \in B /\ <<"MuxB", 2>> \in B
          BY <4>1, <4>2, <1>1, OwnHalf
        <5>4. <<"FBB", 1>> \in A /\ <<"FBB", 2>> \in A
          BY <4>1, <4>2, <1>1, OwnHalf
        <5> HIDE DEF A, B
        <5> QED
          BY <4>2, <5>1, <5>2, <5>3, <5>4
      <4>3. CASE b = 4 /\ m = 3 /\ 5..8 \subseteq C
        <5>1. b + 1 = 5 /\ b + 1 + 1 = 6 /\ m + 1 = 4
          BY <4>3
        <5>2. /\ <<"MuxA", 3>> \in A /\ <<"MuxA", 4>> \in A
              /\ <<"MuxB", 3>> \in A /\ <<"MuxB", 4>> \in A
          BY <4>1, <4>3, <1>1, OwnHalf
        <5>3. /\ <<"MuxA", 3>> \in B /\ <<"MuxA", 4>> \in B
              /\ <<"MuxB", 3>> \in B /\ <<"MuxB", 4>> \in B
          BY <4>1, <4>3, <1>1, OwnHalf
        <5>4. <<"FBB", 5>> \in A /\ <<"FBB", 6>> \in A
          BY <4>1, <4>3, <1>1, OwnHalf
        <5> HIDE DEF A, B
        <5> QED
          BY <4>3, <5>1, <5>2, <5>3, <5>4
      <4> QED
        BY <3>1, <4>2, <4>3
    <3>4. b + 1 + 1 = b + 2
      BY <3>1
    <3>6. {<<"FBB", b + 1>>, <<"FB", b + 1 + 1>>, <<"FBB", b + 1 + 1>>, <<"MuxA", m>>,
           <<"MuxB", m>>, <<"MuxA", m + 1>>, <<"MuxB", m + 1>>} \subseteq A
      BY <1>1, <3>2, <3>3, <3>4 DEF Connectors, Plain
    <3>7. {<<"MuxB", m>>, <<"MuxA", m + 1>>, <<"MuxB", m + 1>>, <<"SDIIn", b + 1>>,
           <<"SDIIn", b + 2>>, <<"SDIIn", b + 3>>, <<"SDIIn", b + 4>>} \subseteq B
      BY <1>1, <3>2, <3>3 DEF Kinds, Plain
    <3>5. m = FirstMux(c) /\ b = Base(c)
      BY DEF m, b
    <3> HIDE DEF A, B
    <3> QED
      BY <2>4, <3>5, <3>6, <3>7, TsiWithin
  <2>5. CASE c.link = "uhd"
    <3>1. 1..4 \subseteq C /\ 1 \in C /\ 2 \in C
      BY <2>5 DEF Covers
    <3>2. {<<"FBB", 1>>, <<"FB", 2>>, <<"FBB", 2>>, <<"MuxA", 1>>, <<"MuxB", 1>>,
           <<"MuxA", 2>>, <<"MuxB", 2>>} \subseteq A
      BY <1>1, <3>1, OwnHalf DEF Connectors, Plain
    <3>3. {<<"MuxB", 1>>, <<"MuxA", 2>>, <<"MuxB", 2>>, <<"HDMIIn", 1>>} \subseteq B
      BY <1>1, <3>1, OwnHalf DEF Kinds, Plain
    <3>4. {<<"HDMIIn1Q", 2>>, <<"HDMIIn1Q", 3>>, <<"HDMIIn1Q", 4>>} \subseteq B
      BY <3>1, OwnQuadrant DEF Kinds
    <3> HIDE DEF A, B
    <3> QED
      BY <2>5, <3>2, <3>3, <3>4, UhdWithin
  <2> QED
    BY ConfigFacts, <2>1, <2>2, <2>3, <2>4, <2>5
<1> HIDE DEF A, B
<1>6. Within(Wiring(c), A, B)
  BY <1>2, <1>3, <1>4, <1>5, WiringWithin
<1> QED
  BY <1>6 DEF A, B

-----------------------------------------------------------------------------
\* Setups of different channels.

LEMMA ClaimsCover ==
  ASSUME NEW c \in Configs, Sensible(c), Supported(c), Claims(c) \subseteq 1..8
  PROVE  /\ Covers(Claims(c), c)
         /\ c.link \in {"tsi8k", "tsi8khfr"} => SecondFrameBuffer(c)[2] \in Claims(c)
<1>1. /\ InputChannels(c) \subseteq Claims(c)
      /\ PassesThrough(c) => PassthroughChannel(c) \in Claims(c)
  BY ConfigFacts DEF Claims
<1>2. c.channel \in InputChannels(c)
  BY ConfigFacts DEF InputChannels
<1>3. InputNumber(c) = c.channel
  BY ConfigFacts DEF InputNumber, Sensible
<1>4. ASSUME c.link \in {"sqd", "tsi", "tsi8k", "tsi8khfr"}
      PROVE  Base(c) + 1 .. Base(c) + 4 \subseteq InputChannels(c)
  BY <1>4, Halves DEF InputChannels, Quad
<1>5. ASSUME c.link = "uhd"
      PROVE  1..4 \subseteq InputChannels(c)
  BY <1>5 DEF InputChannels, Quad, Sensible
<1>6. ASSUME c.link \in {"tsi8k", "tsi8khfr"}
      PROVE  SecondFrameBuffer(c)[2] = Base(c) + 2 /\ Base(c) + 2 \in Base(c) + 1 .. Base(c) + 4
  <2>1. c.channel = 1 /\ Base(c) = 0
    BY <1>6 DEF Sensible, Base
  <2> QED
    BY <2>1 DEF SecondFrameBuffer
<1> QED
  BY <1>1, <1>2, <1>3, <1>4, <1>5, <1>6 DEF Covers

\* What a setup takes away from others belongs to one of its channels at least.
LEMMA Touched ==
  ASSUME NEW c \in Configs, Sensible(c), Supported(c),
         NEW x \in FreedConnectors(c) \cup FreedSignals(c)
  PROVE  Owners(x) \cap Claims(c) # {}
<1>1. InputChannels(c) \subseteq Claims(c)
  BY ConfigFacts DEF Claims
<1>2. CASE c.link = "single"
  <2>1. c.channel \in Claims(c) /\ InputNumber(c) = c.channel /\ c.channel \in 1..8
    BY <1>1, <1>2, ConfigFacts DEF InputChannels, Quad, InputNumber, Sensible
  <2>2. x \in {FbfInput(c), Csc(c), InputIdentifier(c)} \cup SecondInputs(c)
    BY <1>2 DEF FreedConnectors, FreedSignals, Quad
  <2>3. ASSUME x \in {FbfInput(c), Csc(c), InputIdentifier(c)}
        PROVE  c.channel \in Owners(x)
    <3>1. InputKind(c) \in {"SDIIn", "HDMIIn", "HDMIInRGB", "AnalogIn"}
      BY ConfigFacts DEF InputKind
    <3> QED
      BY <2>1, <2>3, <3>1 DEF FbfInput, Csc, InputIdentifier, Owners
  <2>4. ASSUME x \in SecondInputs(c)
        PROVE  c.channel \in Owners(x)
    <3>1. PICK n \in {1, 2, 5, 6} :
            /\ x = <<"FBB", n>>
            /\ c.channel \in CASE n = 1 -> {1, 2} [] n = 2 -> {2, 4}
                               [] n = 5 -> {5, 6} [] n = 6 -> {6, 8}
      BY <2>4 DEF SecondInputs
    <3> QED
      BY <3>1 DEF Owners
  <2> QED
    BY <2>1, <2>2, <2>3, <2>4
<1>3. CASE c.link = "uhd"
  <2>1. 1..4 \subseteq Claims(c) /\ c.source = "HDMI"
    BY <1>1, <1>3, ConfigFacts DEF InputChannels, Quad, Sensible
  <2>2. x \in ({"FB", "FBB"} \X {1, 2}) \cup Muxes(1) \cup HdmiQuadrants
    BY <1>3, <2>1 DEF FreedConnectors, FreedSignals, Quad
  <2>3. \/ x[1] \in {"FB", "FBB", "MuxA", "MuxB"} /\ x[2] \in {1, 2}
        \/ x[1] = "HDMIIn" /\ x[2] = 1
        \/ x[1] = "HDMIIn1Q"
    BY <2>2 DEF Muxes, HdmiQuadrants
  <2>4. 1 \in Owners(x) \/ 2 \in Owners(x)
    BY <2>3 DEF Owners
  <2> QED
    BY <2>1, <2>4
<1>4. CASE c.link \in {"sqd", "tsi", "tsi8k", "tsi8khfr"}
  <2> DEFINE b == Base(c)
             m == FirstMux(c)
  <2>1. /\ \/ b = 0 /\ m = 1
           \/ b = 4 /\ m = 3
        /\ b + 1 .. b + 4 \subseteq Claims(c)
    BY <1>1, <1>4, Halves DEF InputChannels, Quad
  <2>2. x \in ({"FB"} \X (b + 1 .. b + 4)) \cup ({"FBB", "FBDS2"} \X (b + 1 .. b + 2))
               \cup Muxes(m) \cup ({"SDIIn"} \X (b + 1 .. b + 4))
               \cup ({"SDIInDS2"} \X (b + 1 .. b + 2))
    BY <1>4, ConfigFacts DEF FreedConnectors, FreedSignals, Quad
  <2> HIDE DEF b, m
  <2>3. \/ x[1] \in {"FB", "FBDS2", "SDIIn", "SDIInDS2"} /\ x[2] \in b + 1 .. b + 4
        \/ x[1] = "FBB" /\ x[2] \in b + 1 .. b + 2
        \/ x[1] \in {"MuxA", "MuxB"} /\ x[2] \in {m, m + 1}
    BY <2>1, <2>2 DEF Muxes
  <2>4. CASE x[1] \in {"FB", "FBDS2", "SDIIn", "SDIInDS2"} /\ x[2] \in b + 1 .. b + 4
    BY <2>1, <2>4 DEF Owners
  <2>5. CASE ~(x[1] \in {"FB", "FBDS2", "SDIIn", "SDIInDS2"} /\ x[2] \in b + 1 .. b + 4)
    <3>1. b + 1 \in Owners(x)
      BY <2>1, <2>3, <2>5 DEF Owners
    <3> QED
      BY <2>1, <3>1
  <2> QED
    BY <2>4, <2>5
<1> QED
  BY <1>2, <1>3, <1>4, ConfigFacts

LEMMA RoutedIs ==
  ASSUME NEW r, NEW c
  PROVE  /\ \A d \in DOMAIN Wiring(c) :
              d \in DOMAIN Routed(r, c) /\ Routed(r, c)[d] = Wiring(c)[d]
         /\ \A d \in DOMAIN r :
              d \notin DOMAIN Wiring(c) /\ d \notin FreedConnectors(c)
                /\ r[d] \notin FreedSignals(c) =>
              d \in DOMAIN Routed(r, c) /\ Routed(r, c)[d] = r[d]
         /\ \A d \in DOMAIN Routed(r, c) :
              \/ d \in DOMAIN Wiring(c) /\ Routed(r, c)[d] = Wiring(c)[d]
              \/ d \in DOMAIN r /\ Routed(r, c)[d] = r[d]
<1> DEFINE w == Wiring(c)
           rest == Disconnected(r, c)
<1>1. Routed(r, c) = w @@ rest
  BY DEF Routed, Wiring
<1>2. /\ DOMAIN rest = {e \in DOMAIN r : e \notin FreedConnectors(c)
                                          /\ r[e] \notin FreedSignals(c)}
      /\ \A d \in DOMAIN rest : rest[d] = r[d]
  BY DEF Disconnected
<1> HIDE DEF w, rest
<1>3. /\ \A d \in DOMAIN w : d \in DOMAIN (w @@ rest) /\ (w @@ rest)[d] = w[d]
      /\ \A d \in DOMAIN rest :
           d \notin DOMAIN w => d \in DOMAIN (w @@ rest) /\ (w @@ rest)[d] = rest[d]
      /\ \A d \in DOMAIN (w @@ rest) :
           \/ d \in DOMAIN w /\ (w @@ rest)[d] = w[d]
           \/ d \in DOMAIN rest /\ (w @@ rest)[d] = rest[d]
  BY DEF @@
<1>4. w = Wiring(c)
  BY DEF w
<1> QED
  BY <1>1, <1>2, <1>3, <1>4

\* What one source is wired with, the setup of another one does not change.
LEMMA Survives ==
  ASSUME NEW c \in Configs, Sensible(c), Supported(c), Claims(c) \subseteq 1..8,
         NEW t \in Configs, Sensible(t), Supported(t), Claims(t) \subseteq 1..8,
         Claims(c) \cap Claims(t) = {},
         NEW r, NEW d \in DOMAIN Wiring(t), d \in DOMAIN r, r[d] = Wiring(t)[d]
  PROVE  d \in DOMAIN Routed(r, c) /\ Routed(r, c)[d] = Wiring(t)[d]
<1>1. /\ d \in Own(Connectors, Claims(t)) /\ r[d] \in Own(Kinds, Claims(t))
  BY ClaimsCover, WiringOwn DEF Within
<1>2. /\ Owners(d) \subseteq Claims(t) /\ Owners(r[d]) \subseteq Claims(t)
      /\ Owners(d) # {}
  BY <1>1 DEF Own, Owners
<1>3. d \notin FreedConnectors(c) /\ r[d] \notin FreedSignals(c)
  BY <1>2, Touched
<1>4. d \notin DOMAIN Wiring(c)
  <2>1. SUFFICES ASSUME d \in DOMAIN Wiring(c)
                 PROVE  FALSE
    OBVIOUS
  <2>2. d \in Own(Connectors, Claims(c))
    BY <2>1, ClaimsCover, WiringOwn DEF Within
  <2> QED
    BY <1>2, <2>2 DEF Own
<1> QED
  BY <1>3, <1>4, RoutedIs

-----------------------------------------------------------------------------
\* What the wiring connects.

LEMMA MuxRoutesOf ==
  ASSUME NEW m, NEW n, NEW signals
  PROVE  DOMAIN MuxRoutes(m, n, signals) =
           {<<"FBB", n>>, <<"FB", n + 1>>, <<"FBB", n + 1>>, <<"MuxA", m>>,
            <<"MuxB", m>>, <<"MuxA", m + 1>>, <<"MuxB", m + 1>>}
<1> DEFINE A == {<<"FBB", n>>, <<"FB", n + 1>>, <<"FBB", n + 1>>, <<"MuxA", m>>,
                 <<"MuxB", m>>, <<"MuxA", m + 1>>, <<"MuxB", m + 1>>}
           B == {<<"MuxB", m>>, <<"MuxA", m + 1>>, <<"MuxB", m + 1>>, signals[1],
                 signals[2], signals[3], signals[4]}
<1>1. Within(MuxRoutes(m, n, signals), A, B)
  BY WithinMuxRoutes
<1>2. DOMAIN MuxRoutes(m, n, signals) \subseteq A
  BY <1>1 DEF Within
<1>3. A \subseteq DOMAIN MuxRoutes(m, n, signals)
  BY InMerged, InSingle DEF MuxRoutes
<1> QED
  BY <1>2, <1>3

QuadKinds == {"FB", "FBB", "FBDS2", "MuxA", "MuxB"}

LEMMA QuadRoutesKinds ==
  ASSUME NEW c \in Configs, NEW d \in DOMAIN QuadRoutes(c)
  PROVE  d[1] \in QuadKinds
<1>2. CASE c.link \in {"single", "sqd"}
  BY <1>2 DEF QuadRoutes, NoRoute, QuadKinds
<1>3. ASSUME NEW m \in Nat, NEW n \in Nat, NEW signals, d \in DOMAIN MuxRoutes(m, n, signals)
      PROVE  d[1] \in QuadKinds
  <2>1. d \in {<<"FBB", n>>, <<"FB", n + 1>>, <<"FBB", n + 1>>, <<"MuxA", m>>,
               <<"MuxB", m>>, <<"MuxA", m + 1>>, <<"MuxB", m + 1>>}
    BY <1>3, MuxRoutesOf
  <2> QED
    BY <2>1 DEF QuadKinds
<1>4. CASE c.link \in {"tsi", "uhd"}
  <2>1. \E m \in Nat, n \in Nat, signals \in [1..4 -> Kinds \X Int] :
          QuadRoutes(c) = MuxRoutes(m, n, signals)
    <3>1. CASE c.link = "tsi"
      <4> DEFINE sdi == [n \in 1..4 |-> <<"SDIIn", Base(c) + n>>]
      <4>1. QuadRoutes(c) = MuxRoutes(FirstMux(c), Base(c) + 1, sdi)
        BY <3>1 DEF QuadRoutes
      <4>2. sdi \in [1..4 -> Kinds \X Int] /\ FirstMux(c) \in Nat /\ Base(c) + 1 \in Nat
        BY Numbers DEF Kinds
      <4> HIDE DEF sdi
      <4> QED
        BY <4>1, <4>2
    <3>2. CASE c.link = "uhd"
      <4> DEFINE hdmi == [q \in 1..4 |-> IF q = 1 THEN <<"HDMIIn", 1>> ELSE <<"HDMIIn1Q", q>>]
      <4>1. QuadRoutes(c) = MuxRoutes(1, 1, hdmi)
        BY <3>2 DEF QuadRoutes
      <4>2. hdmi \in [1..4 -> Kinds \X Int] /\ 1 \in Nat
        BY DEF Kinds
      <4> HIDE DEF hdmi
      <4> QED
        BY <4>1, <4>2
    <3> QED
      BY <1>4, <3>1, <3>2
  <2> QED
    BY <2>1, <1>3
<1>5. CASE c.link \in {"tsi8k", "tsi8khfr"}
  BY <1>5 DEF QuadRoutes, SecondFrameBuffer, QuadKinds, :>, @@
<1> QED
  BY <1>2, <1>3, <1>4, <1>5, ConfigFacts

LEMMA WiringIs ==
  ASSUME NEW c \in Configs, NEW d
  PROVE  /\ d \in DOMAIN Passthrough(c) =>
              d \in DOMAIN Wiring(c) /\ Wiring(c)[d] = Passthrough(c)[d]
         /\ d \in DOMAIN EndToEnd(c) =>
              d \in DOMAIN Wiring(c) /\ Wiring(c)[d] = EndToEnd(c)[d]
         /\ d \in DOMAIN QuadRoutes(c) =>
              d \in DOMAIN Wiring(c) /\ Wiring(c)[d] = QuadRoutes(c)[d]
         /\ d \in DOMAIN FirstRoute(c) /\ d \notin DOMAIN QuadRoutes(c) =>
              d \in DOMAIN Wiring(c) /\ Wiring(c)[d] = FirstRoute(c)[d]
<1> DEFINE p == Passthrough(c)
           q == QuadRoutes(c)
           e == EndToEnd(c)
           f == FirstRoute(c)
<1>1. DOMAIN p = {} \/ DOMAIN e = {}
  BY DEF Passthrough, PassesThrough, EndToEnd, NoRoute
<1>2. /\ d \in DOMAIN p => d[1] = "SDIOut"
      /\ d \in DOMAIN e => d[1] \in {"SDIOut", "HDMIOutQ"}
      /\ d \in DOMAIN q => d[1] \in QuadKinds
      /\ d \in DOMAIN f => d[1] \in {"FB", "CSC"}
  <2>1. d \in DOMAIN p => d[1] = "SDIOut"
    BY DEF Passthrough, NoRoute, :>
  <2>2. d \in DOMAIN e => d[1] \in {"SDIOut", "HDMIOutQ"}
    BY DEF EndToEnd, NoRoute, :>
  <2>3. d \in DOMAIN f => d[1] \in {"FB", "CSC"}
    BY DEF FirstRoute, FbfInput, Csc, :>, @@
  <2> QED
    BY <2>1, <2>2, <2>3, QuadRoutesKinds
<1>3. Wiring(c) = ((p @@ q) @@ e) @@ f
  BY DEF Wiring
<1> HIDE DEF p, q, e, f
<1>4. /\ d \in DOMAIN p => d \in DOMAIN Wiring(c) /\ Wiring(c)[d] = p[d]
      /\ d \in DOMAIN e => d \in DOMAIN Wiring(c) /\ Wiring(c)[d] = e[d]
      /\ d \in DOMAIN q => d \in DOMAIN Wiring(c) /\ Wiring(c)[d] = q[d]
      /\ d \in DOMAIN f /\ d \notin DOMAIN q =>
           d \in DOMAIN Wiring(c) /\ Wiring(c)[d] = f[d]
  BY <1>1, <1>2, <1>3 DEF QuadKinds, @@
<1> QED
  BY <1>4 DEF p, q, e, f

LEMMA FirstRouteIs ==
  ASSUME NEW c \in Configs
  PROVE  LET first == IF c.link \in {"uhd", "tsi"} THEN <<"MuxA", FirstMux(c)>>
                                                   ELSE InputIdentifier(c)
             f == FirstRoute(c)
         IN  /\ FbfInput(c) \in DOMAIN f
             /\ c.rgba = c.rgbIn => f[FbfInput(c)] = first
             /\ c.rgba # c.rgbIn =>
                  /\ f[FbfInput(c)] = Csc(c)
                  /\ Csc(c) \in DOMAIN f /\ f[Csc(c)] = first
<1>1. FbfInput(c) # Csc(c)
  BY DEF FbfInput, Csc
<1> QED
  BY <1>1 DEF FirstRoute, :>, @@

-----------------------------------------------------------------------------
\* A source that is wired receives its signals.

LEMMA Reached ==
  ASSUME FromInputs, NEW x, x[1] \in Inputs, NEW d \in DOMAIN routing,
         \/ routing[d] = x
         \/ \E m \in DOMAIN routing : routing[d] = m /\ routing[m] = x
         \/ \E m, k \in DOMAIN routing : routing[d] = m /\ routing[m] = k /\ routing[k] = x
  PROVE  Origin(d) = x
<1>1. x \notin DOMAIN routing
  BY DEF FromInputs
<1> QED
  BY <1>1 DEF Origin, Behind

\* The first frame buffer receives what the first signal comes from, through the
\* colour converter or not.
LEMMA FirstReached ==
  ASSUME NEW c \in Configs, WiredFor(c), FromInputs, FbfInput(c) \notin DOMAIN QuadRoutes(c)
  PROVE  /\ FbfInput(c) \in DOMAIN routing
         /\ c.link \notin {"uhd", "tsi"} => Origin(FbfInput(c)) = InputIdentifier(c)
         /\ \A x : c.link \in {"uhd", "tsi"} /\ x[1] \in Inputs
                     /\ <<"MuxA", FirstMux(c)>> \in DOMAIN routing
                     /\ routing[<<"MuxA", FirstMux(c)>>] = x
                   => Origin(FbfInput(c)) = x
<1> DEFINE first == IF c.link \in {"uhd", "tsi"} THEN <<"MuxA", FirstMux(c)>>
                                                 ELSE InputIdentifier(c)
           d == FbfInput(c)
           k == Csc(c)
<1>1. k \notin DOMAIN QuadRoutes(c)
  BY QuadRoutesKinds DEF Csc, QuadKinds
<1>2. \/ d \in DOMAIN routing /\ routing[d] = first
      \/ d \in DOMAIN routing /\ k \in DOMAIN routing /\ routing[d] = k /\ routing[k] = first
  BY <1>1, FirstRouteIs, WiringIs DEF WiredFor
<1>3. c.link \notin {"uhd", "tsi"} => first[1] \in Inputs
  <2>1. InputKind(c) \in Inputs
    BY ConfigFacts DEF InputKind, Inputs
  <2> QED
    BY <2>1 DEF InputIdentifier
<1>4. c.link \notin {"uhd", "tsi"} => Origin(d) = first
  <2> HIDE DEF d, k, first
  <2> QED
    BY <1>2, <1>3, Reached
<1>5. ASSUME NEW x, x[1] \in Inputs, first \in DOMAIN routing, routing[first] = x
      PROVE  Origin(d) = x
  <2> HIDE DEF d, k, first
  <2> QED
    BY <1>2, <1>5, Reached
<1> QED
  BY <1>2, <1>4, <1>5

LEMMA ReceivesSingle ==
  ASSUME NEW c \in Configs, c.link = "single", WiredFor(c), FromInputs
  PROVE  Signals(c) \subseteq Received(InputChannels(c))
<1>1. FbfInput(c) \notin DOMAIN QuadRoutes(c)
  BY DEF QuadRoutes, NoRoute
<1>2. FbfInput(c) \in DOMAIN routing /\ Origin(FbfInput(c)) = InputIdentifier(c)
  BY <1>1, FirstReached
<1>3. FbfInput(c) \in {"FB", "FBB", "FBDS2"} \X InputChannels(c)
  BY DEF FbfInput, InputChannels, Quad
<1>4. Signals(c) = {InputIdentifier(c)}
  BY DEF Signals
<1> QED
  BY <1>2, <1>3, <1>4 DEF Received

\* Four signals by two multiplexers, of UHD from HDMI or of two-sample interleave.
LEMMA ReceivesMuxed ==
  ASSUME NEW c \in Configs, WiredFor(c), FromInputs, c.link \in {"uhd", "tsi"},
         NEW signals, \A n \in 1..4 : signals[n][1] \in Inputs,
         c.channel \in Nat, FirstMux(c) \in Nat,
         QuadRoutes(c) = MuxRoutes(FirstMux(c), c.channel, signals)
  PROVE  {signals[1], signals[2], signals[3], signals[4]} \subseteq Received(InputChannels(c))
<1> DEFINE m == FirstMux(c)
           n == c.channel
           x1 == signals[1]
           x2 == signals[2]
           x3 == signals[3]
           x4 == signals[4]
<1>m. /\ m \in Nat /\ n \in Nat /\ m = FirstMux(c) /\ n = c.channel
      /\ x1 = signals[1] /\ x2 = signals[2] /\ x3 = signals[3] /\ x4 = signals[4]
      /\ x1[1] \in Inputs /\ x2[1] \in Inputs /\ x3[1] \in Inputs /\ x4[1] \in Inputs
      /\ QuadRoutes(c) = MuxRoutes(m, n, signals)
  OBVIOUS
<1> SUFFICES {x1, x2, x3, x4} \subseteq Received(InputChannels(c))
  OBVIOUS
<1> HIDE DEF m, n, x1, x2, x3, x4
<1> DEFINE f == MuxRoutes(m, n, signals)
<1>a. f = MuxRoutes(m, n, signals) /\ f = QuadRoutes(c)
  BY <1>m
<1> HIDE DEF f
<1>0. /\ DOMAIN f = {<<"FBB", n>>, <<"FB", n + 1>>, <<"FBB", n + 1>>, <<"MuxA", m>>,
                     <<"MuxB", m>>, <<"MuxA", m + 1>>, <<"MuxB", m + 1>>}
      /\ f[<<"FBB", n>>] = <<"MuxB", m>>
      /\ f[<<"FB", n + 1>>] = <<"MuxA", m + 1>>
      /\ f[<<"FBB", n + 1>>] = <<"MuxB", m + 1>>
      /\ f[<<"MuxA", m>>] = x1 /\ f[<<"MuxB", m>>] = x2
      /\ f[<<"MuxA", m + 1>>] = x3 /\ f[<<"MuxB", m + 1>>] = x4
  <2>1. n # n + 1 /\ m # m + 1 /\ f = MuxRoutes(m, n, signals)
    BY <1>m, <1>a
  <2>2. x1 = signals[1] /\ x2 = signals[2] /\ x3 = signals[3] /\ x4 = signals[4]
    BY <1>m
  <2>3. /\ f[<<"FBB", n>>] = <<"MuxB", m>>
        /\ f[<<"FB", n + 1>>] = <<"MuxA", m + 1>>
        /\ f[<<"FBB", n + 1>>] = <<"MuxB", m + 1>>
    BY <2>1 DEF MuxRoutes, :>, @@
  <2>4. /\ f[<<"MuxA", m>>] = x1 /\ f[<<"MuxB", m>>] = x2
        /\ f[<<"MuxA", m + 1>>] = x3 /\ f[<<"MuxB", m + 1>>] = x4
    BY <2>1, <2>2 DEF MuxRoutes, :>, @@
  <2> QED
    BY <2>1, <2>3, <2>4, MuxRoutesOf
<1>1. /\ <<"FBB", n>> \in DOMAIN routing /\ routing[<<"FBB", n>>] = <<"MuxB", m>>
      /\ <<"FB", n + 1>> \in DOMAIN routing /\ routing[<<"FB", n + 1>>] = <<"MuxA", m + 1>>
      /\ <<"FBB", n + 1>> \in DOMAIN routing /\ routing[<<"FBB", n + 1>>] = <<"MuxB", m + 1>>
      /\ <<"MuxA", m>> \in DOMAIN routing /\ routing[<<"MuxA", m>>] = x1
      /\ <<"MuxB", m>> \in DOMAIN routing /\ routing[<<"MuxB", m>>] = x2
      /\ <<"MuxA", m + 1>> \in DOMAIN routing /\ routing[<<"MuxA", m + 1>>] = x3
      /\ <<"MuxB", m + 1>> \in DOMAIN routing /\ routing[<<"MuxB", m + 1>>] = x4
  <2>1. \A d \in DOMAIN f : d \in DOMAIN routing /\ routing[d] = f[d]
    BY <1>a, WiringIs DEF WiredFor
  <2> QED
    BY <1>0, <2>1
<1>2. FbfInput(c) \notin DOMAIN QuadRoutes(c)
  BY <1>a, <1>0, <1>m DEF FbfInput
<1>3. FbfInput(c) \in DOMAIN routing /\ Origin(FbfInput(c)) = x1
  BY <1>1, <1>2, <1>m, FirstReached
<1>4. ASSUME NEW d \in DOMAIN routing, NEW k \in DOMAIN routing, NEW x, x[1] \in Inputs,
             routing[d] = k, routing[k] = x
      PROVE  Origin(d) = x
  BY <1>4, Reached
<1>5. {FbfInput(c), <<"FBB", n>>, <<"FB", n + 1>>, <<"FBB", n + 1>>}
        \subseteq {"FB", "FBB", "FBDS2"} \X InputChannels(c)
  <2>1. c.link # "single"
    OBVIOUS
  <2>2. InputChannels(c) = n .. n + 3
    BY <1>m, <2>1 DEF InputChannels, Quad
  <2>3. n \in InputChannels(c) /\ n + 1 \in InputChannels(c)
    BY <1>m, <2>2
  <2> QED
    BY <2>3, <1>m DEF FbfInput
<1>6. /\ Origin(<<"FBB", n>>) = x2 /\ Origin(<<"FB", n + 1>>) = x3
      /\ Origin(<<"FBB", n + 1>>) = x4
  BY <1>1, <1>4, <1>m
<1> QED
  BY <1>1, <1>3, <1>5, <1>6 DEF Received

LEMMA ReceivesTsi ==
  ASSUME NEW c \in Configs, c.link = "tsi", Supported(c), WiredFor(c), FromInputs
  PROVE  Signals(c) \subseteq Received(InputChannels(c))
<1> DEFINE b == Base(c)
           m == FirstMux(c)
           sdi == [n \in 1..4 |-> <<"SDIIn", b + n>>]
<1>1. c.channel = b + 1 /\ b \in {0, 4} /\ m \in {1, 3}
  BY Halves
<1>2. QuadRoutes(c) = MuxRoutes(FirstMux(c), c.channel, sdi)
  BY <1>1 DEF QuadRoutes
<1>3. Signals(c) = {<<"SDIIn", b + 1>>, <<"SDIIn", b + 2>>, <<"SDIIn", b + 3>>, <<"SDIIn", b + 4>>}
  <2>1. Signals(c) = {"SDIIn"} \X (b + 1 .. b + 4)
    BY DEF Signals
  <2>2. b + 1 .. b + 4 = {b + 1, b + 2, b + 3, b + 4}
    BY <1>1
  <2> QED
    BY <2>1, <2>2
<1>4. /\ sdi[1] = <<"SDIIn", b + 1>> /\ sdi[2] = <<"SDIIn", b + 2>>
      /\ sdi[3] = <<"SDIIn", b + 3>> /\ sdi[4] = <<"SDIIn", b + 4>>
  OBVIOUS
<1>5. \A n \in 1..4 : sdi[n][1] \in Inputs
  BY DEF Inputs
<1>6. FirstMux(c) \in Nat /\ c.channel \in Nat
  BY <1>1
<1> HIDE DEF b, m, sdi
<1>7. {sdi[1], sdi[2], sdi[3], sdi[4]} \subseteq Received(InputChannels(c))
  BY <1>2, <1>5, <1>6, ReceivesMuxed
<1> QED
  BY <1>3, <1>4, <1>7

LEMMA ReceivesUhd ==
  ASSUME NEW c \in Configs, c.link = "uhd", Sensible(c), WiredFor(c), FromInputs
  PROVE  Signals(c) \subseteq Received(InputChannels(c))
<1> DEFINE hdmi == [q \in 1..4 |-> IF q = 1 THEN <<"HDMIIn", 1>> ELSE <<"HDMIIn1Q", q>>]
<1>1. c.channel = 1 /\ FirstMux(c) = 1
  BY ConfigFacts DEF Sensible, FirstMux
<1>2. QuadRoutes(c) = MuxRoutes(FirstMux(c), c.channel, hdmi)
  BY <1>1 DEF QuadRoutes
<1>3. Signals(c) = {<<"HDMIIn", 1>>, <<"HDMIIn1Q", 2>>, <<"HDMIIn1Q", 3>>, <<"HDMIIn1Q", 4>>}
  <2>1. Signals(c) = {<<"HDMIIn", 1>>} \cup ({"HDMIIn1Q"} \X (2..4))
    BY DEF Signals, HdmiQuadrants
  <2>2. 2..4 = {2, 3, 4}
    OBVIOUS
  <2> QED
    BY <2>1, <2>2
<1>4. /\ hdmi[1] = <<"HDMIIn", 1>> /\ hdmi[2] = <<"HDMIIn1Q", 2>>
      /\ hdmi[3] = <<"HDMIIn1Q", 3>> /\ hdmi[4] = <<"HDMIIn1Q", 4>>
  OBVIOUS
<1>5. \A n \in 1..4 : hdmi[n][1] \in Inputs
  BY DEF Inputs
<1>6. FirstMux(c) \in Nat /\ c.channel \in Nat
  BY <1>1
<1> HIDE DEF hdmi
<1>7. {hdmi[1], hdmi[2], hdmi[3], hdmi[4]} \subseteq Received(InputChannels(c))
  BY <1>2, <1>5, <1>6, ReceivesMuxed
<1> QED
  BY <1>3, <1>4, <1>7

\* The other quad links connect each signal to a frame buffer of its own.
LEMMA ReceivesDirect ==
  ASSUME NEW c \in Configs, c.link \in {"sqd", "tsi8k", "tsi8khfr"}, Supported(c),
         Sensible(c), WiredFor(c), FromInputs
  PROVE  Signals(c) \subseteq Received(InputChannels(c))
<1> DEFINE b == Base(c)
           f == QuadRoutes(c)
           buffers == {"FB", "FBB", "FBDS2"} \X InputChannels(c)
<1>1. c.channel = b + 1 /\ b \in {0, 4}
  BY Halves
<1>2. InputChannels(c) = b + 1 .. b + 4
  BY <1>1 DEF InputChannels, Quad
<1>3. InputIdentifier(c) = <<"SDIIn", b + 1>>
  BY <1>1, ConfigFacts DEF InputIdentifier, InputKind, InputNumber
<1>4. ASSUME NEW x \in Signals(c)
      PROVE  \/ x = InputIdentifier(c)
             \/ \E d \in DOMAIN f : d \in buffers /\ f[d] = x
  <2>1. CASE c.link = "sqd"
    <3>1. f = [d \in {"FB"} \X (b + 2 .. b + 4) |-> <<"SDIIn", d[2]>>]
      BY <2>1 DEF QuadRoutes
    <3>2. PICK n \in b + 1 .. b + 4 : x = <<"SDIIn", n>>
      BY <2>1 DEF Signals
    <3>3. CASE n \in b + 2 .. b + 4
      <4>1. /\ <<"FB", n>> \in DOMAIN f /\ f[<<"FB", n>>] = x
            /\ <<"FB", n>> \in buffers
        BY <3>1, <3>2, <3>3, <1>2
      <4> QED
        BY <4>1
    <3> QED
      BY <3>2, <3>3, <1>1, <1>3
  <2>2. CASE c.link = "tsi8khfr"
    <3>1. b = 0
      BY <2>2 DEF Sensible, Base
    <3>2. x \in {<<"SDIIn", 1>>, <<"SDIIn", 2>>, <<"SDIIn", 3>>, <<"SDIIn", 4>>}
      BY <2>2, <3>1 DEF Signals
    <3>3. f = <<"FBDS2", 1>> :> <<"SDIIn", 2>> @@ <<"FB", 2>> :> <<"SDIIn", 3>>
                @@ <<"FBDS2", 2>> :> <<"SDIIn", 4>>
      BY <2>2, <3>1 DEF QuadRoutes, SecondFrameBuffer
    <3>4. /\ {<<"FBDS2", 1>>, <<"FB", 2>>, <<"FBDS2", 2>>} \subseteq DOMAIN f
          /\ f[<<"FBDS2", 1>>] = <<"SDIIn", 2>> /\ f[<<"FB", 2>>] = <<"SDIIn", 3>>
          /\ f[<<"FBDS2", 2>>] = <<"SDIIn", 4>>
      BY <3>3 DEF :>, @@
    <3>5. {<<"FBDS2", 1>>, <<"FB", 2>>, <<"FBDS2", 2>>} \subseteq buffers
      BY <1>2, <3>1
    <3> QED
      BY <3>1, <3>2, <3>4, <3>5, <1>3
  <2>3. CASE c.link = "tsi8k"
    <3>1. b = 0
      BY <2>3 DEF Sensible, Base
    <3>2. x \in {<<"SDIIn", 1>>, <<"SDIIn", 2>>, <<"SDIInDS2", 1>>, <<"SDIInDS2", 2>>}
      BY <2>3, <3>1 DEF Signals
    <3>3. f = <<"FBDS2", 1>> :> <<"SDIInDS2", 1>> @@ <<"FB", 2>> :> <<"SDIIn", 2>>
                @@ <<"FBDS2", 2>> :> <<"SDIInDS2", 2>>
      BY <2>3, <3>1 DEF QuadRoutes, SecondFrameBuffer
    <3>4. /\ {<<"FBDS2", 1>>, <<"FB", 2>>, <<"FBDS2", 2>>} \subseteq DOMAIN f
          /\ f[<<"FBDS2", 1>>] = <<"SDIInDS2", 1>> /\ f[<<"FB", 2>>] = <<"SDIIn", 2>>
          /\ f[<<"FBDS2", 2>>] = <<"SDIInDS2", 2>>
      BY <3>3 DEF :>, @@
    <3>5. {<<"FBDS2", 1>>, <<"FB", 2>>, <<"FBDS2", 2>>} \subseteq buffers
      BY <1>2, <3>1
    <3> QED
      BY <3>1, <3>2, <3>4, <3>5, <1>3
  <2> QED
    BY <2>1, <2>2, <2>3
<1>5. FbfInput(c) \notin DOMAIN f
  <2>1. FbfInput(c) = <<"FB", b + 1>>
    BY <1>1 DEF FbfInput
  <2>2. CASE c.link = "sqd"
    <3>1. DOMAIN f = {"FB"} \X (b + 2 .. b + 4)
      BY <2>2 DEF QuadRoutes
    <3> QED
      BY <2>1, <3>1, <1>1
  <2>3. CASE c.link \in {"tsi8k", "tsi8khfr"}
    <3>1. b = 0
      BY <2>3 DEF Sensible, Base
    <3>2. DOMAIN f = {<<"FBDS2", 1>>, <<"FB", 2>>, <<"FBDS2", 2>>}
      BY <2>3, <3>1 DEF QuadRoutes, SecondFrameBuffer, :>, @@
    <3> QED
      BY <2>1, <3>1, <3>2
  <2> QED
    BY <2>2, <2>3
<1>6. FbfInput(c) \in buffers
  <2>1. c.channel \in InputChannels(c)
    BY <1>1, <1>2
  <2> QED
    BY <2>1 DEF FbfInput
<1>7. FbfInput(c) \in DOMAIN routing /\ Origin(FbfInput(c)) = InputIdentifier(c)
  <2>1. c.link \notin {"uhd", "tsi"}
    OBVIOUS
  <2> QED
    BY <1>5, <2>1, FirstReached
<1>8. ASSUME NEW d \in DOMAIN f
      PROVE  d \in DOMAIN routing /\ routing[d] = f[d]
  BY WiringIs DEF WiredFor
<1>9. \A x \in Signals(c) : x[1] \in Inputs
  BY DEF Signals, Inputs
<1>10. ASSUME NEW x \in Signals(c)
       PROVE  \E d \in DOMAIN routing \cap buffers : Origin(d) = x
  <2> HIDE DEF f, buffers
  <2>1. CASE x = InputIdentifier(c)
    BY <1>6, <1>7, <2>1
  <2>2. CASE x # InputIdentifier(c)
    <3>1. PICK d \in DOMAIN f : d \in buffers /\ f[d] = x
      BY <1>4, <2>2
    <3>2. d \in DOMAIN routing /\ routing[d] = x
      BY <1>8, <3>1
    <3>3. Origin(d) = x
      BY <1>9, <3>2, Reached
    <3> QED
      BY <3>1, <3>2, <3>3
  <2> QED
    BY <2>1, <2>2
<1> QED
  BY <1>10 DEF Received

LEMMA Receives ==
  ASSUME NEW c \in Configs, Supported(c), Sensible(c), WiredFor(c), FromInputs
  PROVE  Signals(c) \subseteq Received(InputChannels(c))
BY ReceivesSingle, ReceivesTsi, ReceivesUhd, ReceivesDirect, ConfigFacts

-----------------------------------------------------------------------------
\* The invariant, which no assumption on the configurations is needed for.

LEMMA CardStays ==
  ASSUME card' = card
  PROVE  \A c : /\ PassesThrough(c)' = PassesThrough(c)
                /\ PassthroughChannel(c)' = PassthroughChannel(c)
                /\ Claims(c)' = Claims(c)
                /\ Wiring(c)' = Wiring(c)
BY DEF PassesThrough, PassthroughChannel, Claims, Wiring, Passthrough, EndToEnd

LEMMA RoutedTyped ==
  ASSUME card \in Card, NEW c \in Configs, Supported(c), NEW r, IsRouting(r),
         \A d \in DOMAIN r : d[1] \notin Inputs
  PROVE  /\ IsRouting(Routed(r, c))
         /\ \A d \in DOMAIN Routed(r, c) : d[1] \notin Inputs
<1>1. Covers(1..8, c)
  <2>1. PassesThrough(c) => PassthroughChannel(c) \in 1..8
    BY ConfigFacts DEF PassesThrough, PassthroughChannel
  <2>2. ASSUME c.link \in {"sqd", "tsi", "tsi8k", "tsi8khfr"}
        PROVE  Base(c) + 1 .. Base(c) + 4 \subseteq 1..8
    BY Numbers
  <2> QED
    BY <2>1, <2>2, ConfigFacts DEF Covers
<1>2. SecondFrameBuffer(c)[2] \in 1..8
  BY DEF SecondFrameBuffer
<1>3. Within(Wiring(c), Own(Connectors, 1..8), Own(Kinds, 1..8))
  BY <1>1, <1>2, WiringOwn
<1>4. \A d \in DOMAIN Wiring(c) :
        /\ d \in Connectors \X Channels
        /\ Wiring(c)[d] \in Kinds \X Channels
  BY <1>3 DEF Within, Own
<1>5. Connectors \subseteq Kinds /\ Connectors \cap Inputs = {}
  BY DEF Connectors, Kinds, Inputs
<1>6. \A d \in DOMAIN Wiring(c) : d \in Kinds \X Channels /\ d[1] \notin Inputs
  BY <1>4, <1>5
<1> QED
  BY <1>4, <1>6, RoutedIs DEF IsRouting

\* An open source has a configuration and channels that no other one claims.
LEMMA Opened ==
  ASSUME TypeOK, Apart, NEW s \in Streams, pc[s] # "closed"
  PROVE  /\ config[s] \in Configs /\ config[s] # NoConfig
         /\ config[s].channel \in Claims(config[s])
         /\ config[s].channel \in Channels
         /\ InputChannels(config[s]) \subseteq Claims(config[s])
         /\ PassesThrough(config[s]) =>
              /\ PassthroughChannel(config[s]) \in Claims(config[s])
              /\ PassthroughChannel(config[s]) \notin InputChannels(config[s])
         /\ \A t \in Streams \ {s} :
              /\ Claims(config[s]) \cap Claims(config[t]) = {}
              /\ pc[t] # "closed" => config[t].channel # config[s].channel
<1>1. ASSUME NEW t \in Streams, pc[t] # "closed"
      PROVE  /\ config[t] \in Configs /\ config[t] # NoConfig
             /\ config[t].channel \in InputChannels(config[t])
  <2>1. config[t] \in Configs /\ config[t] # NoConfig
    BY <1>1 DEF TypeOK, Apart
  <2> QED
    BY <2>1, ConfigFacts DEF InputChannels
<1>2. ASSUME NEW t \in Streams, pc[t] # "closed"
      PROVE  InputChannels(config[t]) \subseteq Claims(config[t])
  BY <1>1, <1>2 DEF Claims
<1>3. PassesThrough(config[s]) => PassthroughChannel(config[s]) \in Claims(config[s])
  BY <1>1 DEF Claims
<1>4. config[s].channel \in Channels
  BY <1>1, ConfigFacts DEF Channels
<1> QED
  BY <1>1, <1>2, <1>3, <1>4 DEF Apart

LEMMA InitInv == Init => Inv
<1> SUFFICES ASSUME Init PROVE Inv
  OBVIOUS
<1>1. \A s \in Streams : /\ config[s] = NoConfig /\ pc[s] = "closed"
                         /\ router[s] = NoRoute /\ Claims(config[s]) = {}
  BY DEF Init, Claims
<1>2. DOMAIN NoRoute = {}
  BY DEF NoRoute
<1>3. TypeOK
  BY <1>1, <1>2, RoutingAssumption DEF Init, TypeOK, IsRouting, Places
<1>4. Locked /\ Held /\ FromInputs
  BY <1>1, <1>2 DEF Init, Locked, Held, FromInputs, Underway
<1>5. Apart
  BY <1>1 DEF Apart
<1>6. SetUp = {}
  BY <1>1 DEF SetUp
<1> QED
  BY <1>3, <1>4, <1>5, <1>6 DEF Inv, InputsNotDriven, Driven

\* What a step keeps that sets up nothing.

LEMMA ApartStays ==
  ASSUME Apart, card' = card,
         \A t \in Streams :
           \/ pc'[t] = "closed" /\ config'[t] = NoConfig
           \/ config'[t] = config[t] /\ pc'[t] = pc[t]
           \/ /\ config'[t] = config[t] /\ pc[t] # "closed" /\ pc'[t] # "closed"
              /\ Supported(config[t])
  PROVE  Apart'
<1>1. Claims(NoConfig) = {}
  BY DEF Claims
<1>2. \A t \in Streams :
        LET d == config'[t]
        IN  /\ (pc'[t] = "closed") <=> (d = NoConfig)
            /\ Claims(d) \subseteq 1..card.outputs
            /\ d # NoConfig /\ PassesThrough(d) =>
                 PassthroughChannel(d) \notin InputChannels(d)
            /\ pc'[t] \notin {"closed", "locked"} => Supported(d)
  BY <1>1 DEF Apart
<1>3. \A t, u \in Streams : t # u => Claims(config'[t]) \cap Claims(config'[u]) = {}
  BY <1>1 DEF Apart
<1> QED
  BY <1>2, <1>3, CardStays DEF Apart

LEMMA OutputsStay ==
  ASSUME InputsNotDriven, Driven, card' = card, transmit' = transmit,
         \A t \in SetUp' : t \in SetUp /\ config'[t] = config[t]
  PROVE  InputsNotDriven' /\ Driven'
<1>1. InputsNotDriven'
  BY DEF InputsNotDriven
<1>2. Driven'
  BY CardStays DEF Driven
<1> QED
  BY <1>1, <1>2

LEMMA LockStep ==
  ASSUME Inv, NEW s \in Streams, Lock(s)
  PROVE  Inv'
<1> USE DEF Inv
<1>1. /\ pc[s] = "closed" /\ sem > 0 /\ sem' = sem - 1
      /\ pc' = [pc EXCEPT ![s] = "locked"]
      /\ UNCHANGED <<card, routing, transmit, router, heard, circulating, crashes>>
  BY DEF Lock, SemWait, unlocked
<1>2. PICK c \in Configs : Free(c) /\ config' = [config EXCEPT ![s] = c]
  BY DEF Lock
<1>3. pc \in [Streams -> Places] /\ config \in [Streams -> Configs \cup {NoConfig}]
  BY DEF TypeOK
<1>4. /\ pc'[s] = "locked" /\ config'[s] = c /\ c # NoConfig
      /\ \A t \in Streams \ {s} : pc'[t] = pc[t] /\ config'[t] = config[t]
  BY <1>1, <1>2, <1>3, ConfigFacts
<1>5. TypeOK'
  BY <1>1, <1>2, <1>3 DEF TypeOK, Places, IsRouting
<1>6. Locked'
  BY <1>1, <1>4 DEF Locked, Underway
<1>7. Apart'
  <2>1. /\ Claims(c) \subseteq 1..card.outputs
        /\ PassesThrough(c) => PassthroughChannel(c) \notin InputChannels(c)
        /\ \A t \in Streams : Claims(config[t]) \cap Claims(c) = {}
    BY <1>2 DEF Free
  <2>2. \A t \in Streams :
          LET d == config'[t]
          IN  /\ (pc'[t] = "closed") <=> (d = NoConfig)
              /\ Claims(d) \subseteq 1..card.outputs
              /\ d # NoConfig /\ PassesThrough(d) =>
                   PassthroughChannel(d) \notin InputChannels(d)
              /\ pc'[t] \notin {"closed", "locked"} => Supported(d)
    BY <1>4, <2>1 DEF Apart
  <2>3. \A t, u \in Streams : t # u => Claims(config'[t]) \cap Claims(config'[u]) = {}
    BY <1>4, <2>1 DEF Apart
  <2> QED
    BY <1>1, <2>2, <2>3, CardStays DEF Apart
<1>8. Held'
  BY <1>1, <1>4 DEF Held
<1>9. SetUp' = SetUp /\ s \notin SetUp
  BY <1>1, <1>4 DEF SetUp
<1>10. InputsNotDriven' /\ Driven'
  <2>1. \A t \in SetUp : config'[t] = config[t]
    BY <1>4, <1>9 DEF SetUp
  <2> QED
    BY <1>1, <1>9, <2>1, OutputsStay
<1>11. FromInputs'
  BY <1>1 DEF FromInputs
<1> QED
  BY <1>5, <1>6, <1>7, <1>8, <1>10, <1>11

LEMMA InitFailsStep ==
  ASSUME Inv, NEW s \in Streams, InitFails(s)
  PROVE  Inv'
<1> USE DEF Inv
<1>1. /\ pc[s] = "locked" /\ sem' = sem + 1
      /\ pc' = [pc EXCEPT ![s] = "closed"] /\ config' = [config EXCEPT ![s] = NoConfig]
      /\ UNCHANGED <<card, routing, transmit, router, heard, circulating, crashes>>
  BY DEF InitFails, SemPost, unlocked
<1>2. /\ pc'[s] = "closed" /\ config'[s] = NoConfig
      /\ \A t \in Streams \ {s} : pc'[t] = pc[t] /\ config'[t] = config[t]
  BY <1>1 DEF TypeOK
<1>3. sem = 0 /\ \A t \in Streams \ {s} : pc[t] \notin Underway
  BY <1>1 DEF Locked, Underway
<1>4. TypeOK'
  BY <1>1, <1>3 DEF TypeOK, Places, IsRouting
<1>5. Locked'
  BY <1>1, <1>2, <1>3 DEF Locked, Underway
<1>6. Apart'
  BY <1>1, <1>2, ApartStays
<1>7. Held'
  BY <1>1, <1>2 DEF Held
<1>8. InputsNotDriven' /\ Driven'
  BY <1>1, <1>2, OutputsStay DEF SetUp
<1>9. FromInputs'
  BY <1>1 DEF FromInputs
<1> QED
  BY <1>4, <1>5, <1>6, <1>7, <1>8, <1>9

LEMMA GetRoutingStep ==
  ASSUME Inv, NEW s \in Streams, GetRouting(s)
  PROVE  Inv'
<1> USE DEF Inv
<1>1. /\ pc[s] = "locked" /\ Supported(config[s])
      /\ pc' = [pc EXCEPT ![s] = "read"] /\ router' = [router EXCEPT ![s] = routing]
      /\ UNCHANGED <<card, sem, routing, transmit, config, heard, circulating, crashes>>
  BY DEF GetRouting, unlocked
<1>2. /\ pc'[s] = "read" /\ \A t \in Streams \ {s} : pc'[t] = pc[t]
      /\ router'[s] = routing /\ \A t \in Streams \ {s} : router'[t] = router[t]
  BY <1>1 DEF TypeOK
<1>3. TypeOK'
  BY <1>1, <1>2 DEF TypeOK, Places, IsRouting
<1>4. Locked'
  BY <1>1, <1>2 DEF Locked, Underway
<1>5. Apart'
  BY <1>1, <1>2, ApartStays
<1>6. Held'
  BY <1>1, <1>2 DEF Held
<1>7. InputsNotDriven' /\ Driven'
  BY <1>1, <1>2, OutputsStay DEF SetUp
<1>8. FromInputs'
  BY <1>1 DEF FromInputs
<1> QED
  BY <1>3, <1>4, <1>5, <1>6, <1>7, <1>8

LEMMA ApplyStep ==
  ASSUME Inv, NEW s \in Streams, ApplySignalRoute(s)
  PROVE  Inv'
<1> USE DEF Inv
<1> DEFINE c == config[s]
           out == IF PassesThrough(c) THEN {PassthroughChannel(c)} ELSE {}
<1>1. /\ pc[s] = "read" /\ pc' = [pc EXCEPT ![s] = "applied"]
      /\ routing' = Routed(router[s], c)
      /\ router' = [router EXCEPT ![s] = NoRoute]
      /\ UNCHANGED <<card, sem, config, heard, circulating, crashes>>
  BY DEF ApplySignalRoute, unlocked
<1>2. transmit' = (IF card.bidirectional THEN transmit \ InputChannels(c) ELSE transmit) \cup out
  BY DEF ApplySignalRoute, Transmitting
<1>3. /\ pc'[s] = "applied" /\ router'[s] = NoRoute
      /\ \A t \in Streams \ {s} : pc'[t] = pc[t] /\ router'[t] = router[t]
  BY <1>1 DEF TypeOK
<1>4. /\ c \in Configs /\ Supported(c) /\ out \subseteq Claims(c)
      /\ InputChannels(c) \subseteq Claims(c) /\ out \cap InputChannels(c) = {}
      /\ Claims(c) \subseteq 1..card.outputs
      /\ \A t \in Streams \ {s} : Claims(c) \cap Claims(config[t]) = {}
  <2>1. Supported(c) /\ Claims(c) \subseteq 1..card.outputs
    BY <1>1 DEF Apart
  <2> HIDE DEF c
  <2>2. c = config[s]
    BY DEF c
  <2> QED
    BY <1>1, <2>1, <2>2, Opened
<1>5. card \in Card
  BY RoutingAssumption DEF TypeOK
<1> HIDE DEF c
<1>6. IsRouting(routing') /\ \A d \in DOMAIN routing' : d[1] \notin Inputs
  <2>1. router[s] = routing
    BY <1>1 DEF Locked
  <2>2. IsRouting(routing) /\ \A d \in DOMAIN routing : d[1] \notin Inputs
    BY DEF TypeOK, FromInputs
  <2> QED
    BY <1>1, <1>4, <1>5, <2>1, <2>2, RoutedTyped
<1>7. TypeOK'
  <2>1. transmit' \subseteq Channels
    <3>1. 1..card.outputs \subseteq Channels
      BY <1>5 DEF Card, Channels
    <3> QED
      BY <1>2, <1>4, <3>1 DEF TypeOK
  <2>2. IsRouting(routing)' /\ \A t \in Streams : IsRouting(router[t])'
    BY <1>3, <1>6 DEF TypeOK, IsRouting, NoRoute
  <2> QED
    BY <1>1, <2>1, <2>2 DEF TypeOK, Places
<1>8. Locked'
  BY <1>1, <1>3 DEF Locked, Underway
<1>9. Apart'
  BY <1>1, <1>3, <1>4, ApartStays DEF c
<1>10. Held'
  BY <1>1, <1>3 DEF Held
<1>11. ASSUME NEW t \in SetUp', t # s
       PROVE  t \in SetUp /\ Claims(c) \cap Claims(config[t]) = {}
                /\ InputChannels(config[t]) \subseteq Claims(config[t])
                /\ (PassesThrough(config[t]) =>
                       PassthroughChannel(config[t]) \in Claims(config[t]))
  <2>1. t \in Streams /\ t \in SetUp /\ pc[t] # "closed"
    BY <1>3, <1>11 DEF SetUp
  <2> QED
    BY <1>4, <1>11, <2>1, Opened
<1>12. InputsNotDriven'
  <2>1. SUFFICES ASSUME NEW t \in SetUp', card.bidirectional
                 PROVE  transmit' \cap InputChannels(config[t]) = {}
    BY <1>1 DEF InputsNotDriven
  <2>2. CASE t = s
    BY <1>2, <1>4, <2>1, <2>2 DEF c
  <2>3. CASE t # s
    <3>1. transmit \cap InputChannels(config[t]) = {}
      BY <1>11, <2>1, <2>3 DEF InputsNotDriven
    <3> QED
      BY <1>2, <1>4, <1>11, <2>1, <2>3, <3>1
  <2> QED
    BY <2>2, <2>3
<1>13. Driven'
  <2>1. SUFFICES ASSUME NEW t \in SetUp', PassesThrough(config[t])
                 PROVE  PassthroughChannel(config[t]) \in transmit'
    BY <1>1, CardStays DEF Driven
  <2>2. CASE t = s
    BY <1>2, <2>1, <2>2 DEF c
  <2>3. CASE t # s
    <3>1. PassthroughChannel(config[t]) \in transmit
      BY <1>11, <2>1, <2>3 DEF Driven
    <3> QED
      BY <1>2, <1>4, <1>11, <2>1, <2>3, <3>1
  <2> QED
    BY <2>2, <2>3
<1>14. FromInputs'
  BY <1>6 DEF FromInputs
<1> QED
  BY <1>7, <1>8, <1>9, <1>10, <1>12, <1>13, <1>14

LEMMA UnlockStep ==
  ASSUME Inv, NEW s \in Streams, Unlock(s)
  PROVE  Inv'
<1> USE DEF Inv
<1>1. /\ pc[s] = "applied" /\ sem' = sem + 1 /\ pc' = [pc EXCEPT ![s] = "open"]
      /\ UNCHANGED <<card, routing, transmit, config, router, heard, circulating, crashes>>
  BY DEF Unlock, SemPost, unlocked
<1>2. pc'[s] = "open" /\ \A t \in Streams \ {s} : pc'[t] = pc[t]
  BY <1>1 DEF TypeOK
<1>3. sem = 0 /\ \A t \in Streams \ {s} : pc[t] \notin Underway
  BY <1>1 DEF Locked, Underway
<1>4. TypeOK'
  BY <1>1, <1>3 DEF TypeOK, Places, IsRouting
<1>5. Locked'
  BY <1>1, <1>2, <1>3 DEF Locked, Underway
<1>6. Apart'
  <2>1. Supported(config[s])
    BY <1>1 DEF Apart
  <2> QED
    BY <1>1, <1>2, <2>1, ApartStays
<1>7. Held'
  BY <1>1, <1>2 DEF Held
<1>8. InputsNotDriven' /\ Driven'
  BY <1>1, <1>2, OutputsStay DEF SetUp
<1>9. FromInputs'
  BY <1>1 DEF FromInputs
<1> QED
  BY <1>4, <1>5, <1>6, <1>7, <1>8, <1>9

\* The steps of sources that are set up, which need no semaphore.
LEMMA OpenedStep ==
  ASSUME Inv, NEW s \in Streams, InitAudio(s) \/ Run(s) \/ Quit(s)
  PROVE  Inv'
<1> USE DEF Inv
<1> DEFINE n == config[s].channel
<1>1. /\ pc[s] \in {"open", "ready", "running"}
      /\ \E p \in {"open", "ready", "running"} : pc' = [pc EXCEPT ![s] = p]
      /\ UNCHANGED <<card, sem, routing, transmit, config, router, crashes>>
  BY DEF InitAudio, Run, Quit, Ready
<1>2. /\ pc'[s] \in {"open", "ready", "running"}
      /\ \A t \in Streams \ {s} : pc'[t] = pc[t]
  BY <1>1 DEF TypeOK
<1>3. /\ n \in Channels
      /\ \A t \in Streams \ {s} : pc[t] # "closed" => config[t].channel # n
  BY <1>1, Opened
<1> HIDE DEF n
<1>4. /\ DOMAIN heard' \subseteq DOMAIN heard \cup {n}
      /\ \A m \in DOMAIN heard \ {n} : m \in DOMAIN heard' /\ heard'[m] = heard[m]
  BY DEF n, InitAudio, Run, Quit, :>, @@
<1>5. /\ DOMAIN circulating' \subseteq DOMAIN circulating \cup {n}
      /\ \A m \in DOMAIN circulating \ {n} :
           m \in DOMAIN circulating' /\ circulating'[m] = circulating[m]
  BY DEF n, InitAudio, Run, Quit, Without, :>, @@
<1>6. TypeOK'
  <2>1. DOMAIN heard' \cup DOMAIN circulating' \subseteq Channels
    BY <1>3, <1>4, <1>5 DEF TypeOK
  <2> QED
    BY <1>1, <2>1 DEF TypeOK, Places, IsRouting
<1>7. Locked'
  BY <1>1, <1>2 DEF Locked, Underway
<1>8. Apart'
  <2>1. Supported(config[s])
    BY <1>1 DEF Apart
  <2> QED
    BY <1>1, <1>2, <2>1, ApartStays
<1>9. Held'
  <2> SUFFICES ASSUME NEW t \in Streams
               PROVE  LET c == config[t]
                      IN  /\ pc'[t] = "running" =>
                               /\ c.channel \in DOMAIN circulating'
                               /\ circulating'[c.channel] = FrameRange(c)
                          /\ pc'[t] \in {"ready", "running"} /\ c.audio # "none" =>
                               /\ c.channel \in DOMAIN heard'
                               /\ heard'[c.channel] = AudioInput(c)
    BY <1>1 DEF Held
  <2>1. CASE t # s
    BY <1>2, <1>3, <1>4, <1>5, <2>1 DEF Held
  <2>2. CASE t = s /\ InitAudio(s)
    <3>1. pc'[s] = "ready" /\ n \in DOMAIN heard' /\ heard'[n] = AudioInput(config[s])
      BY <1>1, <2>2 DEF InitAudio, TypeOK, n, :>, @@
    <3> QED
      BY <2>2, <3>1 DEF n
  <2>3. CASE t = s /\ Run(s)
    <3>1. /\ n \in DOMAIN circulating' /\ circulating'[n] = FrameRange(config[s])
          /\ heard' = heard /\ pc[s] = Ready(config[s])
      BY <2>3 DEF Run, n, :>, @@
    <3>2. config[s].audio # "none" => pc[s] = "ready"
      BY <3>1 DEF Ready
    <3> QED
      BY <2>3, <3>1, <3>2 DEF n, Held
  <2>4. CASE t = s /\ Quit(s)
    <3>1. pc[s] = "running" /\ heard' = heard /\ pc'[s] = Ready(config[s])
      BY <2>4 DEF Quit, TypeOK
    <3>2. pc'[s] \in {"open", "ready"}
      BY <3>1 DEF Ready
    <3> QED
      BY <2>4, <3>1, <3>2 DEF Held
  <2> QED
    BY <2>1, <2>2, <2>3, <2>4
<1>10. InputsNotDriven' /\ Driven'
  BY <1>1, <1>2, OutputsStay DEF SetUp
<1>11. FromInputs'
  BY <1>1 DEF FromInputs
<1> QED
  BY <1>6, <1>7, <1>8, <1>9, <1>10, <1>11

\* A source that is closed leaves what the others hold.  Killed in its setup, it
\* leaves the semaphore taken.
LEMMA ClosedStep ==
  ASSUME Inv, NEW s \in Streams, Close(s) \/ Crash(s)
  PROVE  Inv'
<1> USE DEF Inv
<1>1. /\ pc[s] # "closed" /\ pc' = [pc EXCEPT ![s] = "closed"]
      /\ config' = [config EXCEPT ![s] = NoConfig]
      /\ Abandoned(config[s].channel)
      /\ UNCHANGED <<card, sem, routing, transmit>>
  BY DEF Close, Crash
<1>2. /\ pc'[s] = "closed" /\ config'[s] = NoConfig
      /\ \A t \in Streams \ {s} : pc'[t] = pc[t] /\ config'[t] = config[t]
  BY <1>1 DEF TypeOK
<1>3. /\ DOMAIN router' = Streams
      /\ \A t \in Streams \ {s} : router'[t] = router[t]
      /\ IsRouting(router'[s])
      /\ crashes' \in 0..MaxCrashes
  <2>1. CASE Close(s)
    BY <2>1 DEF Close, TypeOK
  <2>2. CASE Crash(s)
    <3>1. crashes' = crashes + 1 /\ crashes < MaxCrashes /\ router' = [router EXCEPT ![s] = NoRoute]
      BY <2>2 DEF Crash
    <3> QED
      BY <3>1, RoutingAssumption DEF TypeOK, IsRouting, NoRoute
  <2> QED
    BY <2>1, <2>2
<1>4. TypeOK'
  <2>1. DOMAIN heard' \cup DOMAIN circulating' \subseteq Channels
    BY <1>1 DEF TypeOK, Abandoned, Without
  <2>2. IsRouting(routing)' /\ \A t \in Streams : IsRouting(router[t])'
    BY <1>1, <1>3 DEF TypeOK, IsRouting
  <2> QED
    BY <1>1, <1>3, <2>1, <2>2 DEF TypeOK, Places
<1>5. Locked'
  BY <1>1, <1>2, <1>3 DEF Locked, Underway
<1>6. Apart'
  BY <1>1, <1>2, ApartStays
<1>7. Held'
  <2>1. \A t \in Streams \ {s} : pc[t] # "closed" => config[t].channel # config[s].channel
    BY <1>1, Opened
  <2>2. \A m : m # config[s].channel =>
          /\ m \in DOMAIN heard => m \in DOMAIN heard' /\ heard'[m] = heard[m]
          /\ m \in DOMAIN circulating =>
               m \in DOMAIN circulating' /\ circulating'[m] = circulating[m]
    BY <1>1 DEF Abandoned, Without
  <2> QED
    BY <1>2, <2>1, <2>2 DEF Held
<1>8. InputsNotDriven' /\ Driven'
  BY <1>1, <1>2, OutputsStay DEF SetUp
<1>9. FromInputs'
  BY <1>1 DEF FromInputs
<1> QED
  BY <1>4, <1>5, <1>6, <1>7, <1>8, <1>9

LEMMA StutterStep ==
  ASSUME Inv, UNCHANGED vars
  PROVE  Inv'
<1> USE DEF Inv
<1>1. UNCHANGED <<card, sem, routing, transmit, heard, circulating, config, router, pc, crashes>>
  BY DEF vars, unlocked
<1>2. TypeOK' /\ Locked' /\ Held' /\ FromInputs'
  BY <1>1 DEF TypeOK, IsRouting, Locked, Held, FromInputs
<1>3. Apart'
  BY <1>1, ApartStays
<1>4. InputsNotDriven' /\ Driven'
  BY <1>1, OutputsStay DEF SetUp
<1> QED
  BY <1>2, <1>3, <1>4

\* Whatever sources are opened with and wherever they are killed.
THEOREM Invariance == Spec => []Inv
<1>1. ASSUME Inv, [Next]_vars
      PROVE  Inv'
  <2>1. ASSUME NEW s \in Streams, Lock(s) PROVE Inv'
    BY <1>1, <2>1, LockStep
  <2>2. ASSUME NEW s \in Streams, InitFails(s) PROVE Inv'
    BY <1>1, <2>2, InitFailsStep
  <2>3. ASSUME NEW s \in Streams, GetRouting(s) PROVE Inv'
    BY <1>1, <2>3, GetRoutingStep
  <2>4. ASSUME NEW s \in Streams, ApplySignalRoute(s) PROVE Inv'
    BY <1>1, <2>4, ApplyStep
  <2>5. ASSUME NEW s \in Streams, Unlock(s) PROVE Inv'
    BY <1>1, <2>5, UnlockStep
  <2>6. ASSUME NEW s \in Streams, InitAudio(s) \/ Run(s) \/ Quit(s) PROVE Inv'
    BY <1>1, <2>6, OpenedStep
  <2>7. ASSUME NEW s \in Streams, Close(s) \/ Crash(s) PROVE Inv'
    BY <1>1, <2>7, ClosedStep
  <2>8. CASE UNCHANGED vars
    BY <1>1, <2>8, StutterStep
  <2> QED
    BY <1>1, <2>1, <2>2, <2>3, <2>4, <2>5, <2>6, <2>7, <2>8 DEF Next
<1> QED
  BY <1>1, InitInv, PTL DEF Spec

-----------------------------------------------------------------------------
\* The theorems about all configurations.

\* The variables keep their types; the semaphore never exceeds 1.
THEOREM TypeCorrect == Spec => []TypeOK
<1>1. Inv => TypeOK
  BY DEF Inv
<1> QED
  BY <1>1, Invariance, PTL

\* No connector that a source captures from is driven as an output, by whatever
\* source, open or closed or killed.
THEOREM InputsFree == Spec => []InputsNotDriven
<1>1. Inv => InputsNotDriven
  BY DEF Inv
<1> QED
  BY <1>1, Invariance, PTL

\* Every setup is a setup of the routing there is, under the semaphore that the
\* source holds from its reading to its writing.
THEOREM Serialised == Spec => SetupsOneAfterAnother
<1> DEFINE Step(s) == /\ pc[s] = "read"
                      /\ routing' = Routed(routing, config[s])
                      /\ transmit' = Transmitting(transmit, config[s])
<1>1. ASSUME Inv, [Next]_vars
      PROVE  [\E s \in Streams : Step(s)]_<<routing, transmit>>
  <2>1. ASSUME NEW s \in Streams, ApplySignalRoute(s) PROVE Step(s)
    BY <1>1, <2>1 DEF Inv, Locked, ApplySignalRoute
  <2>2. ASSUME NEW s \in Streams,
               \/ Lock(s) \/ InitFails(s) \/ GetRouting(s) \/ Unlock(s)
               \/ InitAudio(s) \/ Run(s) \/ Quit(s) \/ Close(s) \/ Crash(s)
        PROVE  UNCHANGED <<routing, transmit>>
    BY <2>2 DEF Lock, InitFails, GetRouting, Unlock, InitAudio, Run, Quit, Close, Crash
  <2>3. CASE UNCHANGED vars
    BY <2>3 DEF vars
  <2> HIDE DEF Step
  <2> QED
    BY <1>1, <2>1, <2>2, <2>3 DEF Next
<1> QED
  BY <1>1, Invariance, PTL DEF Spec, SetupsOneAfterAnother

\* Which ranges of 15 and of 7 frames meet.
LEMMA RangesMeet ==
  ASSUME NEW c \in Configs, NEW d \in Configs, Large(c), ~Large(d)
  PROVE  FrameRange(c) \cap FrameRange(d) # {} <=> Crowds(c, d)
<1> DEFINE m == c.channel
           n == d.channel
<1>1. m \in 1..8 /\ n \in 1..8
  BY ConfigFacts
<1>2. /\ FrameRange(c) = 15 * (m - 1) .. 15 * m - 1
      /\ FrameRange(d) = 7 * (n - 1) .. 7 * n - 1
  BY DEF FrameRange
<1>3. Crowds(c, d) <=> n \in AmongFrames(m)
  BY DEF Crowds
<1> HIDE DEF m, n
<1>4. n \in AmongFrames(m) <=> 7 * (n - 1) <= 15 * m - 1 /\ 15 * (m - 1) <= 7 * n - 1
  BY <1>1 DEF AmongFrames
<1>5. ASSUME n \in AmongFrames(m)
      PROVE  FrameRange(c) \cap FrameRange(d) # {}
  <2>1. CASE 15 * (m - 1) <= 7 * (n - 1)
    <3>1. 7 * (n - 1) \in FrameRange(c) \cap FrameRange(d)
      BY <1>1, <1>2, <1>4, <1>5, <2>1
    <3> QED
      BY <3>1
  <2>2. CASE ~(15 * (m - 1) <= 7 * (n - 1))
    <3>1. 15 * (m - 1) \in FrameRange(c) \cap FrameRange(d)
      BY <1>1, <1>2, <1>4, <1>5, <2>2
    <3> QED
      BY <3>1
  <2> QED
    BY <2>1, <2>2
<1>6. ASSUME NEW x \in FrameRange(c) \cap FrameRange(d)
      PROVE  n \in AmongFrames(m)
  BY <1>1, <1>2, <1>4, <1>6
<1> QED
  BY <1>3, <1>5, <1>6

\* Ranges of one length do not meet.
LEMMA RangesApart ==
  ASSUME NEW c \in Configs, NEW d \in Configs, Large(c) <=> Large(d),
         c.channel # d.channel
  PROVE  FrameRange(c) \cap FrameRange(d) = {}
<1>1. c.channel \in 1..8 /\ d.channel \in 1..8
  BY ConfigFacts
<1>2. \A m, n \in 1..8 :
        m # n => (7 * (m - 1) .. 7 * m - 1) \cap (7 * (n - 1) .. 7 * n - 1) = {}
  OBVIOUS
<1>3. \A m, n \in 1..8 :
        m # n => (15 * (m - 1) .. 15 * m - 1) \cap (15 * (n - 1) .. 15 * n - 1) = {}
  OBVIOUS
<1>4. \E size \in {7, 15} :
        /\ FrameRange(c) = size * (c.channel - 1) .. size * c.channel - 1
        /\ FrameRange(d) = size * (d.channel - 1) .. size * d.channel - 1
  BY DEF FrameRange
<1> QED
  BY <1>1, <1>2, <1>3, <1>4

\* The frames of a quad link from channel 1, 2 or 5 on are apart from those of the
\* channels that it leaves to others.
LEMMA QuadsApart ==
  ASSUME NEW c \in Configs, NEW d \in Configs, Supported(c), Quad(c), Crowds(c, d),
         InputChannels(c) \subseteq 1..8, d.channel \notin InputChannels(c)
  PROVE  c.link = "uhd" /\ c.channel \in {3, 4}
<1>1. InputChannels(c) = c.channel .. c.channel + 3
  BY DEF InputChannels
<1>2. c.channel \in 1..8 /\ d.channel \in 1..8 /\ d.channel \in AmongFrames(c.channel)
  BY ConfigFacts DEF Crowds
<1>3. c.channel \notin {1, 2}
  BY <1>1, <1>2 DEF AmongFrames
<1>4. c.channel \in {3, 4}
  BY <1>2, <1>3 DEF AmongFrames
<1> QED
  BY <1>4, ConfigFacts DEF Supported, Quad

\* Which sources that run share frames of the card's memory, and that no others do.
THEOREM FramesApart == Spec => []CardFramesApart
<1>1. ASSUME Inv, NEW s \in Running, NEW t \in Running, s # t
      PROVE  LET c == config[s]
                 d == config[t]
             IN /\ SharedFrames(s, t) # {} <=> Crowds(c, d) \/ Crowds(d, c)
                /\ Crowds(c, d) /\ Quad(c) => c.link = "uhd" /\ c.channel \in {3, 4}
  <2> DEFINE c == config[s]
             d == config[t]
  <2>1. /\ TypeOK /\ Apart /\ card.outputs \in {4, 8}
        /\ s \in Streams /\ t \in Streams /\ pc[s] = "running" /\ pc[t] = "running"
    BY <1>1, RoutingAssumption DEF Inv, TypeOK, Card, Running
  <2>2. /\ c \in Configs /\ d \in Configs /\ c.channel # d.channel
        /\ d.channel \notin InputChannels(c) /\ InputChannels(c) \subseteq 1..8
        /\ Supported(c)
    <3>1. Claims(c) \subseteq 1..card.outputs /\ Supported(c)
      BY <2>1 DEF Apart
    <3>2. 1..card.outputs \subseteq 1..8
      BY <2>1
    <3>3. /\ c \in Configs /\ d \in Configs /\ c.channel # d.channel
          /\ d.channel \in Claims(d) /\ InputChannels(c) \subseteq Claims(c)
          /\ Claims(c) \cap Claims(d) = {}
      BY <1>1, <2>1, Opened
    <3> QED
      BY <3>1, <3>2, <3>3
  <2>3. SharedFrames(s, t) = FrameRange(c) \cap FrameRange(d)
    <3>1. /\ circulating[c.channel] = FrameRange(c)
          /\ circulating[d.channel] = FrameRange(d)
      BY <1>1, <2>1 DEF Inv, Held
    <3> QED
      BY <3>1 DEF SharedFrames
  <2>4. SharedFrames(s, t) # {} <=> Crowds(c, d) \/ Crowds(d, c)
    <3> HIDE DEF c, d
    <3>1. CASE Large(c) <=> Large(d)
      BY <2>2, <2>3, <3>1, RangesApart DEF Crowds
    <3>2. CASE Large(c) /\ ~Large(d)
      BY <2>2, <2>3, <3>2, RangesMeet DEF Crowds
    <3>3. CASE ~Large(c) /\ Large(d)
      BY <2>2, <2>3, <3>3, RangesMeet DEF Crowds
    <3> QED
      BY <3>1, <3>2, <3>3
  <2>5. Crowds(c, d) /\ Quad(c) => c.link = "uhd" /\ c.channel \in {3, 4}
    BY <2>2, QuadsApart
  <2> QED
    BY <2>4, <2>5
<1>2. Inv => CardFramesApart
  BY <1>1 DEF CardFramesApart
<1> QED
  BY <1>2, Invariance, PTL

-----------------------------------------------------------------------------
\* The theorems about sensible configurations.

AllSensible == \A c \in Configs : Sensible(c)

LEMMA WiredStep ==
  ASSUME AllSensible, Inv, Wired, [Next]_vars
  PROVE  Wired'
<1>1. ASSUME NEW s \in Streams, ApplySignalRoute(s), NEW t \in SetUp'
      PROVE  WiredFor(config[t])'
  <2>1. /\ pc[s] = "read" /\ pc' = [pc EXCEPT ![s] = "applied"]
        /\ routing' = Routed(router[s], config[s])
        /\ UNCHANGED <<card, config>>
    BY <1>1 DEF ApplySignalRoute
  <2>2. router[s] = routing
    BY <2>1 DEF Inv, Locked
  <2> SUFFICES ASSUME NEW d \in DOMAIN Wiring(config[t])
               PROVE  d \in DOMAIN routing' /\ routing'[d] = Wiring(config[t])[d]
    BY <2>1, CardStays DEF WiredFor
  <2>3. CASE t = s
    BY <2>1, <2>3, RoutedIs
  <2>4. CASE t # s
    <3>1. t \in SetUp /\ t \in Streams /\ pc[t] \notin {"closed", "locked"}
      BY <1>1, <2>1, <2>4 DEF SetUp, Inv, TypeOK
    <3>2. d \in DOMAIN routing /\ routing[d] = Wiring(config[t])[d]
      BY <3>1 DEF Wired, WiredFor
    <3>3. card.outputs \in {4, 8}
      BY RoutingAssumption DEF Inv, TypeOK, Card
    <3>4. \A u \in {s, t} : Supported(config[u]) /\ Claims(config[u]) \subseteq 1..card.outputs
      BY <2>1, <3>1 DEF Inv, Apart
    <3>5. Claims(config[s]) \subseteq 1..8 /\ Claims(config[t]) \subseteq 1..8
      BY <3>3, <3>4
    <3>6. /\ config[s] \in Configs /\ config[t] \in Configs
          /\ Claims(config[s]) \cap Claims(config[t]) = {}
      BY <2>1, <2>4, <3>1, Opened DEF Inv
    <3> QED
      BY <2>1, <2>2, <3>2, <3>4, <3>5, <3>6, Survives DEF AllSensible
  <2> QED
    BY <2>3, <2>4
<1>2. ASSUME UNCHANGED <<card, routing>>,
             \A t \in SetUp' : t \in SetUp /\ config'[t] = config[t]
      PROVE  Wired'
  BY <1>2, CardStays DEF Wired, WiredFor
<1>3. ASSUME NEW s \in Streams,
             Lock(s) \/ InitFails(s) \/ GetRouting(s) \/ Unlock(s) \/ InitAudio(s)
               \/ Run(s) \/ Quit(s) \/ Close(s) \/ Crash(s)
      PROVE  Wired'
  <2>1. UNCHANGED <<card, routing>>
    BY <1>3 DEF Lock, InitFails, GetRouting, Unlock, InitAudio, Run, Quit, Close, Crash
  <2>2. ASSUME NEW t \in SetUp', t # s
        PROVE  t \in SetUp /\ config'[t] = config[t]
    <3>1. pc'[t] = pc[t] /\ config'[t] = config[t]
      BY <1>3, <2>2 DEF SetUp, Inv, TypeOK, Lock, InitFails, GetRouting, Unlock, InitAudio,
                        Run, Quit, Close, Crash
    <3> QED
      BY <3>1 DEF SetUp
  <2>3. ASSUME s \in SetUp'
        PROVE  s \in SetUp /\ config'[s] = config[s]
    <3>1. pc[s] \in {"applied", "open", "ready", "running"} /\ config' = config
      BY <1>3, <2>3 DEF SetUp, Inv, TypeOK, Lock, InitFails, GetRouting, Unlock, InitAudio,
                        Run, Quit, Close, Crash
    <3> QED
      BY <3>1 DEF SetUp
  <2> QED
    BY <2>1, <2>2, <2>3, <1>2
<1>4. ASSUME UNCHANGED vars
      PROVE  Wired'
  BY <1>4, <1>2 DEF vars, SetUp
<1>5. ASSUME NEW s \in Streams, ApplySignalRoute(s)
      PROVE  Wired'
  BY <1>1, <1>5 DEF Wired
<1> QED
  BY <1>3, <1>4, <1>5 DEF Next

LEMMA Wiredness == ASSUME AllSensible PROVE Spec => [](Inv /\ Wired)
<1>1. Init => Wired
  BY DEF Init, Wired, SetUp
<1>2. Inv /\ Wired /\ [Next]_vars => Wired'
  BY WiredStep
<1> QED
  BY <1>1, <1>2, Invariance, PTL DEF Spec

\* Every signal of a source that is set up reaches one of its own frame buffers,
\* and its embedded audio comes from the same input, however the setups of the
\* other sources come in between.
THEOREM OwnInputsKept == ASSUME AllSensible PROVE Spec => []OwnInputs
<1>1. ASSUME Inv, Wired, NEW s \in SetUp
      PROVE  /\ Signals(config[s]) \subseteq Received(InputChannels(config[s]))
             /\ pc[s] = "running" => OwnSound(config[s])
  <2>1. s \in Streams /\ pc[s] \notin {"closed", "locked"}
    BY DEF SetUp
  <2>2. config[s] \in Configs /\ Sensible(config[s]) /\ Supported(config[s])
    <3>1. config[s] \in Configs
      BY <1>1, <2>1, Opened DEF Inv
    <3> QED
      BY <1>1, <2>1, <3>1 DEF Inv, Apart, AllSensible
  <2>3. Signals(config[s]) \subseteq Received(InputChannels(config[s]))
    BY <1>1, <2>2, Receives DEF Wired, Inv
  <2>4. ASSUME pc[s] = "running"
        PROVE  OwnSound(config[s])
    <3>1. config[s].audio # "none" => heard[config[s].channel] = AudioInput(config[s])
      BY <1>1, <2>1, <2>4 DEF Inv, Held
    <3> QED
      BY <2>2, <3>1 DEF OwnSound, AudioInput, InputNumber
  <2> QED
    BY <2>3, <2>4
<1>2. Inv /\ Wired => OwnInputs
  BY <1>1 DEF OwnInputs
<1> QED
  BY <1>2, Wiredness, PTL

\* The output that repeats a source's input stays connected to it and driven.
THEOREM OutputsKept == ASSUME AllSensible PROVE Spec => []OutputsShown
<1>1. ASSUME Inv, Wired, NEW s \in SetUp,
             NEW d \in DOMAIN (Passthrough(config[s]) @@ EndToEnd(config[s]))
      PROVE  /\ d \in DOMAIN routing
             /\ routing[d] = (Passthrough(config[s]) @@ EndToEnd(config[s]))[d]
  <2>1. config[s] \in Configs
    BY <1>1, Opened DEF SetUp, Inv
  <2>2. DOMAIN Passthrough(config[s]) = {} \/ DOMAIN EndToEnd(config[s]) = {}
    BY DEF Passthrough, PassesThrough, EndToEnd, NoRoute
  <2>3. \/ /\ d \in DOMAIN Passthrough(config[s])
           /\ (Passthrough(config[s]) @@ EndToEnd(config[s]))[d] = Passthrough(config[s])[d]
        \/ /\ d \in DOMAIN EndToEnd(config[s])
           /\ (Passthrough(config[s]) @@ EndToEnd(config[s]))[d] = EndToEnd(config[s])[d]
    BY <1>1 DEF @@
  <2>4. /\ d \in DOMAIN Wiring(config[s])
        /\ Wiring(config[s])[d] = (Passthrough(config[s]) @@ EndToEnd(config[s]))[d]
    BY <2>1, <2>3, WiringIs
  <2> QED
    BY <1>1, <2>4 DEF Wired, WiredFor
<1>2. Inv /\ Wired => OutputsShown
  BY <1>1 DEF OutputsShown, Inv, Driven
<1> QED
  BY <1>2, Wiredness, PTL

===============================================================================
