------------------------------- MODULE Routing -------------------------------
(***************************************************************************)
(* The card's routing, which all video sources of all processes share      *)
(* (gstntv2.cpp: Init, SetupVideo, Quit).  Opening a source reads the      *)
(* routing, removes and adds connections for its channel, and writes the   *)
(* whole routing back, all under a semaphore named in the file system.     *)
(* Audio systems (InitAudio) and the card's frame memory (Run, Quit) are   *)
(* shared without it: each channel has its own by arithmetic.              *)
(*                                                                         *)
(* A routing is a function from the card's connected inputs (connectors)   *)
(* to the signals that feed them.  A multiplexer or colour converter is    *)
(* named alike as a connector and as the signal it puts out.               *)
(*                                                                         *)
(* Left out: the per-channel frame formats, interrupts and VANC registers, *)
(* which no source reads back, and the video formats, of which only what   *)
(* SetupVideo tells apart is kept ("link").  The router's AddConnection    *)
(* replaces a connector's signal, ApplySignalRoute the whole routing.      *)
(***************************************************************************)
EXTENDS Integers

CONSTANTS
  Streams,        \* video sources, each in a process of its own
  Configs,        \* what a source may be opened with
  Cards,          \* the cards there are, of which the streams share one
  MaxCrashes      \* bound: processes that are killed

Channels == 1..8
NoConfig == [channel |-> 0]
Config ==
  [channel : Channels, source : {"SDI", "HDMI", "Analog"},
   link : {"single", "sqd", "tsi", "tsi8k", "tsi8khfr", "uhd"},
   rgba : BOOLEAN, rgbIn : BOOLEAN, passthrough : BOOLEAN,
   is12G : BOOLEAN, audio : {"none", "embedded", "HDMI", "AES", "analog"}]

\* NTV2DeviceHasBiDirectionalSDI and NTV2DeviceGetNumVideoOutputs.
Card == [bidirectional : BOOLEAN, outputs : {4, 8}]

\* Quad links are of SDI, or are the four quadrants of one HDMI input.
ASSUME RoutingAssumption ==
  /\ Configs \subseteq Config
  /\ \A c \in Configs :
       /\ c.link \in {"sqd", "tsi", "tsi8k", "tsi8khfr"} => c.source = "SDI"
       /\ c.link = "uhd" \/ c.rgbIn => c.source = "HDMI"
  /\ Cards \subseteq Card
  /\ MaxCrashes \in Nat

VARIABLES
  card,      \* never changes
  sem,       \* /gstreamer-ajavideosrc-sem
  routing,   \* the card's
  transmit,  \* SDI channels switched to output
  heard,     \* per audio system in use: where its samples come from
  circulating, \* per channel that AutoCirculate runs on: its frames
  config,    \* per source: what it is opened with
  router,    \* per source: the routing it read
  pc,        \* per source: where it is in Init
  crashes

unlocked == <<heard, circulating>>
vars == <<card, sem, routing, transmit, unlocked, config, router, pc, crashes>>

----------------------------------------------------------------------------
(* What SetupVideo derives from a configuration.                           *)

\* A connection, and connections of which those of f replace those of g.  (As in
\* module TLC, whose own operators theorems cannot be about.)
d :> e == [x \in {d} |-> e]
f @@ g == [x \in DOMAIN f \cup DOMAIN g |-> IF x \in DOMAIN f THEN f[x] ELSE g[x]]

Quad(c) == c.link # "single"

\* Channels of a quad link are four in a row from 1 or from 5.
Base(c) == IF c.channel = 1 THEN 0 ELSE 4

\* HDMI falls back to the first input, analog has only one.
InputNumber(c) ==
  CASE c.source = "SDI" -> c.channel
    [] c.source = "HDMI" -> IF c.channel <= 4 THEN c.channel ELSE 1
    [] c.source = "Analog" -> 1

InputKind(c) ==
  CASE c.source = "SDI" -> "SDIIn"
    [] c.source = "HDMI" -> IF c.rgbIn THEN "HDMIInRGB" ELSE "HDMIIn"
    [] c.source = "Analog" -> "AnalogIn"

InputIdentifier(c) == <<InputKind(c), InputNumber(c)>>
Csc(c) == <<"CSC", InputNumber(c)>>
FbfInput(c) == <<"FB", c.channel>>

Muxes(first) == {"MuxA", "MuxB"} \X {first, first + 1}
HdmiQuadrants == {<<"HDMIIn", 1>>} \cup ({"HDMIIn1Q"} \X (2..4))

\* The first multiplexer of the stream.
FirstMux(c) == IF c.source = "HDMI" \/ Base(c) = 0 THEN 1 ELSE 3

\* A single link also frees the second input of the frame buffers that a quad
\* link would use its input for.
SecondInputs(c) ==
  IF c.source # "SDI" THEN {} ELSE
    {<<"FBB", n>> : n \in {m \in {1, 2, 5, 6} :
       c.channel \in CASE m = 1 -> {1, 2} [] m = 2 -> {2, 4}
                       [] m = 5 -> {5, 6} [] m = 6 -> {6, 8}}}

\* The connectors freed, and the signals taken off all connectors.
FreedConnectors(c) ==
  CASE Quad(c) /\ c.source = "HDMI" -> ({"FB", "FBB"} \X {1, 2}) \cup Muxes(1)
    [] Quad(c) /\ c.source # "HDMI" ->
         LET b == Base(c)
         IN ({"FB"} \X (b + 1 .. b + 4)) \cup ({"FBB", "FBDS2"} \X (b + 1 .. b + 2))
              \cup Muxes(FirstMux(c))
    [] OTHER -> {FbfInput(c), Csc(c)} \cup SecondInputs(c)

FreedSignals(c) ==
  CASE Quad(c) /\ c.source = "HDMI" -> Muxes(1) \cup HdmiQuadrants
    [] Quad(c) /\ c.source # "HDMI" ->
         LET b == Base(c)
         IN Muxes(FirstMux(c)) \cup ({"SDIIn"} \X (b + 1 .. b + 4))
              \cup ({"SDIInDS2"} \X (b + 1 .. b + 2))
    [] OTHER -> {InputIdentifier(c)}

Disconnected(r, c) ==
  [d \in {e \in DOMAIN r : e \notin FreedConnectors(c)
                             /\ r[e] \notin FreedSignals(c)} |-> r[d]]

\* The stream's first signal goes to the frame buffer of its channel, through
\* the colour converter when the colour spaces differ.
FirstRoute(c) ==
  LET first == IF c.link \in {"uhd", "tsi"} THEN <<"MuxA", FirstMux(c)>>
                                            ELSE InputIdentifier(c)
  IN IF c.rgba = c.rgbIn THEN FbfInput(c) :> first
                         ELSE Csc(c) :> first @@ FbfInput(c) :> Csc(c)

NoRoute == [d \in {} |-> <<>>]

\* Cards without bidirectional SDI put their input out again.
EndToEnd(c) ==
  IF card.bidirectional \/ c.channel > 4 THEN NoRoute
  ELSE IF c.source = "HDMI" THEN <<"HDMIOutQ", c.channel>> :> <<"HDMIIn", c.channel>>
  ELSE <<"SDIOut", c.channel>> :> <<"SDIIn", c.channel>>

\* Four signals through two multiplexers into frame buffers n and n + 1; the
\* first of these connections is FirstRoute's.
MuxRoutes(m, n, signals) ==
  <<"FBB", n>> :> <<"MuxB", m>> @@ <<"FB", n + 1>> :> <<"MuxA", m + 1>>
    @@ <<"FBB", n + 1>> :> <<"MuxB", m + 1>>
    @@ <<"MuxA", m>> :> signals[1] @@ <<"MuxB", m>> :> signals[2]
    @@ <<"MuxA", m + 1>> :> signals[3] @@ <<"MuxB", m + 1>> :> signals[4]

\* The second frame buffer of an 8K stream, as the code has it: a stream on
\* channel 5 writes the connector of the first.
SecondFrameBuffer(c) == <<"FB", IF Base(c) = 0 THEN 2 ELSE 5>>

QuadRoutes(c) ==
  LET b == Base(c)
      Sdi(n) == <<"SDIIn", b + n>>
      DS2(n) == <<"FBDS2", b + n>>
  IN CASE c.link = "single" -> NoRoute
       [] c.link = "uhd" ->
            MuxRoutes(1, 1, [q \in 1..4 |-> IF q = 1 THEN <<"HDMIIn", 1>>
                                                     ELSE <<"HDMIIn1Q", q>>])
       [] c.link = "tsi8khfr" ->
            DS2(1) :> Sdi(2) @@ SecondFrameBuffer(c) :> Sdi(3) @@ DS2(2) :> Sdi(4)
       [] c.link = "tsi8k" ->
            DS2(1) :> <<"SDIInDS2", b + 1>> @@ SecondFrameBuffer(c) :> Sdi(2)
              @@ DS2(2) :> <<"SDIInDS2", b + 2>>
       [] c.link = "tsi" -> MuxRoutes(FirstMux(c), b + 1, [n \in 1..4 |-> Sdi(n)])
       [] c.link = "sqd" -> [d \in {"FB"} \X (b + 2 .. b + 4) |-> <<"SDIIn", d[2]>>]

\* Where a card with bidirectional SDI puts out the input of channels 1 to 4.
PassthroughChannel(c) ==
  IF card.outputs = 8 THEN c.channel + 4 ELSE c.channel + 2

PassesThrough(c) == c.passthrough /\ card.bidirectional /\ c.channel <= 4

Passthrough(c) ==
  IF PassesThrough(c)
    THEN <<"SDIOut", PassthroughChannel(c)>> :> <<"SDIIn", c.channel>>
    ELSE NoRoute

\* Mutant: connects first and disconnects then.
Routed_ThenFreed(r, c) ==
  Disconnected(Passthrough(c) @@ QuadRoutes(c) @@ EndToEnd(c) @@ FirstRoute(c) @@ r, c)

\* Later connections replace earlier ones.
Routed(r, c) ==
  Passthrough(c) @@ QuadRoutes(c) @@ EndToEnd(c) @@ FirstRoute(c) @@ Disconnected(r, c)

\* The channels SetupVideo switches to capture.
InputChannels(c) ==
  IF Quad(c) THEN c.channel .. c.channel + 3 ELSE {c.channel}

\* Mutant: of a quad link, only the first channel stops being an output.
Transmitting_FirstOnly(t, c) ==
  (IF card.bidirectional THEN t \ {c.channel} ELSE t)
    \cup (IF PassesThrough(c) THEN {PassthroughChannel(c)} ELSE {})

Transmitting(t, c) ==
  (IF card.bidirectional THEN t \ InputChannels(c) ELSE t)
    \cup (IF PassesThrough(c) THEN {PassthroughChannel(c)} ELSE {})

\* SetupAudio: the audio system has the number of the channel.  HDMI falls back to
\* the first input, which all other sources but embedded audio use anyway.
AudioInput(c) ==
  CASE c.audio = "embedded" -> <<c.audio, c.channel>>
    [] c.audio = "HDMI" -> <<c.audio, IF c.channel <= 4 THEN c.channel ELSE 1>>
    [] OTHER -> <<c.audio, 1>>

\* A 12G, UHD or 8K format.
Large(c) == Quad(c) \/ c.is12G

\* Mutant: the end is the first frame of the next channel.
FrameRange_TooLong(c) ==
  LET size == IF Large(c) THEN 15 ELSE 7
  IN  size * (c.channel - 1) .. size * c.channel

\* SetupAutoCirculate, with its own indices: 15 frames per channel, or 7.
FrameRange(c) ==
  LET size == IF Large(c) THEN 15 ELSE 7
  IN  size * (c.channel - 1) .. size * c.channel - 1

----------------------------------------------------------------------------
(* Opening and closing.                                                    *)

Init ==
  /\ card \in Cards
  /\ sem = 1
  /\ routing = NoRoute
  /\ transmit = {}
  /\ heard = NoRoute /\ circulating = NoRoute
  /\ config = [s \in Streams |-> NoConfig]
  /\ router = [s \in Streams |-> NoRoute]
  /\ pc = [s \in Streams |-> "closed"]
  /\ crashes = 0

\* The channels a source has for itself, its passthrough output included.
Claims(c) ==
  IF c = NoConfig THEN {}
  ELSE InputChannels(c) \cup (IF PassesThrough(c) THEN {PassthroughChannel(c)} ELSE {})

\* Sources in use at a time are set up by their users for different channels, and
\* for channels the card has; passthrough halves "the number of input channels".
Free(c) ==
  /\ Claims(c) \subseteq 1..card.outputs
  /\ PassesThrough(c) => PassthroughChannel(c) \notin InputChannels(c)
  /\ \A s \in Streams : Claims(config[s]) \cap Claims(c) = {}

\* Mutant: goes on without the semaphore, as when sem_wait is interrupted.
SemWait_Interrupted == UNCHANGED sem

SemWait ==
  /\ sem > 0
  /\ sem' = sem - 1

SemPost == sem' = sem + 1

\* ShmMutexLocker at the top of Init.
Lock(s) ==
  /\ pc[s] = "closed"
  /\ \E c \in Configs :
       /\ Free(c)
       /\ config' = [config EXCEPT ![s] = c]
  /\ SemWait
  /\ pc' = [pc EXCEPT ![s] = "locked"]
  /\ UNCHANGED <<card, routing, transmit, router, unlocked, crashes>>

\* "Quad mode requires channel 1 or 5".
Supported(c) == c.link \in {"single", "uhd"} \/ c.channel \in {1, 5}

\* Mutant: posts before the return, and again in the locker's destructor.
InitFails_PostsTwice(s) ==
  /\ pc[s] = "locked"
  /\ ~Supported(config[s])
  /\ sem' = sem + 2
  /\ config' = [config EXCEPT ![s] = NoConfig]
  /\ pc' = [pc EXCEPT ![s] = "closed"]
  /\ UNCHANGED <<card, routing, transmit, router, unlocked, crashes>>

InitFails(s) ==
  /\ pc[s] = "locked"
  /\ ~Supported(config[s])
  /\ SemPost
  /\ config' = [config EXCEPT ![s] = NoConfig]
  /\ pc' = [pc EXCEPT ![s] = "closed"]
  /\ UNCHANGED <<card, routing, transmit, router, unlocked, crashes>>

GetRouting(s) ==
  /\ pc[s] = "locked"
  /\ Supported(config[s])
  /\ router' = [router EXCEPT ![s] = routing]
  /\ pc' = [pc EXCEPT ![s] = "read"]
  /\ UNCHANGED <<card, sem, routing, transmit, config, unlocked, crashes>>

ApplySignalRoute(s) ==
  /\ pc[s] = "read"
  /\ routing' = Routed(router[s], config[s])
  /\ transmit' = Transmitting(transmit, config[s])
  /\ router' = [router EXCEPT ![s] = NoRoute]
  /\ pc' = [pc EXCEPT ![s] = "applied"]
  /\ UNCHANGED <<card, sem, config, unlocked, crashes>>

Unlock(s) ==
  /\ pc[s] = "applied"
  /\ SemPost
  /\ pc' = [pc EXCEPT ![s] = "open"]
  /\ UNCHANGED <<card, routing, transmit, config, router, unlocked, crashes>>

\* Where a source is that may run: its audio source, if there is one, is open.
Ready(c) == IF c.audio = "none" THEN "open" ELSE "ready"

InitAudio(s) ==
  /\ pc[s] = "open" /\ config[s].audio # "none"
  /\ heard' = config[s].channel :> AudioInput(config[s]) @@ heard
  /\ pc' = [pc EXCEPT ![s] = "ready"]
  /\ UNCHANGED <<card, sem, routing, transmit, circulating, config, router, crashes>>

\* AutoCirculate is stopped on the channel, given its frames and started.
Run(s) ==
  /\ pc[s] \in {"open", "ready"} /\ pc[s] = Ready(config[s])
  /\ circulating' = config[s].channel :> FrameRange(config[s]) @@ circulating
  /\ pc' = [pc EXCEPT ![s] = "running"]
  /\ UNCHANGED <<card, sem, routing, transmit, heard, config, router, crashes>>

Without(f, channel) == [n \in DOMAIN f \ {channel} |-> f[n]]

\* The capture thread stops it as it ends.
Quit(s) ==
  /\ pc[s] = "running"
  /\ circulating' = Without(circulating, config[s].channel)
  /\ pc' = [pc EXCEPT ![s] = Ready(config[s])]
  /\ UNCHANGED <<card, sem, routing, transmit, heard, config, router, crashes>>

\* What stays set of a channel that no source uses is not kept here: InitAudio and
\* Run set it before it is used.
Abandoned(channel) ==
  /\ heard' = Without(heard, channel)
  /\ circulating' = Without(circulating, channel)

\* Quit and Close leave the routing to whoever opens the channel next.
Close(s) ==
  /\ pc[s] \in {"open", "ready"}
  /\ config' = [config EXCEPT ![s] = NoConfig]
  /\ pc' = [pc EXCEPT ![s] = "closed"]
  /\ Abandoned(config[s].channel)
  /\ UNCHANGED <<card, sem, routing, transmit, router, crashes>>

\* The process is killed and started again; the semaphore stays as it is.
Crash(s) ==
  /\ pc[s] # "closed"
  /\ crashes < MaxCrashes
  /\ crashes' = crashes + 1
  /\ config' = [config EXCEPT ![s] = NoConfig]
  /\ router' = [router EXCEPT ![s] = NoRoute]
  /\ pc' = [pc EXCEPT ![s] = "closed"]
  /\ Abandoned(config[s].channel)
  /\ UNCHANGED <<card, sem, routing, transmit>>

Next ==
  \E s \in Streams :
    \/ Lock(s) \/ InitFails(s) \/ GetRouting(s) \/ ApplySignalRoute(s)
    \/ Unlock(s) \/ InitAudio(s) \/ Run(s) \/ Quit(s) \/ Close(s) \/ Crash(s)

Spec == Init /\ [][Next]_vars

----------------------------------------------------------------------------
(* Properties.                                                             *)

Kinds ==
  {"FB", "FBB", "FBDS2", "MuxA", "MuxB", "CSC", "SDIOut", "HDMIOutQ", "SDIIn",
   "SDIInDS2", "HDMIIn", "HDMIInRGB", "HDMIIn1Q", "AnalogIn"}
Places == {"closed", "locked", "read", "applied", "open", "ready", "running"}

IsRouting(r) == \A d \in DOMAIN r : d \in Kinds \X Channels /\ r[d] \in Kinds \X Channels

\* The variables' types; the semaphore never exceeds its initial value.
TypeOK ==
  /\ card \in Cards
  /\ sem \in 0..1
  /\ IsRouting(routing)
  /\ DOMAIN router = Streams /\ \A s \in Streams : IsRouting(router[s])
  /\ transmit \subseteq Channels
  /\ DOMAIN heard \cup DOMAIN circulating \subseteq Channels
  /\ config \in [Streams -> Configs \cup {NoConfig}]
  /\ pc \in [Streams -> Places]
  /\ crashes \in 0..MaxCrashes

\* The signals of a stream, whatever connects them.
Signals(c) ==
  LET b == Base(c)
  IN CASE c.link = "single" -> {InputIdentifier(c)}
       [] c.link = "uhd" -> HdmiQuadrants
       [] c.link = "tsi8k" -> {"SDIIn", "SDIInDS2"} \X (b + 1 .. b + 2)
       [] OTHER -> {"SDIIn"} \X (b + 1 .. b + 4)

\* A signal behind multiplexers and colour converters, of which there are at
\* most two in a row.
Behind(x) == IF x \in DOMAIN routing THEN routing[x] ELSE x
Origin(d) == Behind(Behind(routing[d]))

\* What the frame buffers of some channels receive.
Received(channels) ==
  {Origin(d) : d \in DOMAIN routing \cap ({"FB", "FBB", "FBDS2"} \X channels)}

SetUp == {s \in Streams : pc[s] \in {"applied", "open", "ready", "running"}}

\* The audio that belongs to the input a source captures.
OwnSound(c) ==
  (c.audio = "embedded" /\ c.source = "SDI") \/ (c.audio = "HDMI" /\ c.source = "HDMI")
    => heard[c.channel] = <<c.audio, InputNumber(c)>>

\* From the end of its setup until it is closed, every signal of a source
\* reaches one of its own frame buffers, whatever other sources, in whatever
\* process, were set up on other channels before, meanwhile and since; and its
\* embedded audio comes from the same input.
OwnInputs ==
  \A s \in SetUp :
    /\ Signals(config[s]) \subseteq Received(InputChannels(config[s]))
    /\ pc[s] = "running" => OwnSound(config[s])

\* The channels some of whose 7 frames are among the 15 of channel n.
AmongFrames(n) ==
  CASE n = 1 -> {1, 2, 3} [] n = 2 -> {3, 4, 5} [] n = 3 -> {5, 6, 7} [] n = 4 -> {7, 8}
    [] OTHER -> {}

Crowds(c, d) == Large(c) /\ ~Large(d) /\ d.channel \in AmongFrames(c.channel)

Running == {s \in Streams : pc[s] = "running"}
SharedFrames(s, t) ==
  circulating[config[s].channel] \cap circulating[config[t].channel]

\* Two sources that run share frames of the card's memory exactly where one is of a
\* large format and the other of a small one on a channel whose frames lie among
\* those of the first.  From a quad link this takes UHD from HDMI on channel 3 or 4,
\* for a quad link from channel 1, 2 or 5 on has these channels to itself; from a
\* single link, 12G on any of the channels 1 to 4.
CardFramesApart ==
  \A s, t \in Running :
    LET c == config[s]
        d == config[t]
    IN  s # t =>
          /\ SharedFrames(s, t) # {} <=> Crowds(c, d) \/ Crowds(d, c)
          /\ Crowds(c, d) /\ Quad(c) => c.link = "uhd" /\ c.channel \in {3, 4}

\* No connector that a source captures from is driven as an output, not even
\* by the passthrough of another source or one left by an earlier source.
InputsNotDriven ==
  \A s \in SetUp : card.bidirectional => transmit \cap InputChannels(config[s]) = {}

\* As long as a source is open, the output that repeats its input, by
\* passthrough or end to end, is connected to this input and driven.
OutputsShown ==
  \A s \in SetUp :
    LET c == config[s]
        shown == Passthrough(c) @@ EndToEnd(c)
    IN /\ \A d \in DOMAIN shown : d \in DOMAIN routing /\ routing[d] = shown[d]
       /\ PassesThrough(c) => PassthroughChannel(c) \in transmit

\* The card's routing goes from setup to setup: what a source writes back is what
\* its setup makes of the routing as it is then, never of one that it read before
\* another source, of another process, changed it.  No connection of a setup is
\* lost by another, wherever processes are killed.
SetupsOneAfterAnother ==
  [][\E s \in Streams :
       /\ pc[s] = "read"
       /\ routing' = Routed(routing, config[s])
       /\ transmit' = Transmitting(transmit, config[s])]_<<routing, transmit>>
=============================================================================
