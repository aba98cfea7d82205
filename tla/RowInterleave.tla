---------------------------- MODULE RowInterleave ----------------------------
(***************************************************************************)
(* How a frame comes together from several servers, each of them a single- *)
(* ray device or a COI device with several cards.  A device renders every  *)
(* count-th group of four rows and stores its rows without gaps at the top *)
(* of its frame buffer.  A COI device deals the rows of its cards to the   *)
(* buffer of the host.  A server encodes and sends as many rows as it      *)
(* believes to have, and the client deals what it reads of every packet to *)
(* the lines of its image.  Five pieces of code count the same rows, each  *)
(* in its own way, and two compute the size of a packet.                   *)
(*                                                                         *)
(* The content of a row is the raster line it was rendered for, that of a  *)
(* packet the line, pixel and channel every unit of it stems from: a unit  *)
(* is a float, a byte, or a pixel if pixels are sent whole.                *)
(***************************************************************************)
EXTENDS Integers, FiniteSets

CONSTANTS
  MaxHeight, MaxWidth,  (* bound: the size of the frame                     *)
  MaxServers,           (* bound: the number of servers                     *)
  MaxDevices,           (* bound: the number of cards of a server           *)
  Missing               (* content nobody has written, or of several lines  *)

ASSUME RowAssumption ==
  /\ MaxHeight \in Nat /\ MaxWidth \in Nat \ {0}
  /\ MaxServers \in Nat \ {0} /\ MaxDevices \in Nat \ {0}
  /\ Missing \notin Nat

VARIABLES
  height, width, servers, devices, (* of the frame                          *)
  format, encoding,     (* of the frame buffers, and of the packets         *)
  id, y,                (* the server and the line the client is at         *)
  taken,                (* units the client has read of the packet          *)
  image                 (* the rows of the frame buffer of the client       *)

frameVars == <<height, width, servers, devices, format, encoding>>
rowVars == <<frameVars, id, y, taken, image>>

Lines == 0 .. height-1
Cards == 0 .. devices-1

\* SwapChain::activeLine(), and the tests of the server and the client: whether
\* the group of line l is congruent to number s of count.
ActiveLine(s, count, l) == ((l \div 4) - s) % count = 0

ActiveLines(s, count) == {l \in Lines : ActiveLine(s, count, l)}

\* The row of a frame buffer in which line l is stored.
Raster2buffer(l, count) == 4 * ((l \div 4) \div count) + (l % 4)

\* What row r shows in the frame buffer of device s of count.
Rendered(s, count, r) ==
  LET stored == {l \in ActiveLines(s, count) : Raster2buffer(l, count) = r}
  IN  IF stored = {} THEN Missing ELSE CHOOSE l \in stored : TRUE

\* Mutant of CardID: the number of the card alone.
CardNumber(s, i) == i

\* The number of card i of server s, out of servers * devices.
CardID(s, i) == s * devices + i

\* Mutant of Source: the groups of a card are not packed.
Unpacked(r) == [dev |-> (r \div 4) % devices, row |-> r]

\* The card a row of a host comes from, and its row there.
Source(r) ==
  LET row == r \div 4
  IN  [dev |-> row % devices, row |-> 4 * (row \div devices) + (r % 4)]

\* What row r shows in the mapped frame buffer of server s.
Mapped(s, r) ==
  IF devices = 1 THEN Rendered(s, servers, r)
  ELSE Rendered(CardID(s, Source(r).dev), servers * devices, Source(r).row)

Channels == IF format = "RGBA8" THEN 4 ELSE 3

\* The units of a row in memory: RGB8 rows are padded.
RowUnits ==
  IF format = "RGB8" THEN ((3 * width + 3) \div 4) * 4 ELSE Channels * width

\* Unit k of the memory of the frame buffer of server s.
Memory(s, k) ==
  LET offset == k % RowUnits
  IN  <<Mapped(s, k \div RowUnits), offset \div Channels, offset % Channels>>

\* Unit k of a packet that holds a number of units for every pixel.
Encoded(s, k, units) ==
  LET pixel == k \div units
  IN  <<Mapped(s, pixel \div width), pixel % width, k % units>>

\* Unit k of the packet of server s.  An RGB8 buffer is its own encoding.
Unit(s, k) ==
  IF encoding = "native" \/ format = "RGB8" THEN Memory(s, k)
  ELSE Encoded(s, k, IF encoding = "RGB8" THEN 3 ELSE 1)

\* Mutant of Height1: the rows are taken to be shared evenly.
EvenShare(s) == height \div servers

\* The number of rows a server sends.
Height1(s) == Cardinality(ActiveLines(s, servers))

\* The number of units a server sends.
Bytes(s) ==
  CASE encoding = "native" -> RowUnits * Height1(s)
    [] encoding = "RGB8" -> 3 * width * Height1(s)
    [] encoding = "RGBE8" -> width * Height1(s)

\* The units the client reads for a line, and those of them that make pixels.
LineUnits ==
  CASE encoding = "native" -> RowUnits
    [] encoding = "RGB8" -> 3 * width
    [] encoding = "RGBE8" -> width
PixelUnits ==
  CASE encoding = "native" -> Channels
    [] encoding = "RGB8" -> 3
    [] encoding = "RGBE8" -> 1

\* What the client shows for a line: line l, if all its pixels stem from there.
Shown(s, k, l) ==
  IF \A j \in 0 .. PixelUnits * width - 1 :
       Unit(s, k + j) = <<l, j \div PixelUnits, j % PixelUnits>>
  THEN l ELSE Missing

\* RGBE8 is for floats only, send() throws for the others.
RowInit ==
  /\ height \in 0 .. MaxHeight /\ width \in 1 .. MaxWidth
  /\ servers \in 1 .. MaxServers /\ devices \in 1 .. MaxDevices
  /\ format \in {"RGB_FLOAT32", "RGBA8", "RGB8"}
  /\ encoding \in {"native", "RGB8", "RGBE8"}
  /\ encoding = "RGBE8" => format = "RGB_FLOAT32"
  /\ id = 0 /\ y = 0 /\ taken = 0
  /\ image = [l \in Lines |-> Missing]

\* The loop over the lines: an active line takes the next units of the packet.
ReadRow ==
  /\ id < servers /\ y < height
  /\ y' = y + 1
  /\ IF ActiveLine(id, servers, y)
     THEN /\ taken' = taken + LineUnits
          /\ image' = [image EXCEPT ![y] = Shown(id, taken, y)]
     ELSE UNCHANGED <<taken, image>>
  /\ UNCHANGED <<frameVars, id>>

\* rtSwapBuffers goes on with the next server.
NextServer ==
  /\ id < servers /\ y = height
  /\ id' = id + 1 /\ y' = 0 /\ taken' = 0
  /\ UNCHANGED <<frameVars, image>>

Received == id = servers /\ UNCHANGED rowVars

RowNext == ReadRow \/ NextServer \/ Received
RowSpec == RowInit /\ [][RowNext]_rowVars

-----------------------------------------------------------------------------
RowTypeOK ==
  /\ id \in 0 .. servers
  /\ y \in 0 .. height /\ taken \in Nat
  /\ image \in [Lines -> Lines \cup {Missing}]

\* The client reads exactly the units the server sends: one more and it waits
\* for bytes that never come, one less and the rest is taken for the next packet.
PacketConsumed ==
  /\ RowTypeOK
  /\ id < servers /\ y = height => taken = Bytes(id)

\* The cards of all servers that render line l.
Renderers(l) ==
  {c \in (0 .. servers-1) \X Cards :
     ActiveLine(CardID(c[1], c[2]), servers * devices, l)}

\* Every line of the frame is rendered by exactly one card of the network, and
\* stored in a row of its own within the frame buffer.
LinesAreShared ==
  \A l \in Lines :
    \E c \in (0 .. servers-1) \X Cards :
      /\ Renderers(l) = {c}
      /\ Rendered(CardID(c[1], c[2]), servers * devices,
                  Raster2buffer(l, servers * devices)) = l

\* Where the code is wrong: with several servers of several cards each the rows
\* of a server are not those the client takes them for, and the padding of RGB8
\* rows is sent as pixels.
OneLevel == servers = 1 \/ devices = 1
NoPadding == format = "RGB8" /\ encoding = "RGB8" => width % 4 = 0

\* Every line shows what was rendered for it when all servers have sent their
\* rows, whatever the height and the number of servers or of cards.
FrameRestored ==
  OneLevel /\ NoPadding /\ id = servers => \A l \in Lines : image[l] = l
=============================================================================
