--------------------------- MODULE FrameRendering ---------------------------
(***************************************************************************)
(* How the single-ray device renders a frame: rtRenderFrame constructs a   *)
(* RenderJob whose task has one element per worker, the workers pick tiles *)
(* from an atomic counter, update the accumulation buffer and the frame    *)
(* buffer, and count the tiles down; the last worker deletes the job.      *)
(* rtSwapBuffers and rtMapFrameBuffer wait for the count of a buffer.      *)
(* Every call of the API holds the mutex of the device.                    *)
(*                                                                         *)
(* A tile is one step of a worker.  A pixel is represented by what it      *)
(* accumulates: the sequence of the sample sets (iterations) of the frames *)
(* since accumulation was last reset.                                      *)
(***************************************************************************)
EXTENDS Integers, Sequences, FiniteSets

CONSTANTS
  Workers,     (* the threads of the scheduler                              *)
  Callers,     (* the threads of the application                            *)
  NumTiles,    (* numTilesX*numTilesY                                       *)
  Depth,       (* number of frame buffers of the swap chain                 *)
  MaxFrames,   (* bound: frames rendered                                    *)
  Nobody,
  Unfinished   (* stands for the content of a buffer with missing tiles     *)

\* What a pixel may have accumulated.
Pictures == UNION {[1..n -> 0 .. MaxFrames-1] : n \in 0 .. MaxFrames}

ASSUME RenderAssumption ==
  /\ Workers # {} /\ IsFiniteSet(Workers)
  /\ Nobody \notin Callers
  /\ NumTiles \in Nat \ {0} /\ Depth \in Nat \ {0} /\ MaxFrames \in Nat
  /\ Unfinished \notin Pictures

Tiles == 0 .. NumTiles-1
Buffers == 0 .. Depth-1

VARIABLES
  mutex,         (* the caller that holds the mutex of the device           *)
  cpc, arg,      (* where a caller is, and the buffer it waits for          *)
  seen,          (* the last picture a caller has mapped                    *)
  buf,           (* SwapChain::buf                                          *)
  remainingTiles, data,  (* of the frame buffers                            *)
  accu,          (* the accumulation buffer, per tile                       *)
  iteration,     (* of the renderer                                         *)
  frames,        (* bound: frames that may still be rendered                *)
  job,           (* a RenderJob exists                                      *)
  tileID, jobBuffer, jobIteration, jobAccumulate,  (* fields of the job     *)
  started, completed,    (* of the job's task, see TaskSchedulerSys         *)
  wpc, tile,     (* where a worker is, and its tile                         *)
  synced         (* the event of the job has been signaled                  *)

callVars == <<mutex, cpc, arg, seen, frames>>
chainVars == <<buf, remainingTiles, data, accu>>
jobVars == <<iteration, job, jobBuffer, jobIteration, jobAccumulate>>
taskVars == <<started, completed, wpc, tile, synced>>
vars == <<callVars, chainVars, jobVars, tileID, taskVars>>

Init ==
  /\ mutex = Nobody
  /\ cpc = [c \in Callers |-> "idle"]
  /\ arg = [c \in Callers |-> 0]
  /\ seen = [c \in Callers |-> <<>>]
  /\ buf = 0
  /\ remainingTiles = [b \in Buffers |-> 0]
  /\ data = [b \in Buffers |-> [t \in Tiles |-> <<>>]]
  /\ accu = [t \in Tiles |-> <<>>]
  /\ iteration = 0 /\ frames = MaxFrames
  /\ job = FALSE /\ tileID = 0
  /\ jobBuffer = 0 /\ jobIteration = 0 /\ jobAccumulate = FALSE
  /\ started = 0 /\ completed = 0
  /\ wpc = [w \in Workers |-> "idle"]
  /\ tile = [w \in Workers |-> 0]
  /\ synced = FALSE

-----------------------------------------------------------------------------
(* The calls of the API.                                                   *)

\* Mutant of Enter: a call does not wait for the mutex of the device.
EnterUnlocked(c) == cpc[c] = "idle" /\ mutex' = c

\* RT_COMMAND_HEADER.
Enter(c) == cpc[c] = "idle" /\ mutex = Nobody /\ mutex' = c

\* The destructor of the lock.
Leave(c) == mutex' = Nobody /\ cpc' = [cpc EXCEPT ![c] = "idle"]

\* Mutant of FirstIteration: a new exposure does not begin with the first sample
\* set.
NeverReset(accumulate) == iteration

\* Sample sets are numbered from the frame that does not accumulate.
FirstIteration(accumulate) == IF accumulate THEN iteration ELSE 0

\* rtRenderFrame: the constructor of RenderJob up to addTask.
RenderFrame(c) ==
  \E accumulate \in BOOLEAN :
    LET i == FirstIteration(accumulate) IN
    /\ frames > 0
    /\ Enter(c)
    /\ frames' = frames - 1
    /\ iteration' = i + 1
    /\ job' = TRUE
    /\ jobBuffer' = buf /\ jobIteration' = i /\ jobAccumulate' = accumulate
    /\ tileID' = 0
    /\ remainingTiles' = [remainingTiles EXCEPT ![buf] = NumTiles]
    /\ started' = Cardinality(Workers) /\ completed' = Cardinality(Workers)
    /\ synced' = FALSE
    /\ cpc' = [cpc EXCEPT ![c] = "sync"]
    /\ UNCHANGED <<arg, seen, buf, data, accu, wpc, tile>>

\* event.sync() returns, the call is over.
RenderReturns(c) ==
  /\ cpc[c] = "sync" /\ synced
  /\ Leave(c)
  /\ UNCHANGED <<arg, seen, frames, chainVars, jobVars, tileID, taskVars>>

\* rtSwapBuffers advances the chain before it waits.
SwapBuffers(c) ==
  LET next == (buf + 1) % Depth IN
  /\ Enter(c)
  /\ buf' = next
  /\ arg' = [arg EXCEPT ![c] = next]
  /\ cpc' = [cpc EXCEPT ![c] = "swap"]
  /\ UNCHANGED <<seen, frames, remainingTiles, data, accu, jobVars, tileID, taskVars>>

\* rtMapFrameBuffer of a given buffer; a negative ID stands for the current one.
MapFrameBuffer(c) ==
  \E b \in Buffers :
    /\ Enter(c)
    /\ arg' = [arg EXCEPT ![c] = b]
    /\ cpc' = [cpc EXCEPT ![c] = "map"]
    /\ UNCHANGED <<seen, frames, chainVars, jobVars, tileID, taskVars>>

\* FrameBuffer::wait() returns.
SwapReturns(c) ==
  /\ cpc[c] = "swap" /\ remainingTiles[arg[c]] = 0
  /\ Leave(c)
  /\ UNCHANGED <<arg, seen, frames, chainVars, jobVars, tileID, taskVars>>

\* What the caller sees is the picture in the first tile; that every tile shows
\* the same picture is NoTornFrame.
MapReturns(c) ==
  /\ cpc[c] = "map" /\ remainingTiles[arg[c]] = 0
  /\ seen' = [seen EXCEPT ![c] = data[arg[c]][0]]
  /\ Leave(c)
  /\ UNCHANGED <<arg, frames, chainVars, jobVars, tileID, taskVars>>

-----------------------------------------------------------------------------
(* renderTile(), run by the workers, and finish().                         *)

Goto(w, l) == wpc' = [wpc EXCEPT ![w] = l]

\* A worker takes an element of the task; a fast one may take several.
StartElement(w) ==
  /\ wpc[w] = "idle" /\ started > 0
  /\ started' = started - 1
  /\ Goto(w, "pick")
  /\ UNCHANGED <<callVars, chainVars, jobVars, tileID, completed, tile, synced>>

\* Mutant of HasTile: the last tile is left out.
HasTileButLast(i) == i < NumTiles - 1

HasTile(i) == i < NumTiles

\* Mutant of AfterPick: the tile is counted as finished before it is rendered.
FinishFirst(l) == [pick |-> "finishTile", finishTile |-> "render", render |-> "pick"][l]

\* The order of the loop.
AfterPick(l) == [pick |-> "render", render |-> "finishTile", finishTile |-> "pick"][l]

\* tileID++ is one atomic instruction.
PickTile(w) ==
  /\ wpc[w] = "pick"
  /\ tile' = [tile EXCEPT ![w] = tileID]
  /\ tileID' = tileID + 1
  /\ Goto(w, IF HasTile(tileID) THEN AfterPick("pick") ELSE "rays")
  /\ UNCHANGED <<callVars, chainVars, jobVars, started, completed, synced>>

\* The samples of all pixels of the tile go to the accumulation buffer and the
\* result to the frame buffer.
RenderTile(w) ==
  LET t == tile[w]
      value == Append(IF jobAccumulate THEN accu[t] ELSE <<>>, jobIteration)
  IN  /\ wpc[w] = "render"
      /\ accu' = [accu EXCEPT ![t] = value]
      /\ data' = [data EXCEPT ![jobBuffer][t] = value]
      /\ Goto(w, AfterPick("render"))
      /\ UNCHANGED <<callVars, buf, remainingTiles, jobVars, tileID, started,
                     completed, tile, synced>>

\* finishTile(): under the mutex of the frame buffer; whoever waits sees zero.
FinishTile(w) ==
  /\ wpc[w] = "finishTile"
  /\ remainingTiles' = [remainingTiles EXCEPT ![jobBuffer] = @ - 1]
  /\ Goto(w, AfterPick("finishTile"))
  /\ UNCHANGED <<callVars, buf, data, accu, jobVars, tileID, started, completed,
                 tile, synced>>

\* Mutant of LastElement: off by one.
LastElementEarly == completed <= 2

LastElement == completed = 1

\* atomicNumRays of the job, then the element is counted as completed.
CountRays(w) ==
  /\ wpc[w] = "rays"
  /\ completed' = completed - 1
  /\ Goto(w, IF LastElement THEN "finish" ELSE "idle")
  /\ UNCHANGED <<callVars, chainVars, jobVars, tileID, started, tile, synced>>

\* finish() deletes the job; then the worker signals the event.
Finish(w) ==
  /\ wpc[w] = "finish"
  /\ job' = FALSE
  /\ synced' = TRUE
  /\ Goto(w, "idle")
  /\ UNCHANGED <<callVars, chainVars, iteration, jobBuffer, jobIteration, jobAccumulate,
                 tileID, started, completed, tile>>

-----------------------------------------------------------------------------
WorkerStep(w) ==
  StartElement(w) \/ PickTile(w) \/ RenderTile(w) \/ FinishTile(w)
    \/ CountRays(w) \/ Finish(w)

Returns(c) == RenderReturns(c) \/ SwapReturns(c) \/ MapReturns(c)

Next ==
  \/ \E c \in Callers : RenderFrame(c) \/ SwapBuffers(c) \/ MapFrameBuffer(c) \/ Returns(c)
  \/ \E w \in Workers : WorkerStep(w)

\* Threads that can run do run; callers need not make calls.
Fairness ==
  (\A w \in Workers : WF_vars(WorkerStep(w))) /\ (\A c \in Callers : WF_vars(Returns(c)))

Spec == Init /\ [][Next]_vars /\ Fairness

-----------------------------------------------------------------------------
TypeOK ==
  /\ mutex \in Callers \cup {Nobody}
  /\ cpc \in [Callers -> {"idle", "sync", "swap", "map"}]
  /\ arg \in [Callers -> Buffers]
  /\ seen \in [Callers -> Pictures]
  /\ buf \in Buffers /\ jobBuffer \in Buffers
  /\ remainingTiles \in [Buffers -> 0 .. NumTiles]
  /\ data \in [Buffers -> [Tiles -> Pictures]]
  /\ accu \in [Tiles -> Pictures]
  /\ iteration \in 0 .. MaxFrames /\ frames \in 0 .. MaxFrames
  /\ job \in BOOLEAN /\ jobIteration \in Nat /\ jobAccumulate \in BOOLEAN
  /\ tileID \in 0 .. NumTiles + Cardinality(Workers)
  /\ started \in 0 .. Cardinality(Workers) /\ completed \in 0 .. Cardinality(Workers)
  /\ wpc \in [Workers -> {"idle", "pick", "render", "finishTile", "rays", "finish"}]
  /\ tile \in [Workers -> Nat]
  /\ synced \in BOOLEAN

\* A buffer whose count of tiles is zero shows one frame: no tile is missing,
\* and none is left over from the frame before.
NoTornFrame ==
  /\ TypeOK
  /\ \A b \in Buffers : remainingTiles[b] = 0 => \A t \in Tiles : data[b][t] = data[b][0]

\* Between two frames every tile has accumulated every frame since the last one
\* that did not accumulate exactly once, each with a sample set of its own.
ExposureExact ==
  ~job => \A t \in Tiles : accu[t] = [k \in 1 .. iteration |-> k - 1]

\* A worker inside renderTile or finish still finds its job, also when it is late
\* and the last tile of the frame has long been counted: finish deletes the job
\* after every element has left renderTile.
JobOutlivesWorkers ==
  \A w \in Workers : wpc[w] # "idle" => job

\* Every call of the API returns.
CallsReturn == \A c \in Callers : cpc[c] # "idle" ~> cpc[c] = "idle"

\* The frame calls do what they promise.  A buffer is unfinished from the begin
\* of the frame until its last tile is counted.
Image(b) ==
  IF remainingTiles[b] # 0 THEN Unfinished ELSE data[b][0]

Exposure == [k \in 1 .. iteration |-> k - 1]

S == INSTANCE FrameService WITH image <- [b \in Buffers |-> Image(b)], exposure <- Exposure
ImplementsFrameService == S!Spec
=============================================================================
