------------------------ MODULE FrameRenderingProofs ------------------------
(***************************************************************************)
(* Frames are whole, exposures exact, and no worker uses a job that is     *)
(* gone, for any number of workers, callers, tiles, buffers and frames.    *)
(***************************************************************************)
EXTENDS FrameRendering, FiniteSetTheorems, SequenceTheorems, TLAPS

\* The picture of n frames accumulated.
Exposed(n) == [k \in 1 .. n |-> k - 1]

(***************************************************************************)
(* The inductive invariant.                                                *)
(***************************************************************************)

\* The mutex of the device: one caller at a time is in a call, and a job exists
\* only while the call that made it waits for it.
CallInv ==
  /\ \A c \in Callers : cpc[c] # "idle" => mutex = c
  /\ job => ~synced /\ mutex \in Callers /\ cpc[mutex] = "sync" /\ jobBuffer = buf
  /\ iteration + frames <= MaxFrames

\* Workers inside the loop over the tiles, and those that still have to count
\* their element; the one that finishes is alone.
Looping == {w \in Workers : wpc[w] \in {"pick", "render", "finishTile"}}
Uncounted == {w \in Workers : wpc[w] \in {"pick", "render", "finishTile", "rays"}}
Finishing == {w \in Workers : wpc[w] = "finish"}

TaskInv ==
  /\ completed = started + Cardinality(Uncounted)
  /\ \A v, w \in Finishing : v = w
  /\ IF job THEN completed = 0 <=> Finishing # {} ELSE completed = 0 /\ Finishing = {}

\* A worker leaves the loop only when there is no tile left, and does not pick
\* another one for that element.
PickInv ==
  /\ tileID <= NumTiles + Cardinality(Workers) - started - Cardinality(Looping)
  /\ job => tileID >= NumTiles \/ started + Cardinality(Looping) = Cardinality(Workers)

\* Every tile is picked once.
InWork == {w \in Workers : wpc[w] \in {"render", "finishTile"}}

TileInv ==
  /\ \A w \in InWork : tile[w] \in Tiles /\ tile[w] < tileID
  /\ \A v, w \in InWork : tile[v] = tile[w] => v = w

\* The count of a frame buffer is the number of its tiles that are not picked or
\* not finished.
Pending == {t \in Tiles : t >= tileID \/ (\E w \in InWork : tile[w] = t)}

CountInv ==
  \A b \in Buffers :
    remainingTiles[b] = IF job /\ b = jobBuffer THEN Cardinality(Pending) ELSE 0

\* A tile that is rendered has accumulated all frames of the exposure; one that is
\* not has accumulated those before, if the frame goes on with the exposure.
Unrendered(t) == t >= tileID \/ (\E w \in Workers : wpc[w] = "render" /\ tile[w] = t)

PixelInv ==
  /\ job =>
       /\ iteration = jobIteration + 1
       /\ ~jobAccumulate => jobIteration = 0
       /\ \A t \in Tiles :
            IF Unrendered(t) THEN jobAccumulate => accu[t] = Exposed(jobIteration)
            ELSE accu[t] = Exposed(iteration) /\ data[jobBuffer][t] = Exposed(iteration)
  /\ ~job => \A t \in Tiles : accu[t] = Exposed(iteration)
  /\ \A b \in Buffers : (job /\ b = jobBuffer) \/ \A t \in Tiles : data[b][t] = data[b][0]

FrameInv == TypeOK /\ CallInv /\ TaskInv /\ PickInv /\ TileInv /\ CountInv /\ PixelInv

(***************************************************************************)
(* Pictures, counts, and the order of the loop.                            *)
(***************************************************************************)
LEMMA ExposedIsPicture ==
  ASSUME NEW n \in 0 .. MaxFrames
  PROVE  Exposed(n) \in Pictures
<1>1. Exposed(n) \in [1 .. n -> 0 .. MaxFrames-1]
  BY RenderAssumption DEF Exposed
<1>. QED
  BY <1>1 DEF Pictures

LEMMA ExposedNext ==
  ASSUME NEW n \in Nat
  PROVE  Append(Exposed(n), n) = Exposed(n + 1)
<1>1. Exposed(n) \in Seq(Nat) /\ Len(Exposed(n)) = n
  BY DEF Exposed
<1>2. /\ Append(Exposed(n), n) \in Seq(Nat)
      /\ Len(Append(Exposed(n), n)) = n + 1
      /\ \A k \in 1 .. n : Append(Exposed(n), n)[k] = Exposed(n)[k]
      /\ Append(Exposed(n), n)[n + 1] = n
  BY <1>1, AppendProperties
<1>3. Exposed(n + 1) \in Seq(Nat) /\ Len(Exposed(n + 1)) = n + 1
  BY DEF Exposed
<1>4. \A k \in 1 .. n + 1 : Append(Exposed(n), n)[k] = Exposed(n + 1)[k]
  BY <1>2 DEF Exposed
<1>. QED
  BY <1>2, <1>3, <1>4, SeqEqual

LEMMA NothingExposed == Exposed(0) = <<>>
  BY DEF Exposed

LEMMA LoopOrder ==
  AfterPick("pick") = "render" /\ AfterPick("render") = "finishTile"
    /\ AfterPick("finishTile") = "pick"
  BY DEF AfterPick

\* Sets of workers are finite.
LEMMA WorkerSets ==
  /\ IsFiniteSet(Workers) /\ Cardinality(Workers) \in Nat \ {0}
  /\ \A Part \in SUBSET Workers :
       IsFiniteSet(Part) /\ Cardinality(Part) \in 0 .. Cardinality(Workers)
<1>1. IsFiniteSet(Workers) /\ Workers # {}
  BY RenderAssumption
<1>2. Cardinality(Workers) \in Nat /\ Cardinality(Workers) # 0
  BY <1>1, FS_CardinalityType, FS_EmptySet
<1>3. ASSUME NEW Part \in SUBSET Workers
      PROVE  IsFiniteSet(Part) /\ Cardinality(Part) \in 0 .. Cardinality(Workers)
  <2>1. IsFiniteSet(Part) /\ Cardinality(Part) <= Cardinality(Workers)
    BY <1>1, FS_Subset
  <2>2. Cardinality(Part) \in Nat
    BY <2>1, FS_CardinalityType
  <2>. QED
    BY <1>2, <2>1, <2>2
<1>. QED
  BY <1>1, <1>2, <1>3

\* So are sets of tiles.
LEMMA TileSets ==
  /\ Cardinality(Tiles) = NumTiles
  /\ \A Part \in SUBSET Tiles : IsFiniteSet(Part) /\ Cardinality(Part) \in 0 .. NumTiles
<1>1. IsFiniteSet(Tiles) /\ Cardinality(Tiles) = NumTiles
  BY RenderAssumption, FS_Interval DEF Tiles
<1>2. ASSUME NEW Part \in SUBSET Tiles
      PROVE  IsFiniteSet(Part) /\ Cardinality(Part) \in 0 .. NumTiles
  <2>1. IsFiniteSet(Part) /\ Cardinality(Part) <= NumTiles
    BY <1>1, FS_Subset
  <2>2. Cardinality(Part) \in Nat
    BY <2>1, FS_CardinalityType
  <2>. QED
    BY <2>1, <2>2, RenderAssumption
<1>. QED
  BY <1>1, <1>2

\* Without a job no worker is busy.
LEMMA BusyMeansJob ==
  ASSUME FrameInv
  PROVE  /\ \A w \in Workers : wpc[w] # "idle" => job
         /\ started > 0 => job
         /\ ~job => started = 0 /\ Uncounted = {} /\ Looping = {} /\ InWork = {}
<1>1. IsFiniteSet(Uncounted) /\ Cardinality(Uncounted) \in Nat
  BY WorkerSets DEF Uncounted
<1>2. completed = started + Cardinality(Uncounted) /\ started \in Nat
  BY WorkerSets DEF FrameInv, TypeOK, TaskInv
<1>3. ASSUME ~job PROVE started = 0 /\ Uncounted = {} /\ Finishing = {}
  <2>1. completed = 0 /\ Finishing = {}
    BY <1>3 DEF FrameInv, TaskInv
  <2>2. started = 0 /\ Cardinality(Uncounted) = 0
    BY <1>1, <1>2, <2>1
  <2>. QED
    BY <1>1, <2>1, <2>2, FS_EmptySet
<1>4. wpc \in [Workers -> {"idle", "pick", "render", "finishTile", "rays", "finish"}]
  BY DEF FrameInv, TypeOK
<1>. QED
  BY <1>2, <1>3, <1>4 DEF Uncounted, Finishing, Looping, InWork

LEMMA InitIsInvariant == Init => FrameInv
<1>. SUFFICES ASSUME Init PROVE FrameInv
  OBVIOUS
<1>1. Looping = {} /\ Uncounted = {} /\ Finishing = {} /\ InWork = {}
  BY DEF Init, Looping, Uncounted, Finishing, InWork
<1>2. Cardinality({}) = 0
  BY FS_EmptySet
<1>3. <<>> \in Pictures
  BY RenderAssumption, NothingExposed, ExposedIsPicture
<1>4. TypeOK
  <2>1. /\ 0 \in Buffers /\ MaxFrames \in Nat /\ NumTiles \in Nat
        /\ Cardinality(Workers) \in Nat
    BY WorkerSets, RenderAssumption DEF Buffers
  <2>2. [t \in Tiles |-> <<>>] \in [Tiles -> Pictures]
    BY <1>3
  <2>3. /\ data \in [Buffers -> [Tiles -> Pictures]] /\ accu \in [Tiles -> Pictures]
        /\ seen \in [Callers -> Pictures]
    BY <1>3, <2>2 DEF Init
  <2>4. job \in BOOLEAN /\ jobAccumulate \in BOOLEAN /\ synced \in BOOLEAN
    BY DEF Init
  <2>5. /\ cpc \in [Callers -> {"idle", "sync", "swap", "map"}]
        /\ wpc \in [Workers -> {"idle", "pick", "render", "finishTile", "rays", "finish"}]
        /\ mutex \in Callers \cup {Nobody} /\ arg \in [Callers -> Buffers]
        /\ tile \in [Workers -> Nat]
    BY <2>1 DEF Init
  <2>6. /\ buf \in Buffers /\ jobBuffer \in Buffers
        /\ remainingTiles \in [Buffers -> 0 .. NumTiles]
        /\ iteration \in 0 .. MaxFrames /\ frames \in 0 .. MaxFrames /\ jobIteration \in Nat
        /\ tileID \in 0 .. NumTiles + Cardinality(Workers)
        /\ started \in 0 .. Cardinality(Workers) /\ completed \in 0 .. Cardinality(Workers)
    BY <2>1 DEF Init
  <2>. QED
    BY <2>3, <2>4, <2>5, <2>6 DEF TypeOK
<1>5. CallInv
  BY RenderAssumption DEF Init, CallInv
<1>6. TaskInv
  BY <1>1, <1>2 DEF Init, TaskInv
<1>7. PickInv
  BY <1>1, <1>2, WorkerSets, RenderAssumption DEF Init, PickInv
<1>8. TileInv
  BY <1>1 DEF TileInv
<1>9. CountInv
  BY DEF Init, CountInv
<1>10. PixelInv
  BY NothingExposed, RenderAssumption DEF Init, PixelInv, Tiles
<1>. QED
  BY <1>4, <1>5, <1>6, <1>7, <1>8, <1>9, <1>10 DEF FrameInv

(***************************************************************************)
(* The calls preserve it.                                                  *)
(***************************************************************************)

\* A step that changes nothing but who is in a call, when there is no job.
LEMMA CallKeepsInvariant ==
  ASSUME FrameInv, ~job, TypeOK',
         \A c \in Callers : cpc'[c] # "idle" => mutex' = c,
         UNCHANGED <<frames, remainingTiles, data, accu, jobVars, tileID, taskVars>>
  PROVE  FrameInv'
<1>1. CallInv'
  BY DEF FrameInv, CallInv, jobVars
<1>2. TaskInv'
  BY DEF FrameInv, TaskInv, Uncounted, Finishing, jobVars, taskVars
<1>3. PickInv'
  BY DEF FrameInv, PickInv, Looping, jobVars, taskVars
<1>4. TileInv'
  BY DEF FrameInv, TileInv, InWork, taskVars
<1>5. CountInv'
  BY DEF FrameInv, CountInv, jobVars
<1>6. PixelInv'
  BY DEF FrameInv, PixelInv, Unrendered, jobVars, taskVars
<1>. QED
  BY <1>1, <1>2, <1>3, <1>4, <1>5, <1>6 DEF FrameInv

LEMMA EnterKeepsInvariant ==
  ASSUME FrameInv, NEW c \in Callers, SwapBuffers(c) \/ MapFrameBuffer(c)
  PROVE  FrameInv'
<1>1. mutex = Nobody /\ mutex' = c /\ \A d \in Callers : cpc[d] = "idle"
  BY RenderAssumption DEF SwapBuffers, MapFrameBuffer, Enter, FrameInv, CallInv
<1>2. ~job
  BY <1>1, RenderAssumption DEF FrameInv, CallInv
<1>3. \A d \in Callers : cpc'[d] # "idle" => mutex' = d
  BY <1>1 DEF SwapBuffers, MapFrameBuffer, FrameInv, TypeOK
<1>4. TypeOK'
  <2>1. CASE SwapBuffers(c)
    <3>1. (buf + 1) % Depth \in Buffers
      BY RenderAssumption DEF FrameInv, TypeOK, Buffers
    <3>. QED
      BY <2>1, <3>1 DEF SwapBuffers, Enter, FrameInv, TypeOK, jobVars, taskVars
  <2>2. CASE MapFrameBuffer(c)
    BY <2>2 DEF MapFrameBuffer, Enter, FrameInv, TypeOK, chainVars, jobVars, taskVars
  <2>. QED
    BY <2>1, <2>2
<1>. QED
  BY <1>2, <1>3, <1>4, CallKeepsInvariant DEF SwapBuffers, MapFrameBuffer, chainVars

LEMMA ReturnsKeepInvariant ==
  ASSUME FrameInv, NEW c \in Callers, Returns(c)
  PROVE  FrameInv'
<1>1. mutex = c /\ mutex' = Nobody /\ cpc' = [cpc EXCEPT ![c] = "idle"]
  BY DEF Returns, RenderReturns, SwapReturns, MapReturns, Leave, FrameInv, CallInv
<1>2. ~job
  BY <1>1 DEF Returns, RenderReturns, SwapReturns, MapReturns, FrameInv, CallInv
<1>3. \A d \in Callers : cpc'[d] = "idle"
  BY <1>1 DEF FrameInv, CallInv, TypeOK
<1>4. TypeOK'
  <2>1. CASE MapReturns(c)
    <3>1. data[arg[c]][0] \in Pictures
      BY RenderAssumption DEF FrameInv, TypeOK, Tiles
    <3>. QED
      BY <1>1, <2>1, <3>1 DEF MapReturns, FrameInv, TypeOK, chainVars, jobVars, taskVars
  <2>2. CASE RenderReturns(c) \/ SwapReturns(c)
    BY <1>1, <2>2 DEF RenderReturns, SwapReturns, FrameInv, TypeOK, chainVars, jobVars, taskVars
  <2>. QED
    BY <2>1, <2>2 DEF Returns
<1>5. UNCHANGED <<frames, chainVars, jobVars, tileID, taskVars>>
  BY DEF Returns, RenderReturns, SwapReturns, MapReturns
<1>. QED
  BY <1>2, <1>3, <1>4, <1>5, CallKeepsInvariant DEF chainVars

\* rtRenderFrame finds no worker busy, and all tiles of its frame are pending.
LEMMA RenderFrameKeepsInvariant ==
  ASSUME FrameInv, NEW c \in Callers, RenderFrame(c)
  PROVE  FrameInv'
<1>1. PICK accumulate \in BOOLEAN :
        LET n == FirstIteration(accumulate) IN
        /\ frames > 0
        /\ Enter(c)
        /\ frames' = frames - 1
        /\ iteration' = n + 1
        /\ job' = TRUE
        /\ jobBuffer' = buf /\ jobIteration' = n /\ jobAccumulate' = accumulate
        /\ tileID' = 0
        /\ remainingTiles' = [remainingTiles EXCEPT ![buf] = NumTiles]
        /\ started' = Cardinality(Workers) /\ completed' = Cardinality(Workers)
        /\ synced' = FALSE
        /\ cpc' = [cpc EXCEPT ![c] = "sync"]
        /\ UNCHANGED <<arg, seen, buf, data, accu, wpc, tile>>
  BY DEF RenderFrame
<1>2. mutex = Nobody /\ mutex' = c /\ \A d \in Callers : cpc[d] = "idle"
  BY <1>1, RenderAssumption DEF Enter, FrameInv, CallInv
<1>3. ~job
  BY <1>2, RenderAssumption DEF FrameInv, CallInv
<1>4. Uncounted = {} /\ Looping = {} /\ InWork = {} /\ Finishing = {}
  BY <1>3, BusyMeansJob DEF FrameInv, TaskInv
<1>5. Uncounted' = {} /\ Looping' = {} /\ InWork' = {} /\ Finishing' = {}
  BY <1>1, <1>4 DEF Uncounted, Looping, InWork, Finishing
<1>6. Cardinality({}) = 0 /\ Cardinality(Workers) \in Nat \ {0}
  BY FS_EmptySet, WorkerSets
<1>7. FirstIteration(accumulate) \in Nat /\ FirstIteration(accumulate) <= iteration
  BY DEF FirstIteration, FrameInv, TypeOK
<1>8. TypeOK'
  <2>1. frames - 1 \in 0 .. MaxFrames /\ FirstIteration(accumulate) + 1 \in 0 .. MaxFrames
    BY <1>1, <1>7, RenderAssumption DEF FrameInv, TypeOK, CallInv
  <2>2. NumTiles \in 0 .. NumTiles /\ 0 \in 0 .. NumTiles + Cardinality(Workers)
    BY <1>6, RenderAssumption
  <2>. QED
    <3>1. job' \in BOOLEAN /\ jobAccumulate' \in BOOLEAN /\ synced' \in BOOLEAN
      BY <1>1
    <3>2. /\ cpc' \in [Callers -> {"idle", "sync", "swap", "map"}]
          /\ mutex' \in Callers \cup {Nobody}
          /\ remainingTiles' \in [Buffers -> 0 .. NumTiles]
      BY <1>1, <1>2, <2>2 DEF FrameInv, TypeOK
    <3>3. UNCHANGED <<arg, seen, buf, data, accu, wpc, tile>>
      BY <1>1
    <3>4. /\ jobBuffer' \in Buffers /\ jobIteration' \in Nat
          /\ iteration' \in 0 .. MaxFrames /\ frames' \in 0 .. MaxFrames
          /\ tileID' \in 0 .. NumTiles + Cardinality(Workers)
          /\ started' \in 0 .. Cardinality(Workers)
          /\ completed' \in 0 .. Cardinality(Workers)
      BY <1>1, <1>6, <1>7, <2>1, <2>2 DEF FrameInv, TypeOK
    <3>. QED
      BY <3>1, <3>2, <3>3, <3>4 DEF FrameInv, TypeOK
<1>9. CallInv'
  BY <1>1, <1>2, <1>7, RenderAssumption DEF FrameInv, TypeOK, CallInv
<1>10. TaskInv'
  BY <1>1, <1>5, <1>6 DEF TaskInv
<1>11. PickInv'
  BY <1>1, <1>5, <1>6, RenderAssumption DEF PickInv
<1>12. TileInv'
  BY <1>5 DEF TileInv
<1>13. CountInv'
  <2>1. Pending' = Tiles
    BY <1>1, RenderAssumption DEF Pending, Tiles
  <2>. QED
    BY <1>1, <1>3, <2>1, TileSets DEF FrameInv, TypeOK, CountInv
<1>14. PixelInv'
  <2>1. \A t \in Tiles : Unrendered(t)'
    BY <1>1 DEF Unrendered, Tiles
  <2>2. \A t \in Tiles : accumulate => accu'[t] = Exposed(jobIteration')
    BY <1>1, <1>3 DEF FrameInv, PixelInv, FirstIteration
  <2>3. \A b \in Buffers : \A t \in Tiles : data'[b][t] = data'[b][0]
    BY <1>1, <1>3 DEF FrameInv, PixelInv
  <2>. QED
    BY <1>1, <2>1, <2>2, <2>3 DEF PixelInv, FirstIteration
<1>. QED
  BY <1>8, <1>9, <1>10, <1>11, <1>12, <1>13, <1>14 DEF FrameInv

(***************************************************************************)
(* The workers preserve it.                                                *)
(***************************************************************************)

\* A worker goes from one set to another, the other workers stay where they are.
LEMMA AddedWorker ==
  ASSUME NEW Part \in SUBSET Workers, NEW w \in Workers \ Part
  PROVE  Cardinality(Part \cup {w}) = Cardinality(Part) + 1
  BY WorkerSets, FS_AddElement

LEMMA RemovedWorker ==
  ASSUME NEW Part \in SUBSET Workers, NEW w \in Part
  PROVE  Cardinality(Part \ {w}) = Cardinality(Part) - 1
  BY WorkerSets, FS_RemoveElement

LEMMA StartElementKeepsInvariant ==
  ASSUME FrameInv, NEW w \in Workers, StartElement(w)
  PROVE  FrameInv'
<1>1. /\ wpc[w] = "idle" /\ started > 0 /\ started' = started - 1
      /\ wpc' = [wpc EXCEPT ![w] = "pick"]
      /\ UNCHANGED <<callVars, chainVars, jobVars, tileID, completed, tile, synced>>
  BY DEF StartElement, Goto
<1>2. job /\ started \in Nat /\ completed \in Nat /\ tileID \in Nat
  BY <1>1, BusyMeansJob, WorkerSets, RenderAssumption DEF FrameInv, TypeOK
<1>3. /\ Uncounted' = Uncounted \cup {w} /\ w \notin Uncounted
      /\ Looping' = Looping \cup {w} /\ w \notin Looping
      /\ Finishing' = Finishing /\ InWork' = InWork
  BY <1>1 DEF Uncounted, Looping, Finishing, InWork, FrameInv, TypeOK
<1>4. /\ Cardinality(Uncounted') = Cardinality(Uncounted) + 1
      /\ Cardinality(Looping') = Cardinality(Looping) + 1
      /\ Cardinality(Uncounted) \in Nat /\ Cardinality(Looping) \in Nat
      /\ Cardinality(Workers) \in Nat
  <2>1. Uncounted \in SUBSET Workers /\ Looping \in SUBSET Workers
    BY DEF Uncounted, Looping
  <2>. QED
    BY <1>3, <2>1, AddedWorker, WorkerSets
<1>5. TypeOK'
  BY <1>1, <1>4 DEF FrameInv, TypeOK, callVars, chainVars, jobVars
<1>6. CallInv'
  BY <1>1 DEF FrameInv, CallInv, callVars, chainVars, jobVars
<1>7. TaskInv'
  BY <1>1, <1>2, <1>3, <1>4 DEF FrameInv, TaskInv, jobVars
<1>8. PickInv'
  BY <1>1, <1>2, <1>4, RenderAssumption DEF FrameInv, PickInv, jobVars
<1>9. TileInv'
  BY <1>1, <1>3 DEF FrameInv, TileInv
<1>10. CountInv'
  BY <1>1, <1>3 DEF FrameInv, CountInv, Pending, chainVars, jobVars
<1>11. PixelInv'
  <2>1. \A t \in Tiles : Unrendered(t)' <=> Unrendered(t)
    BY <1>1 DEF Unrendered, FrameInv, TypeOK
  <2>. QED
    BY <1>1, <2>1 DEF FrameInv, PixelInv, chainVars, jobVars
<1>. QED
  BY <1>5, <1>6, <1>7, <1>8, <1>9, <1>10, <1>11 DEF FrameInv

LEMMA PickTileKeepsInvariant ==
  ASSUME FrameInv, NEW w \in Workers, PickTile(w)
  PROVE  FrameInv'
<1>1. /\ wpc[w] = "pick"
      /\ tile' = [tile EXCEPT ![w] = tileID] /\ tileID' = tileID + 1
      /\ wpc' = [wpc EXCEPT ![w] = IF tileID < NumTiles THEN "render" ELSE "rays"]
      /\ UNCHANGED <<callVars, chainVars, jobVars, started, completed, synced>>
  BY LoopOrder DEF PickTile, Goto, HasTile
<1>2. job /\ started \in Nat /\ completed \in Nat /\ tileID \in Nat /\ NumTiles \in Nat
  BY <1>1, BusyMeansJob, WorkerSets, RenderAssumption DEF FrameInv, TypeOK
<1>3. Uncounted' = Uncounted /\ Finishing' = Finishing
  BY <1>1 DEF Uncounted, Finishing, FrameInv, TypeOK
<1>4. /\ Cardinality(Looping) \in Nat /\ Cardinality(Workers) \in Nat /\ w \in Looping
      /\ Looping \in SUBSET Workers
  BY <1>1, WorkerSets DEF Looping
<1>5. CallInv' /\ TaskInv'
  BY <1>1, <1>3 DEF FrameInv, CallInv, TaskInv, callVars, chainVars, jobVars
<1>6. CASE tileID < NumTiles
  <2>1. wpc' = [wpc EXCEPT ![w] = "render"]
    BY <1>1, <1>6
  <2>2. Looping' = Looping /\ InWork' = InWork \cup {w} /\ w \notin InWork
    BY <1>1, <2>1 DEF Looping, InWork, FrameInv, TypeOK
  <2>3. TypeOK'
    BY <1>1, <1>2, <1>4, <1>6, <2>1 DEF FrameInv, TypeOK, callVars, chainVars, jobVars
  <2>4. PickInv'
    <3>1. started + Cardinality(Looping) = Cardinality(Workers)
      BY <1>2, <1>6 DEF FrameInv, PickInv
    <3>. QED
      BY <1>1, <1>2, <1>4, <1>6, <2>2, <3>1 DEF PickInv, jobVars
  <2>5. /\ \A v \in InWork : tile[v] \in Tiles /\ tile[v] < tileID /\ tile'[v] = tile[v]
        /\ tileID \in Tiles /\ tile'[w] = tileID
    BY <1>1, <1>2, <1>6, <2>2 DEF FrameInv, TypeOK, TileInv, Tiles, InWork
  <2>6. TileInv'
    <3>1. \A v \in InWork \cup {w} : tile'[v] \in Tiles /\ tile'[v] < tileID + 1
      BY <1>2, <2>5 DEF Tiles
    <3>2. \A u, v \in InWork : tile[u] = tile[v] => u = v
      BY DEF FrameInv, TileInv
    <3>3. \A v \in InWork : tile'[v] # tile'[w]
      BY <1>2, <2>5 DEF Tiles
    <3>4. \A u, v \in InWork \cup {w} : tile'[u] = tile'[v] => u = v
      BY <2>5, <3>2, <3>3
    <3>. QED
      BY <1>1, <2>2, <3>1, <3>4 DEF TileInv
  <2>7. CountInv'
    <3>1. ASSUME NEW t \in Tiles
          PROVE  (t >= tileID + 1 \/ \E v \in InWork \cup {w} : tile'[v] = t)
                   <=> (t >= tileID \/ \E v \in InWork : tile[v] = t)
      BY <1>2, <2>5 DEF Tiles
    <3>2. Pending' = Pending
      BY <1>1, <2>2, <3>1 DEF Pending
    <3>. QED
      BY <1>1, <3>2 DEF FrameInv, CountInv, chainVars, jobVars
  <2>8. PixelInv'
    <3>1. ASSUME NEW t \in Tiles PROVE Unrendered(t)' <=> Unrendered(t)
      <4>1. \A v \in Workers : v # w => wpc'[v] = wpc[v] /\ tile'[v] = tile[v]
        BY <1>1 DEF FrameInv, TypeOK
      <4>2. wpc'[w] = "render" /\ tile'[w] = tileID /\ wpc[w] # "render"
        BY <1>1, <2>1 DEF FrameInv, TypeOK
      <4>3. t >= tileID <=> t >= tileID + 1 \/ t = tileID
        BY <1>2 DEF Tiles
      <4>. QED
        BY <1>1, <4>1, <4>2, <4>3 DEF Unrendered
    <3>. QED
      BY <1>1, <3>1 DEF FrameInv, PixelInv, chainVars, jobVars
  <2>. QED
    BY <1>5, <2>3, <2>4, <2>6, <2>7, <2>8 DEF FrameInv
<1>7. CASE tileID >= NumTiles
  <2>1. wpc' = [wpc EXCEPT ![w] = "rays"]
    <3>1. ~(tileID < NumTiles)
      BY <1>2, <1>7
    <3>. QED
      BY <1>1, <3>1
  <2>2. Looping' = Looping \ {w} /\ InWork' = InWork /\ w \notin InWork
    BY <1>1, <2>1 DEF Looping, InWork, FrameInv, TypeOK
  <2>3. Cardinality(Looping') = Cardinality(Looping) - 1 /\ Cardinality(Looping') \in Nat
    <3>1. Looping' \in SUBSET Workers
      BY <1>4, <2>2
    <3>. QED
      BY <1>4, <2>2, <3>1, RemovedWorker, WorkerSets
  <2>4. PickInv'
    BY <1>1, <1>2, <1>4, <1>7, <2>3 DEF FrameInv, PickInv, jobVars
  <2>5. TypeOK'
    <3>1. tileID + 1 \in 0 .. NumTiles + Cardinality(Workers)
      BY <1>1, <1>2, <1>4, <2>3, <2>4 DEF PickInv
    <3>. QED
      BY <1>1, <1>2, <2>1, <3>1 DEF FrameInv, TypeOK, callVars, chainVars, jobVars
  <2>6. \A v \in InWork : tile'[v] = tile[v]
    BY <1>1, <2>2 DEF FrameInv, TypeOK, InWork
  <2>7. TileInv'
    BY <1>1, <1>2, <2>2, <2>6 DEF FrameInv, TileInv, Tiles
  <2>8. CountInv'
    <3>1. \A t \in Tiles : ~(t >= tileID) /\ ~(t >= tileID + 1)
      BY <1>2, <1>7 DEF Tiles
    <3>2. Pending' = Pending
      BY <1>1, <2>2, <2>6, <3>1 DEF Pending
    <3>. QED
      BY <1>1, <3>2 DEF FrameInv, CountInv, chainVars, jobVars
  <2>9. PixelInv'
    <3>1. ASSUME NEW t \in Tiles PROVE Unrendered(t)' <=> Unrendered(t)
      <4>1. \A v \in Workers : v # w => wpc'[v] = wpc[v] /\ tile'[v] = tile[v]
        BY <1>1 DEF FrameInv, TypeOK
      <4>2. wpc'[w] # "render" /\ wpc[w] # "render"
        BY <1>1, <2>1 DEF FrameInv, TypeOK
      <4>3. ~(t >= tileID) /\ ~(t >= tileID + 1)
        BY <1>2, <1>7 DEF Tiles
      <4>. QED
        BY <1>1, <4>1, <4>2, <4>3 DEF Unrendered
    <3>. QED
      BY <1>1, <3>1 DEF FrameInv, PixelInv, chainVars, jobVars
  <2>. QED
    BY <1>5, <2>4, <2>5, <2>7, <2>8, <2>9 DEF FrameInv
<1>. QED
  BY <1>2, <1>6, <1>7

LEMMA RenderTileKeepsInvariant ==
  ASSUME FrameInv, NEW w \in Workers, RenderTile(w)
  PROVE  FrameInv'
<1>0. PICK own \in Tiles : own = tile[w]
  BY DEF RenderTile, FrameInv, TileInv, InWork
<1>. DEFINE value == Append(IF jobAccumulate THEN accu[own] ELSE <<>>, jobIteration)
<1>1. /\ wpc[w] = "render"
      /\ accu' = [accu EXCEPT ![own] = value]
      /\ data' = [data EXCEPT ![jobBuffer][own] = value]
      /\ wpc' = [wpc EXCEPT ![w] = "finishTile"]
      /\ UNCHANGED <<callVars, buf, remainingTiles, jobVars, tileID, started,
                     completed, tile, synced>>
  BY <1>0, LoopOrder DEF RenderTile, Goto
<1>2. job /\ iteration = jobIteration + 1 /\ jobIteration \in Nat /\ iteration \in 0 .. MaxFrames
  BY <1>1, BusyMeansJob DEF FrameInv, TypeOK, PixelInv
<1>3. own \in Tiles /\ w \in InWork /\ \A v \in InWork : tile[v] = own => v = w
  BY <1>0, <1>1 DEF FrameInv, TileInv, InWork
<1>4. value = Exposed(iteration)
  <2>1. Unrendered(own)
    BY <1>0, <1>1 DEF Unrendered
  <2>2. (IF jobAccumulate THEN accu[own] ELSE <<>>) = Exposed(jobIteration)
    <3>1. CASE jobAccumulate
      BY <1>2, <1>3, <2>1, <3>1 DEF FrameInv, PixelInv
    <3>2. CASE ~jobAccumulate
      <4>1. jobIteration = 0
        BY <1>2, <3>2 DEF FrameInv, PixelInv
      <4>. QED
        BY <3>2, <4>1, NothingExposed
    <3>. QED
      BY <3>1, <3>2
  <2>. QED
    BY <1>2, <2>2, ExposedNext
<1>5. value \in Pictures
  BY <1>2, <1>4, ExposedIsPicture
<1>. HIDE DEF value
<1>6. /\ Uncounted' = Uncounted /\ Looping' = Looping
      /\ Finishing' = Finishing /\ InWork' = InWork
  BY <1>1 DEF Uncounted, Looping, Finishing, InWork, FrameInv, TypeOK
<1>7. jobBuffer \in Buffers
  BY DEF FrameInv, TypeOK
<1>8. TypeOK'
  <2>1. accu' \in [Tiles -> Pictures] /\ data' \in [Buffers -> [Tiles -> Pictures]]
    BY <1>1, <1>3, <1>5, <1>7 DEF FrameInv, TypeOK
  <2>. QED
    BY <1>1, <2>1 DEF FrameInv, TypeOK, callVars, jobVars
<1>9. CallInv' /\ TaskInv' /\ PickInv'
  BY <1>1, <1>6 DEF FrameInv, CallInv, TaskInv, PickInv, callVars, jobVars
<1>10. TileInv'
  BY <1>1, <1>6 DEF FrameInv, TileInv
<1>11. CountInv'
  BY <1>1, <1>6 DEF FrameInv, CountInv, Pending, jobVars
<1>12. PixelInv'
  <2>1. ASSUME NEW t \in Tiles, t # own
        PROVE  /\ Unrendered(t)' <=> Unrendered(t)
               /\ accu'[t] = accu[t] /\ data'[jobBuffer][t] = data[jobBuffer][t]
    <3>1. \A v \in Workers : v # w => wpc'[v] = wpc[v]
      BY <1>1 DEF FrameInv, TypeOK
    <3>2. Unrendered(t)' <=> Unrendered(t)
      BY <1>0, <1>1, <2>1, <3>1 DEF Unrendered
    <3>. QED
      BY <1>1, <1>7, <2>1, <3>2 DEF FrameInv, TypeOK
  <2>2. ~Unrendered(own)'
    <3>1. ~(own >= tileID)
      BY <1>0, <1>3, RenderAssumption DEF FrameInv, TypeOK, TileInv, Tiles
    <3>2. \A v \in Workers : wpc'[v] = "render" => v \in InWork /\ v # w
      BY <1>1 DEF InWork, FrameInv, TypeOK
    <3>. QED
      BY <1>1, <1>3, <3>1, <3>2 DEF Unrendered
  <2>3. accu'[own] = Exposed(iteration) /\ data'[jobBuffer][own] = Exposed(iteration)
    BY <1>1, <1>3, <1>4, <1>7 DEF FrameInv, TypeOK
  <2>4. \A b \in Buffers : b # jobBuffer => data'[b] = data[b]
    BY <1>1 DEF FrameInv, TypeOK
  <2>5. \A t \in Tiles :
          IF Unrendered(t)' THEN jobAccumulate => accu'[t] = Exposed(jobIteration)
          ELSE accu'[t] = Exposed(iteration) /\ data'[jobBuffer][t] = Exposed(iteration)
    <3>1. \A t \in Tiles :
            IF Unrendered(t) THEN jobAccumulate => accu[t] = Exposed(jobIteration)
            ELSE accu[t] = Exposed(iteration) /\ data[jobBuffer][t] = Exposed(iteration)
      BY <1>2 DEF FrameInv, PixelInv
    <3>2. ASSUME NEW t \in Tiles, t # own
          PROVE  IF Unrendered(t)' THEN jobAccumulate => accu'[t] = Exposed(jobIteration)
                 ELSE accu'[t] = Exposed(iteration) /\ data'[jobBuffer][t] = Exposed(iteration)
      BY <2>1, <3>1, <3>2
    <3>. QED
      BY <2>2, <2>3, <3>2
  <2>6. UNCHANGED jobVars
    BY <1>1
  <2>. QED
    BY <1>2, <2>4, <2>5, <2>6 DEF FrameInv, PixelInv, jobVars
<1>. QED
  BY <1>8, <1>9, <1>10, <1>11, <1>12 DEF FrameInv

LEMMA FinishTileKeepsInvariant ==
  ASSUME FrameInv, NEW w \in Workers, FinishTile(w)
  PROVE  FrameInv'
<1>1. /\ wpc[w] = "finishTile"
      /\ remainingTiles' = [remainingTiles EXCEPT ![jobBuffer] = @ - 1]
      /\ wpc' = [wpc EXCEPT ![w] = "pick"]
      /\ UNCHANGED <<callVars, buf, data, accu, jobVars, tileID, started, completed,
                     tile, synced>>
  BY LoopOrder DEF FinishTile, Goto
<1>2. job /\ jobBuffer \in Buffers
  BY <1>1, BusyMeansJob DEF FrameInv, TypeOK
<1>3. /\ w \in InWork /\ tile[w] \in Tiles /\ ~(tile[w] >= tileID)
      /\ \A v \in InWork : tile[v] = tile[w] => v = w
  <2>1. w \in InWork
    BY <1>1 DEF InWork
  <2>. QED
    BY <2>1, RenderAssumption DEF FrameInv, TypeOK, TileInv, Tiles
<1>4. /\ Uncounted' = Uncounted /\ Looping' = Looping
      /\ Finishing' = Finishing /\ InWork' = InWork \ {w}
  BY <1>1 DEF Uncounted, Looping, Finishing, InWork, FrameInv, TypeOK
<1>5. Pending' = Pending \ {tile[w]} /\ tile[w] \in Pending
  BY <1>1, <1>3, <1>4 DEF Pending
<1>6. Cardinality(Pending') = Cardinality(Pending) - 1 /\ Cardinality(Pending') \in 0 .. NumTiles
  <2>1. Pending \in SUBSET Tiles /\ Pending' \in SUBSET Tiles
    BY <1>5 DEF Pending
  <2>2. /\ IsFiniteSet(Pending) /\ Cardinality(Pending) \in 0 .. NumTiles
        /\ Cardinality(Pending') \in 0 .. NumTiles
    BY <2>1, TileSets
  <2>3. Cardinality(Pending \ {tile[w]}) = Cardinality(Pending) - 1
    BY <1>5, <2>2, FS_RemoveElement
  <2>. QED
    BY <1>5, <2>2, <2>3
<1>7. CountInv'
  <2>1. remainingTiles[jobBuffer] = Cardinality(Pending)
    BY <1>2 DEF FrameInv, CountInv
  <2>2. remainingTiles'[jobBuffer] = Cardinality(Pending')
    BY <1>1, <1>2, <1>6, <2>1 DEF FrameInv, TypeOK
  <2>3. \A b \in Buffers : b # jobBuffer => remainingTiles'[b] = remainingTiles[b]
    BY <1>1 DEF FrameInv, TypeOK
  <2>4. UNCHANGED jobVars
    BY <1>1
  <2>. QED
    BY <1>2, <2>2, <2>3, <2>4 DEF FrameInv, CountInv, jobVars
<1>8. TypeOK'
  <2>1. remainingTiles' \in [Buffers -> 0 .. NumTiles]
    <3>1. remainingTiles[jobBuffer] - 1 \in 0 .. NumTiles
      BY <1>2, <1>6 DEF FrameInv, CountInv
    <3>. QED
      BY <1>1, <1>2, <3>1 DEF FrameInv, TypeOK
  <2>. QED
    BY <1>1, <2>1 DEF FrameInv, TypeOK, callVars, jobVars
<1>9. CallInv' /\ TaskInv' /\ PickInv'
  BY <1>1, <1>4 DEF FrameInv, CallInv, TaskInv, PickInv, callVars, jobVars
<1>10. TileInv'
  BY <1>1, <1>4 DEF FrameInv, TileInv
<1>11. PixelInv'
  <2>1. \A t \in Tiles : Unrendered(t)' <=> Unrendered(t)
    BY <1>1 DEF Unrendered, FrameInv, TypeOK
  <2>. QED
    BY <1>1, <2>1 DEF FrameInv, PixelInv, jobVars
<1>. QED
  BY <1>7, <1>8, <1>9, <1>10, <1>11 DEF FrameInv

\* The last worker to count its element finishes the job.
LEMMA CountRaysKeepsInvariant ==
  ASSUME FrameInv, NEW w \in Workers, CountRays(w)
  PROVE  FrameInv'
<1>1. /\ wpc[w] = "rays" /\ completed' = completed - 1
      /\ wpc' = [wpc EXCEPT ![w] = IF completed = 1 THEN "finish" ELSE "idle"]
      /\ UNCHANGED <<callVars, chainVars, jobVars, tileID, started, tile, synced>>
  BY DEF CountRays, Goto, LastElement
<1>2. job /\ started \in Nat /\ completed \in Nat /\ Cardinality(Workers) \in Nat
  BY <1>1, BusyMeansJob, WorkerSets DEF FrameInv, TypeOK
<1>3. /\ Uncounted' = Uncounted \ {w} /\ w \in Uncounted
      /\ Looping' = Looping /\ InWork' = InWork
  BY <1>1 DEF Uncounted, Looping, InWork, FrameInv, TypeOK
<1>4. /\ Cardinality(Uncounted') = Cardinality(Uncounted) - 1
      /\ Cardinality(Uncounted) \in Nat /\ Cardinality(Uncounted') \in Nat
  <2>1. Uncounted \in SUBSET Workers /\ Uncounted' \in SUBSET Workers
    BY <1>3 DEF Uncounted
  <2>. QED
    BY <1>2, <1>3, <2>1, RemovedWorker, WorkerSets
<1>5. completed' = started' + Cardinality(Uncounted') /\ completed > 0
  BY <1>1, <1>2, <1>4 DEF FrameInv, TaskInv
<1>6. Finishing = {}
  BY <1>2, <1>5 DEF FrameInv, TaskInv
<1>7. TypeOK'
  <2>1. completed' \in 0 .. Cardinality(Workers)
    BY <1>1, <1>2, <1>5 DEF FrameInv, TypeOK
  <2>. QED
    BY <1>1, <2>1 DEF FrameInv, TypeOK, callVars, chainVars, jobVars
<1>8. TaskInv'
  <2>1. CASE completed = 1
    <3>1. Finishing' = {w}
      BY <1>1, <1>6, <2>1 DEF Finishing, FrameInv, TypeOK
    <3>. QED
      BY <1>1, <1>2, <1>5, <2>1, <3>1 DEF TaskInv, jobVars
  <2>2. CASE completed # 1
    <3>1. Finishing' = {}
      BY <1>1, <1>6, <2>2 DEF Finishing, FrameInv, TypeOK
    <3>. QED
      BY <1>1, <1>2, <1>5, <2>2, <3>1 DEF TaskInv, jobVars
  <2>. QED
    BY <2>1, <2>2
<1>9. CallInv' /\ PickInv'
  BY <1>1, <1>3 DEF FrameInv, CallInv, PickInv, callVars, chainVars, jobVars
<1>10. TileInv'
  BY <1>1, <1>3 DEF FrameInv, TileInv
<1>11. CountInv'
  BY <1>1, <1>3 DEF FrameInv, CountInv, Pending, chainVars, jobVars
<1>12. PixelInv'
  <2>1. \A t \in Tiles : Unrendered(t)' <=> Unrendered(t)
    BY <1>1 DEF Unrendered, FrameInv, TypeOK
  <2>. QED
    BY <1>1, <2>1 DEF FrameInv, PixelInv, chainVars, jobVars
<1>. QED
  BY <1>7, <1>8, <1>9, <1>10, <1>11, <1>12 DEF FrameInv

\* When a job is finished, no tile of its frame is pending or not rendered.
LEMMA FinishKeepsInvariant ==
  ASSUME FrameInv, NEW w \in Workers, Finish(w)
  PROVE  FrameInv'
<1>1. /\ wpc[w] = "finish" /\ job' = FALSE /\ synced' = TRUE
      /\ wpc' = [wpc EXCEPT ![w] = "idle"]
      /\ UNCHANGED <<callVars, chainVars, iteration, jobBuffer, jobIteration, jobAccumulate,
                     tileID, started, completed, tile>>
  BY DEF Finish, Goto
<1>2. job /\ started \in Nat /\ completed \in Nat
  BY <1>1, BusyMeansJob, WorkerSets DEF FrameInv, TypeOK
<1>3. completed = 0 /\ started = 0 /\ Uncounted = {}
  <2>1. w \in Finishing
    BY <1>1 DEF Finishing
  <2>2. completed = 0
    BY <1>2, <2>1 DEF FrameInv, TaskInv
  <2>3. IsFiniteSet(Uncounted) /\ Cardinality(Uncounted) \in Nat
    BY WorkerSets DEF Uncounted
  <2>4. started = 0 /\ Cardinality(Uncounted) = 0
    BY <1>2, <2>2, <2>3 DEF FrameInv, TaskInv
  <2>. QED
    BY <2>2, <2>3, <2>4, FS_EmptySet
<1>4. Looping = {} /\ InWork = {} /\ \A v \in Workers : wpc[v] # "render"
  BY <1>3 DEF Uncounted, Looping, InWork
<1>5. tileID >= NumTiles /\ tileID \in Nat /\ NumTiles \in Nat
  <2>1. Cardinality({}) = 0 /\ Cardinality(Workers) \in Nat \ {0}
    BY WorkerSets, FS_EmptySet
  <2>. QED
    BY <1>2, <1>3, <1>4, <2>1, RenderAssumption DEF FrameInv, TypeOK, PickInv
<1>6. \A t \in Tiles : ~(t >= tileID)
  BY <1>5 DEF Tiles
<1>7. /\ Uncounted' = Uncounted /\ Looping' = Looping /\ InWork' = InWork
      /\ Finishing' = {}
  BY <1>1 DEF Uncounted, Looping, InWork, Finishing, FrameInv, TypeOK, TaskInv
<1>8. TypeOK'
  <2>1. job' \in BOOLEAN /\ synced' \in BOOLEAN
    BY <1>1
  <2>2. wpc' \in [Workers -> {"idle", "pick", "render", "finishTile", "rays", "finish"}]
    BY <1>1 DEF FrameInv, TypeOK
  <2>3. UNCHANGED <<callVars, chainVars, iteration, jobBuffer, jobIteration, jobAccumulate,
                    tileID, started, completed, tile>>
    BY <1>1
  <2>. QED
    BY <2>1, <2>2, <2>3 DEF FrameInv, TypeOK, callVars, chainVars
<1>9. CallInv'
  BY <1>1 DEF FrameInv, CallInv, callVars
<1>10. TaskInv'
  BY <1>1, <1>3, <1>7 DEF FrameInv, TaskInv
<1>11. PickInv'
  BY <1>1, <1>7 DEF FrameInv, PickInv
<1>12. TileInv'
  BY <1>4, <1>7 DEF TileInv
<1>13. CountInv'
  <2>1. Pending = {} /\ Cardinality({}) = 0
    BY <1>4, <1>6, FS_EmptySet DEF Pending
  <2>2. \A b \in Buffers : remainingTiles[b] = 0
    BY <2>1 DEF FrameInv, CountInv
  <2>. QED
    BY <1>1, <2>2 DEF CountInv, chainVars
<1>14. PixelInv'
  <2>1. \A t \in Tiles : ~Unrendered(t)
    BY <1>4, <1>6 DEF Unrendered
  <2>2. \A t \in Tiles : accu[t] = Exposed(iteration) /\ data[jobBuffer][t] = Exposed(iteration)
    BY <1>2, <2>1 DEF FrameInv, PixelInv
  <2>3. 0 \in Tiles
    BY RenderAssumption DEF Tiles
  <2>4. \A b \in Buffers : \A t \in Tiles : data[b][t] = data[b][0]
    BY <2>2, <2>3 DEF FrameInv, PixelInv
  <2>. QED
    BY <1>1, <2>2, <2>4 DEF PixelInv, chainVars
<1>. QED
  BY <1>8, <1>9, <1>10, <1>11, <1>12, <1>13, <1>14 DEF FrameInv

LEMMA NextKeepsInvariant == FrameInv /\ [Next]_vars => FrameInv'
<1>. SUFFICES ASSUME FrameInv, [Next]_vars PROVE FrameInv'
  OBVIOUS
<1>1. ASSUME NEW c \in Callers, RenderFrame(c) PROVE FrameInv'
  BY <1>1, RenderFrameKeepsInvariant
<1>2. ASSUME NEW c \in Callers, SwapBuffers(c) \/ MapFrameBuffer(c) PROVE FrameInv'
  BY <1>2, EnterKeepsInvariant
<1>3. ASSUME NEW c \in Callers, Returns(c) PROVE FrameInv'
  BY <1>3, ReturnsKeepInvariant
<1>4. ASSUME NEW w \in Workers, WorkerStep(w) PROVE FrameInv'
  BY <1>4, StartElementKeepsInvariant, PickTileKeepsInvariant, RenderTileKeepsInvariant,
     FinishTileKeepsInvariant, CountRaysKeepsInvariant, FinishKeepsInvariant DEF WorkerStep
<1>5. CASE UNCHANGED vars
  <2>1. /\ UNCHANGED <<mutex, cpc, arg, seen, frames, buf, remainingTiles, data, accu>>
        /\ UNCHANGED <<iteration, job, jobBuffer, jobIteration, jobAccumulate, tileID>>
        /\ UNCHANGED <<started, completed, wpc, tile, synced>>
    BY <1>5 DEF vars, callVars, chainVars, jobVars, taskVars
  <2>2. /\ Uncounted' = Uncounted /\ Looping' = Looping /\ Finishing' = Finishing
        /\ InWork' = InWork
    BY <2>1 DEF Uncounted, Looping, Finishing, InWork
  <2>3. TypeOK' /\ CallInv'
    BY <2>1 DEF FrameInv, TypeOK, CallInv
  <2>4. TaskInv' /\ PickInv' /\ TileInv'
    BY <2>1, <2>2 DEF FrameInv, TaskInv, PickInv, TileInv
  <2>5. CountInv'
    BY <2>1, <2>2 DEF FrameInv, CountInv, Pending
  <2>6. PixelInv'
    BY <2>1 DEF FrameInv, PixelInv, Unrendered
  <2>. QED
    BY <2>3, <2>4, <2>5, <2>6 DEF FrameInv
<1>. QED
  BY <1>1, <1>2, <1>3, <1>4, <1>5 DEF Next

(***************************************************************************)
(* What follows.                                                           *)
(***************************************************************************)

\* The invariant of the frames holds in every reachable state, for any number of
\* workers, callers, tiles and buffers (RenderJob, FrameBuffer).
THEOREM Invariance == Spec => []FrameInv
  BY InitIsInvariant, NextKeepsInvariant, PTL DEF Spec

\* A frame buffer whose count of tiles is zero shows one whole frame
\* (FrameBuffer::finishTile and wait).
THEOREM FramesAreWhole == Spec => []NoTornFrame
<1>1. FrameInv => NoTornFrame
  <2>. SUFFICES ASSUME FrameInv, NEW b \in Buffers, remainingTiles[b] = 0, NEW t \in Tiles
                PROVE  data[b][t] = data[b][0]
    BY DEF FrameInv, NoTornFrame
  <2>1. CASE job /\ b = jobBuffer
    <3>1. Pending \in SUBSET Tiles /\ Cardinality(Pending) = 0
      BY <2>1 DEF FrameInv, CountInv, Pending
    <3>2. Pending = {}
      BY <3>1, TileSets, FS_EmptySet
    <3>3. \A u \in Tiles : ~Unrendered(u)
      BY <3>2 DEF Pending, Unrendered, InWork
    <3>4. \A u \in Tiles : data[b][u] = Exposed(iteration)
      BY <2>1, <3>3 DEF FrameInv, PixelInv
    <3>5. 0 \in Tiles
      BY RenderAssumption DEF Tiles
    <3>. QED
      BY <3>4, <3>5
  <2>2. CASE ~(job /\ b = jobBuffer)
    BY <2>2 DEF FrameInv, PixelInv
  <2>. QED
    BY <2>1, <2>2
<1>. QED
  BY <1>1, Invariance, PTL

\* Between two frames every tile has accumulated all frames of the exposure once,
\* in their order (IntegratorRenderer::renderFrame and RenderJob::renderTile).
THEOREM ExposuresAreExact == Spec => []ExposureExact
<1>1. FrameInv => ExposureExact
  BY DEF FrameInv, PixelInv, ExposureExact, Exposed
<1>. QED
  BY <1>1, Invariance, PTL

\* No worker is inside renderTile or finish without a job
\* (RenderJob::finish deletes it).
THEOREM JobsOutliveWorkers == Spec => []JobOutlivesWorkers
<1>1. FrameInv => JobOutlivesWorkers
  BY BusyMeansJob DEF JobOutlivesWorkers
<1>. QED
  BY <1>1, Invariance, PTL

(***************************************************************************)
(* The frame calls implement FrameService.                                 *)
(***************************************************************************)

\* A picture is told from a buffer that is being rendered.
LEMMA PicturesAreFinished ==
  ASSUME FrameInv, NEW b \in Buffers
  PROVE  /\ data[b][0] \in Pictures /\ data[b][0] # Unfinished
         /\ Image(b) = Unfinished <=> remainingTiles[b] # 0
<1>1. 0 \in Tiles
  BY RenderAssumption DEF Tiles
<1>. QED
  BY <1>1, RenderAssumption DEF FrameInv, TypeOK, Image

LEMMA InitImplements == Init => S!Init
<1>. SUFFICES ASSUME Init PROVE S!Init
  OBVIOUS
<1>1. 0 \in Tiles
  BY RenderAssumption DEF Tiles
<1>2. \A b \in Buffers : Image(b) = <<>>
  BY <1>1 DEF Init, Image
<1>3. Exposure = <<>>
  BY NothingExposed DEF Init, Exposure, Exposed
<1>. QED
  BY <1>2, <1>3 DEF Init, S!Init, S!Buffers, Buffers

\* A step that leaves the pictures of the buffers alone is a stutter.
LEMMA Stutters ==
  ASSUME \A b \in Buffers : Image(b)' = Image(b), UNCHANGED <<buf, iteration, seen>>
  PROVE  UNCHANGED S!svars
  BY DEF S!svars, Exposure

LEMMA CallsImplement ==
  ASSUME FrameInv, NEW c \in Callers,
         RenderFrame(c) \/ SwapBuffers(c) \/ MapFrameBuffer(c)
  PROVE  [S!Next]_(S!svars)
<1>1. mutex = Nobody
  BY DEF RenderFrame, SwapBuffers, MapFrameBuffer, Enter
<1>2. ~job
  BY <1>1, RenderAssumption DEF FrameInv, CallInv
<1>3. \A b \in Buffers : remainingTiles[b] = 0
  BY <1>2 DEF FrameInv, CountInv
<1>4. S!Idle
  BY <1>3, PicturesAreFinished DEF S!Idle, S!Buffers, Buffers
<1>5. buf \in Buffers /\ iteration \in Nat
  BY DEF FrameInv, TypeOK
<1>6. CASE RenderFrame(c)
  <2>1. PICK accumulate \in BOOLEAN :
          /\ iteration' = FirstIteration(accumulate) + 1
          /\ remainingTiles' = [remainingTiles EXCEPT ![buf] = NumTiles]
          /\ UNCHANGED <<buf, seen, data>>
    BY <1>6 DEF RenderFrame
  <2>. DEFINE image == [b \in Buffers |-> Image(b)]
              next == IF accumulate THEN Exposure ELSE <<>>
  <2>2. image' = [image EXCEPT ![buf] = Unfinished]
    <3>1. Image(buf)' = Unfinished
      BY <1>5, <2>1, RenderAssumption DEF Image, FrameInv, TypeOK
    <3>2. \A b \in Buffers : b # buf => Image(b)' = Image(b)
      BY <2>1 DEF Image, FrameInv, TypeOK
    <3>. QED
      BY <1>5, <2>1, <3>1, <3>2
  <2>3. Exposure' = Append(next, Len(next))
    <3>1. next = Exposed(FirstIteration(accumulate)) /\ FirstIteration(accumulate) \in Nat
      BY <1>5, NothingExposed DEF FirstIteration, Exposure, Exposed
    <3>2. Len(Exposed(FirstIteration(accumulate))) = FirstIteration(accumulate)
      BY <3>1 DEF Exposed
    <3>3. Exposure' = Exposed(FirstIteration(accumulate) + 1)
      BY <2>1 DEF Exposure, Exposed
    <3>. QED
      BY <3>1, <3>2, <3>3, ExposedNext
  <2>4. next \in {Exposure, <<>>}
    OBVIOUS
  <2>5. S!Begin
    BY <1>4, <2>1, <2>2, <2>3, <2>4 DEF S!Begin
  <2>. QED
    BY <2>5 DEF S!Next
<1>7. CASE SwapBuffers(c)
  <2>1. buf' = (buf + 1) % Depth /\ UNCHANGED <<seen, remainingTiles, data, iteration>>
    BY <1>7 DEF SwapBuffers, jobVars
  <2>2. S!Swap
    BY <1>4, <2>1 DEF S!Swap, Image, Exposure
  <2>. QED
    BY <2>2 DEF S!Next
<1>8. CASE MapFrameBuffer(c)
  <2>1. UNCHANGED <<buf, seen, remainingTiles, data, iteration>>
    BY <1>8 DEF MapFrameBuffer, chainVars, jobVars
  <2>. QED
    BY <2>1, Stutters DEF Image
<1>. QED
  BY <1>6, <1>7, <1>8

LEMMA ReturnsImplement ==
  ASSUME FrameInv, NEW c \in Callers, Returns(c)
  PROVE  [S!Next]_(S!svars)
<1>1. UNCHANGED <<buf, remainingTiles, data, iteration>>
  BY DEF Returns, RenderReturns, SwapReturns, MapReturns, chainVars, jobVars
<1>2. CASE MapReturns(c)
  <2>1. arg[c] \in Buffers /\ remainingTiles[arg[c]] = 0
    BY <1>2 DEF MapReturns, FrameInv, TypeOK
  <2>2. Image(arg[c]) # Unfinished /\ Image(arg[c]) = data[arg[c]][0]
    BY <2>1, PicturesAreFinished DEF Image
  <2>3. seen' = [seen EXCEPT ![c] = Image(arg[c])]
    BY <1>2, <2>2 DEF MapReturns
  <2>4. S!Map(c, arg[c])
    BY <1>1, <2>1, <2>2, <2>3 DEF S!Map, Image, Exposure
  <2>. QED
    BY <2>1, <2>4 DEF S!Next, S!Buffers, Buffers
<1>3. CASE RenderReturns(c) \/ SwapReturns(c)
  <2>1. UNCHANGED seen
    BY <1>3 DEF RenderReturns, SwapReturns
  <2>. QED
    BY <1>1, <2>1, Stutters DEF Image
<1>. QED
  BY <1>2, <1>3 DEF Returns

\* The frame ends with the count of the last tile; until then its buffer is
\* unfinished, whatever is rendered into it.
LEMMA WorkersImplement ==
  ASSUME FrameInv, NEW w \in Workers, WorkerStep(w)
  PROVE  [S!Next]_(S!svars)
<1>1. CASE StartElement(w) \/ PickTile(w) \/ CountRays(w) \/ Finish(w)
  <2>1. UNCHANGED <<buf, remainingTiles, data, iteration, seen>>
    BY <1>1 DEF StartElement, PickTile, CountRays, Finish, callVars, chainVars, jobVars
  <2>. QED
    BY <2>1, Stutters DEF Image
<1>2. CASE RenderTile(w) \/ FinishTile(w)
  <2>1. job /\ jobBuffer = buf /\ buf \in Buffers
    BY <1>2, BusyMeansJob DEF RenderTile, FinishTile, FrameInv, CallInv, TypeOK
  <2>2. tile[w] \in Pending /\ w \in InWork
    BY <1>2 DEF RenderTile, FinishTile, FrameInv, TileInv, InWork, Pending
  <2>3. remainingTiles[buf] = Cardinality(Pending) /\ remainingTiles[buf] \in Nat \ {0}
    <3>1. Pending \in SUBSET Tiles
      BY DEF Pending
    <3>2. IsFiniteSet(Pending) /\ Cardinality(Pending) \in Nat
      BY <3>1, TileSets, FS_CardinalityType
    <3>3. Cardinality(Pending) # 0
      BY <2>2, <3>2, FS_EmptySet
    <3>. QED
      BY <2>1, <3>2, <3>3 DEF FrameInv, CountInv
  <2>4. UNCHANGED <<buf, iteration, seen>>
    BY <1>2 DEF RenderTile, FinishTile, callVars, jobVars
  <2>5. CASE RenderTile(w)
    <3>1. UNCHANGED remainingTiles /\ \A b \in Buffers : b # buf => data'[b] = data[b]
      BY <2>1, <2>5 DEF RenderTile, FrameInv, TypeOK
    <3>2. \A b \in Buffers : Image(b)' = Image(b)
      BY <2>1, <2>3, <3>1 DEF Image
    <3>. QED
      BY <2>4, <3>2, Stutters
  <2>6. CASE FinishTile(w)
    <3>1. UNCHANGED data /\ remainingTiles' = [remainingTiles EXCEPT ![buf] = @ - 1]
      BY <2>1, <2>6 DEF FinishTile
    <3>2. \A b \in Buffers : b # buf => Image(b)' = Image(b)
      BY <3>1 DEF Image, FrameInv, TypeOK
    <3>3. CASE remainingTiles[buf] # 1
      <4>1. Image(buf)' = Unfinished /\ Image(buf) = Unfinished
        <5>1. remainingTiles'[buf] = remainingTiles[buf] - 1
          BY <2>1, <3>1 DEF FrameInv, TypeOK
        <5>. QED
          BY <2>3, <2>4, <3>3, <5>1 DEF Image
      <4>. QED
        BY <2>4, <3>2, <4>1, Stutters
    <3>4. CASE remainingTiles[buf] = 1
      <4>1. remainingTiles'[buf] = 0 /\ Image(buf) = Unfinished
        BY <2>1, <2>3, <3>1, <3>4 DEF Image, FrameInv, TypeOK
      <4>2. data[buf][0] = Exposed(iteration)
        <5>1. 0 \in Tiles /\ wpc[w] = "finishTile"
          BY <2>6, RenderAssumption DEF Tiles, FinishTile
        <5>2. Cardinality(Pending) = 1 /\ IsFiniteSet(Pending)
          BY <2>3, <3>4, TileSets DEF Pending
        <5>3. Pending = {tile[w]}
          BY <2>2, <5>2, FS_Singleton
        <5>4. ~Unrendered(0)
          <6>1. ~(tile[w] >= tileID) /\ \A v \in InWork : tile[v] = tile[w] => v = w
            BY <2>2, RenderAssumption DEF FrameInv, TypeOK, TileInv, Tiles
          <6>2. 0 \in Pending => tile[w] = 0
            BY <5>3
          <6>3. ~(0 >= tileID)
            BY <5>1, <6>1, <6>2 DEF Pending
          <6>4. ASSUME NEW v \in Workers, wpc[v] = "render", tile[v] = 0 PROVE FALSE
            <7>1. v \in InWork /\ 0 \in Pending
              BY <5>1, <6>4 DEF InWork, Pending
            <7>2. v = w
              BY <6>1, <6>2, <6>4, <7>1
            <7>. QED
              BY <5>1, <6>4, <7>2
          <6>. QED
            BY <6>3, <6>4 DEF Unrendered
        <5>. QED
          BY <2>1, <5>1, <5>4 DEF FrameInv, PixelInv
      <4>3. Image(buf)' = Exposure
        BY <2>4, <3>1, <4>1, <4>2 DEF Image, Exposure, Exposed
      <4>. DEFINE image == [b \in Buffers |-> Image(b)]
      <4>4. image' = [image EXCEPT ![buf] = Exposure]
        BY <2>1, <2>4, <3>2, <4>3
      <4>5. S!End
        BY <2>1, <2>4, <4>1, <4>4 DEF S!End, Exposure
      <4>. QED
        BY <4>5 DEF S!Next
    <3>. QED
      BY <3>3, <3>4
  <2>. QED
    BY <1>2, <2>5, <2>6
<1>. QED
  BY <1>1, <1>2 DEF WorkerStep

\* The calls of the single-ray device that concern frames do what FrameService
\* promises, for any number of workers, callers, tiles and buffers.
THEOREM FramesAreServed == Spec => ImplementsFrameService
<1>1. FrameInv /\ [Next]_vars => [S!Next]_(S!svars)
  <2>. SUFFICES ASSUME FrameInv, [Next]_vars PROVE [S!Next]_(S!svars)
    OBVIOUS
  <2>1. CASE UNCHANGED vars
    BY <2>1, Stutters DEF vars, callVars, chainVars, jobVars, Image
  <2>2. CASE Next
    BY <2>2, CallsImplement, ReturnsImplement, WorkersImplement DEF Next
  <2>. QED
    BY <2>1, <2>2
<1>. QED
  BY <1>1, Invariance, InitImplements, PTL DEF Spec, ImplementsFrameService, S!Spec
=============================================================================
