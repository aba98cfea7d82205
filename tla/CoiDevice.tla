------------------------------ MODULE CoiDevice ------------------------------
(***************************************************************************)
(* The COI device: it numbers objects as the network device does, but runs *)
(* every call as a function on each Xeon Phi card.  Functions are enqueued *)
(* on the pipeline of a card and executed there one after the other; only  *)
(* calls that need an answer, or reuse a transfer buffer, wait.  A card    *)
(* renders into a COI buffer that the host passes along with the function, *)
(* so that host and card must agree on the current buffer of a swap chain. *)
(*                                                                         *)
(* An object is named by the number of the call that created it, a picture *)
(* by the number of the call of rtRenderFrame that rendered it.  The       *)
(* application is one thread, which unmaps a buffer before it goes on.     *)
(* External: a pipeline is a queue; mapping a buffer waits for the         *)
(* functions it has been passed to; a buffer that the host destroys        *)
(* outlives the functions that are using it.                               *)
(***************************************************************************)
EXTENDS Integers, Sequences, FiniteSets

CONSTANTS
  NumDevices,  (* the cards                                                 *)
  Depth,       (* numBuffers of a swap chain                                *)
  NumChunks,   (* a data object takes that many STREAM_BUFFER_SIZE          *)
  Kinds,       (* the kinds of objects the application creates              *)
  MaxHandles,  (* bound: handles in use                                     *)
  MaxCalls,    (* bound: calls of the application                           *)
  None

ASSUME CoiAssumption ==
  /\ NumDevices \in Nat \ {0} /\ Depth \in Nat \ {0} /\ NumChunks \in Nat
  /\ Kinds \subseteq {"object", "primitive", "data", "image", "framebuffer"}
  /\ MaxHandles \in Nat /\ MaxCalls \in Nat
  /\ None \notin Int

Devices == 0 .. NumDevices-1
Handles == 1 .. MaxHandles
Objects == 1 .. MaxCalls
Buffers == 0 .. Depth-1
Chunks == 0 .. NumChunks-1
Blank == [b \in Buffers |-> 0]
Idle == [op |-> "idle", h |-> 0, dev |-> 0, n |-> 0]

VARIABLES
  calls,                      (* calls made so far                          *)
  pc,                         (* the call in progress: its operation, handle,
                                 card and chunk or buffer                   *)
  nextHandle, pool, counters, (* handle management                          *)
  means,                      (* the object of a handle, for the application *)
  buffers,                    (* SwapChain::buf of the host's swap chains   *)
  curBuffer,                  (* COIProcess::SwapChain::curBuffer           *)
  shown,                      (* the picture last mapped, per card          *)
  local,                      (* the chain of a local device, for comparison *)
  pipeline,                   (* functions enqueued on a card               *)
  pixels,                     (* content of the COI buffers of a swap chain *)
  stream,                     (* content of the stream buffer of a card     *)
  gHandles, gData,            (* g_handles and g_data of a card             *)
  live,                       (* objects a card holds a reference to        *)
  content,                    (* the chunks of the data objects             *)
  buf                         (* SwapChain::buf of the swap chains of a card *)

hostVars == <<nextHandle, pool, counters, means>>
chainVars == <<buffers, curBuffer, shown, local>>
sinkVars == <<gHandles, gData, live, content, buf, pixels>>
vars == <<calls, pc, hostVars, chainVars, pipeline, stream, sinkVars>>

Init ==
  /\ calls = 0 /\ pc = Idle
  /\ nextHandle = 1 /\ pool = <<>>
  /\ counters = [h \in Handles |-> 0]
  /\ means = [h \in Handles |-> None]
  /\ buffers = [h \in Handles |-> None]
  /\ curBuffer = [i \in Devices |-> [h \in Handles |-> None]]
  /\ shown = [i \in Devices |-> 0]
  /\ local = [h \in Handles |-> None]
  /\ pipeline = [i \in Devices |-> <<>>]
  /\ pixels = [i \in Devices |-> [k \in Objects |-> Blank]]
  /\ stream = [i \in Devices |-> None]
  /\ gHandles = [i \in Devices |-> [h \in Handles |-> None]]
  /\ gData = [i \in Devices |-> None]
  /\ live = [i \in Devices |-> {}]
  /\ content = [i \in Devices |-> [k \in Objects |-> None]]
  /\ buf = [i \in Devices |-> [k \in Objects |-> None]]

-----------------------------------------------------------------------------
(* The host: handles.                                                      *)

Held == {h \in Handles : counters[h] > 0 /\ means[h] # None}
Chains == {h \in Held : buffers[h] # None}

\* A function that names handles, with what the application means by them; one
\* that creates object k under handle h; and one that does not create any.
Creates(fn, h, k, args) ==
  [fn |-> fn, id |-> h, obj |-> k, buf |-> 0, n |-> 0,
   args |-> {<<a, means[a]>> : a \in args}]
Function(fn, h, args) == Creates(fn, h, None, args)

Enqueue(m) == pipeline' = [i \in Devices |-> Append(pipeline[i], m)]
EnqueueOn(i, m) == pipeline' = [pipeline EXCEPT ![i] = Append(@, m)]

\* COIPipelineRunFunctionSync: the function was the last one enqueued.
Completed(i) == pipeline[i] = <<>>

Call == pc = Idle /\ calls < MaxCalls /\ calls' = calls + 1

\* allocHandle(): the handle released last is used again first.
AllocHandle(h) ==
  /\ counters' = [counters EXCEPT ![h] = 1]
  /\ IF pool = <<>>
     THEN h = nextHandle /\ nextHandle' = nextHandle + 1 /\ UNCHANGED pool
     ELSE /\ h = pool[Len(pool)]
          /\ pool' = SubSeq(pool, 1, Len(pool) - 1)
          /\ UNCHANGED nextHandle

\* The application learns what the handle stands for.
Returned(h) == means' = [means EXCEPT ![h] = calls + 1]

\* rtNewCamera, rtNewTexture, rtNewMaterial, rtNewShape, rtNewLight, rtNewScene,
\* rtNewToneMapper and rtNewRenderer.
New(h) ==
  /\ Call /\ "object" \in Kinds
  /\ AllocHandle(h) /\ Returned(h)
  /\ Enqueue(Creates("rtNew", h, calls + 1, {}))
  /\ UNCHANGED <<pc, chainVars, stream, sinkVars>>

\* The function of a primitive names shape and material, light and material, or
\* the primitive to transform.
PrimitiveFunction(h, args) == Creates("rtNew", h, calls + 1, args)

\* rtNewShapePrimitive, rtNewLightPrimitive and rtTransformPrimitive.
NewPrimitive(h, args) ==
  /\ Call /\ "primitive" \in Kinds
  /\ args # {} /\ h \notin args
  /\ AllocHandle(h) /\ Returned(h)
  /\ Enqueue(PrimitiveFunction(h, args))
  /\ UNCHANGED <<pc, chainVars, stream, sinkVars>>

\* rtNewImage and rtNewFrameBuffer throw for an unknown type on the first card,
\* after the handle has been taken.
NewThrows(h) ==
  /\ Call /\ Kinds \cap {"image", "framebuffer"} # {}
  /\ AllocHandle(h)
  /\ means' = [means EXCEPT ![h] = None]
  /\ UNCHANGED <<pc, chainVars, pipeline, stream, sinkVars>>

\* rtNewFrameBuffer: a COI buffer per buffer and card, and the host's own chain.
NewFrameBuffer(h) ==
  /\ Call /\ "framebuffer" \in Kinds
  /\ AllocHandle(h) /\ Returned(h)
  /\ Enqueue(Creates("rtNewFrameBuffer", h, calls + 1, {}))
  /\ curBuffer' = [i \in Devices |-> [curBuffer[i] EXCEPT ![h] = 0]]
  /\ buffers' = [buffers EXCEPT ![h] = 0]
  /\ local' = [local EXCEPT ![h] = [buf |-> 0, image |-> Blank]]
  /\ UNCHANGED <<pc, shown, stream, sinkVars>>

-----------------------------------------------------------------------------
(* The host: transfers.                                                    *)

\* rtNewData and rtNewImage deal with one card after the other.
Transfer(op, h) ==
  /\ Call /\ op \in Kinds
  /\ AllocHandle(h)
  /\ means' = [means EXCEPT ![h] = None]
  /\ pc' = [op |-> op, h |-> h, dev |-> 0, n |-> 0]
  /\ UNCHANGED <<chainVars, pipeline, stream, sinkVars>>

\* Mutant of NextDevice: the loop over the cards does not end.
FirstAgain(op) ==
  /\ pc' = [pc EXCEPT !.op = op, !.dev = (@ + 1) % NumDevices, !.n = 0]
  /\ UNCHANGED means

\* After the last card the call returns.
NextDevice(op) ==
  IF pc.dev + 1 < NumDevices
  THEN pc' = [pc EXCEPT !.op = op, !.dev = @ + 1, !.n = 0] /\ UNCHANGED means
  ELSE pc' = Idle /\ means' = [means EXCEPT ![pc.h] = calls]

\* COIProcess::rtNewData: rtNewDataStart allocates the memory.
DataStart ==
  /\ pc.op = "data"
  /\ EnqueueOn(pc.dev, Function("rtNewDataStart", pc.h, {}))
  /\ pc' = [pc EXCEPT !.op = "write"]
  /\ UNCHANGED <<calls, hostVars, chainVars, stream, sinkVars>>

\* The stream buffer is filled, and rtNewDataSet enqueued.
DataSet ==
  /\ pc.op = "write" /\ pc.n < NumChunks
  /\ stream' = [stream EXCEPT ![pc.dev] = <<calls, pc.n>>]
  /\ EnqueueOn(pc.dev, [Function("rtNewDataSet", pc.h, {}) EXCEPT !.n = pc.n])
  /\ pc' = [pc EXCEPT !.op = "set"]
  /\ UNCHANGED <<calls, hostVars, chainVars, sinkVars>>

\* Mutant of DataWait: rtNewDataSet is not waited for.
DataNoWait ==
  /\ pc.op = "set"
  /\ pc' = [pc EXCEPT !.op = "write", !.n = @ + 1]
  /\ UNCHANGED <<calls, hostVars, chainVars, pipeline, stream, sinkVars>>

\* The chunk has been read: the stream buffer can be used again.
DataWait ==
  /\ pc.op = "set" /\ Completed(pc.dev)
  /\ pc' = [pc EXCEPT !.op = "write", !.n = @ + 1]
  /\ UNCHANGED <<calls, hostVars, chainVars, pipeline, stream, sinkVars>>

\* rtNewDataEnd is not waited for.
DataEnd ==
  /\ pc.op = "write" /\ pc.n = NumChunks
  /\ EnqueueOn(pc.dev, Creates("rtNewDataEnd", pc.h, calls, {}))
  /\ NextDevice("data")
  /\ UNCHANGED <<calls, nextHandle, pool, counters, chainVars, stream, sinkVars>>

\* COIProcess::rtNewImage: the function reads the application's own pixels.
ImageRun ==
  /\ pc.op = "image" /\ pc.n = 0
  /\ EnqueueOn(pc.dev, Creates("rtNew", pc.h, calls, {}))
  /\ pc' = [pc EXCEPT !.n = 1]
  /\ UNCHANGED <<calls, hostVars, chainVars, stream, sinkVars>>

ImageWait ==
  /\ pc.op = "image" /\ pc.n = 1 /\ Completed(pc.dev)
  /\ NextDevice("image")
  /\ UNCHANGED <<calls, nextHandle, pool, counters, chainVars, pipeline, stream, sinkVars>>

-----------------------------------------------------------------------------
(* The host: references, setters and frames.                               *)

\* rtIncRef counts on the host only.
IncRef(h) ==
  /\ Call /\ h \in Held
  /\ counters' = [counters EXCEPT ![h] = @ + 1]
  /\ UNCHANGED <<pc, nextHandle, pool, means, chainVars, pipeline, stream, sinkVars>>

\* Mutant of Freed: every release frees the handle.
FreedAlways(h) == TRUE

Freed(h) == counters[h] = 1

\* rtDecRef: the last reference frees the swap chains and only then the objects.
DecRef(h) ==
  /\ Call /\ h \in Held
  /\ counters' = [counters EXCEPT ![h] = @ - 1]
  /\ IF Freed(h)
     THEN /\ pool' = Append(pool, h)
          /\ buffers' = [buffers EXCEPT ![h] = None]
          /\ local' = [local EXCEPT ![h] = None]
          /\ curBuffer' = [i \in Devices |-> [curBuffer[i] EXCEPT ![h] = None]]
          /\ Enqueue(Function("rtDecRef", h, {h}))
     ELSE UNCHANGED <<pool, buffers, local, curBuffer, pipeline>>
  /\ UNCHANGED <<pc, nextHandle, means, shown, stream, sinkVars>>

\* The functions of COIProcess that change one object, and those that give it a
\* reference to a second one.
ValueFunction(h) == Function("rtSet", h, {h})
ReferenceFunction(h, a) == Function("rtSetReference", h, {h, a})

\* rtSetBool1 to rtSetFloat4, rtSetString, rtSetTransform, rtClear and rtCommit.
SetValue(h) ==
  /\ Call /\ h \in Held /\ "object" \in Kinds
  /\ Enqueue(ValueFunction(h))
  /\ UNCHANGED <<pc, hostVars, chainVars, stream, sinkVars>>

\* rtSetArray, rtSetImage, rtSetTexture and rtSetPrimitive.
SetReference(h, a) ==
  /\ Call /\ {h, a} \subseteq Held /\ h # a
  /\ Enqueue(ReferenceFunction(h, a))
  /\ UNCHANGED <<pc, hostVars, chainVars, stream, sinkVars>>

\* rtRenderFrame passes the current buffer of the chain along.
RenderFrame(h) ==
  /\ Call /\ h \in Chains
  /\ pipeline' = [i \in Devices |->
       Append(pipeline[i], [Function("rtRenderFrame", h, {h}) EXCEPT
                              !.buf = curBuffer[i][h], !.n = calls + 1])]
  /\ local' = [local EXCEPT ![h].image[local[h].buf] = calls + 1]
  /\ UNCHANGED <<pc, hostVars, buffers, curBuffer, shown, stream, sinkVars>>

\* SwapChain::swapBuffers() of a card on the host.
NextBuffer(b) == IF b + 1 >= Depth THEN 0 ELSE b + 1

SwapBuffers(h) ==
  /\ Call /\ h \in Chains
  /\ Enqueue(Function("rtSwapBuffers", h, {h}))
  /\ curBuffer' = [i \in Devices |-> [curBuffer[i] EXCEPT ![h] = NextBuffer(@)]]
  /\ buffers' = [buffers EXCEPT ![h] = (@ + 1) % Depth]
  /\ local' = [local EXCEPT ![h].buf = (@ + 1) % Depth]
  /\ UNCHANGED <<pc, hostVars, shown, stream, sinkVars>>

\* rtMapFrameBuffer: the buffer the application names, or the current one.
MapFrameBuffer(h, b) ==
  /\ Call /\ h \in Chains
  /\ pc' = [op |-> "map", h |-> h, dev |-> 0,
            n |-> IF b < 0 THEN buffers[h] ELSE b]
  /\ UNCHANGED <<hostVars, chainVars, pipeline, stream, sinkVars>>

\* Mutant of BufferIdle: the buffer is mapped while a card still renders to it.
AlwaysIdle(i, h, b) == TRUE

\* COIBufferMap waits for the functions the buffer was passed to.
BufferIdle(i, h, b) ==
  \A j \in 1 .. Len(pipeline[i]) :
    LET m == pipeline[i][j] IN
    ~(m.fn = "rtRenderFrame" /\ m.args = {<<h, means[h]>>} /\ m.buf = b)

\* The buffer of one card is mapped, and, when there are several, merged.
MapDevice ==
  LET i == pc.dev
  IN  /\ pc.op = "map" /\ i < NumDevices
      /\ BufferIdle(i, pc.h, pc.n)
      /\ shown' = [shown EXCEPT ![i] = pixels[i][means[pc.h]][pc.n]]
      /\ pc' = [pc EXCEPT !.dev = @ + 1]
      /\ UNCHANGED <<calls, hostVars, buffers, curBuffer, local, pipeline, stream, sinkVars>>

\* The application has the picture, until it unmaps the buffer.
MapReturns ==
  /\ pc.op = "map" /\ pc.dev = NumDevices
  /\ pc' = [pc EXCEPT !.op = "mapped"]
  /\ UNCHANGED <<calls, hostVars, chainVars, pipeline, stream, sinkVars>>

UnmapFrameBuffer ==
  /\ pc.op = "mapped"
  /\ pc' = Idle
  /\ UNCHANGED <<calls, hostVars, chainVars, pipeline, stream, sinkVars>>

\* rtPick asks the first card, and waits.
Pick(camera, scene) ==
  /\ Call /\ {camera, scene} \subseteq Held /\ camera # scene
  /\ EnqueueOn(0, Function("rtPick", 0, {camera, scene}))
  /\ pc' = [Idle EXCEPT !.op = "pick"]
  /\ UNCHANGED <<hostVars, chainVars, stream, sinkVars>>

PickWait ==
  /\ pc.op = "pick" /\ Completed(0)
  /\ pc' = Idle
  /\ UNCHANGED <<calls, hostVars, chainVars, pipeline, stream, sinkVars>>

\* The destructor: COIProcessDestroy lets the cards finish what is enqueued.
Close ==
  /\ pc = Idle
  /\ pc' = [Idle EXCEPT !.op = "closing"]
  /\ UNCHANGED <<calls, hostVars, chainVars, pipeline, stream, sinkVars>>

Terminated ==
  /\ pc.op = "closing" /\ (\A i \in Devices : Completed(i))
  /\ UNCHANGED vars

-----------------------------------------------------------------------------
(* A card executes the first function of its pipeline.                     *)

\* set(): the card knows the object by the number the host gave it.
SetHandle(i, m, k) ==
  /\ gHandles' = [gHandles EXCEPT ![i][m.id] = k]
  /\ live' = [live EXCEPT ![i] = @ \cup {k}]

RunNew(i, m) ==
  /\ m.fn = "rtNew"
  /\ SetHandle(i, m, m.obj)
  /\ UNCHANGED <<gData, content, buf, pixels>>

RunNewFrameBuffer(i, m) ==
  /\ m.fn = "rtNewFrameBuffer"
  /\ SetHandle(i, m, m.obj)
  /\ buf' = [buf EXCEPT ![i][m.obj] = 0]
  /\ UNCHANGED <<gData, content, pixels>>

RunNewDataStart(i, m) ==
  /\ m.fn = "rtNewDataStart"
  /\ gData' = [gData EXCEPT ![i] = [c \in Chunks |-> None]]
  /\ UNCHANGED <<gHandles, live, content, buf, pixels>>

RunNewDataSet(i, m) ==
  /\ m.fn = "rtNewDataSet"
  /\ gData' = [gData EXCEPT ![i][m.n] = stream[i]]
  /\ UNCHANGED <<gHandles, live, content, buf, pixels>>

RunNewDataEnd(i, m) ==
  /\ m.fn = "rtNewDataEnd"
  /\ SetHandle(i, m, m.obj)
  /\ content' = [content EXCEPT ![i][m.obj] = gData[i]]
  /\ gData' = [gData EXCEPT ![i] = None]
  /\ UNCHANGED <<buf, pixels>>

RunDecRef(i, m) ==
  /\ m.fn = "rtDecRef"
  /\ live' = [live EXCEPT ![i] = @ \ {gHandles[i][m.id]}]
  /\ UNCHANGED <<gHandles, gData, content, buf, pixels>>

\* The setters and rtPick use the objects they are given.
RunSetValue(i, m) == m.fn = "rtSet" /\ UNCHANGED sinkVars
RunSetReference(i, m) == m.fn = "rtSetReference" /\ UNCHANGED sinkVars
RunPick(i, m) == m.fn = "rtPick" /\ UNCHANGED sinkVars

\* The device of the card renders into the current buffer of its own chain.
RunRenderFrame(i, m) ==
  LET k == gHandles[i][m.id] IN
  /\ m.fn = "rtRenderFrame"
  /\ pixels' = [pixels EXCEPT ![i][k][buf[i][k]] = m.n]
  /\ UNCHANGED <<gHandles, gData, live, content, buf>>

RunSwapBuffers(i, m) ==
  LET k == gHandles[i][m.id] IN
  /\ m.fn = "rtSwapBuffers"
  /\ buf' = [buf EXCEPT ![i][k] = (@ + 1) % Depth]
  /\ UNCHANGED <<gHandles, gData, live, content, pixels>>

Run(i) ==
  LET m == Head(pipeline[i]) IN
  /\ pipeline[i] # <<>>
  /\ \/ RunNew(i, m) \/ RunNewFrameBuffer(i, m) \/ RunDecRef(i, m)
     \/ RunSetValue(i, m) \/ RunSetReference(i, m) \/ RunPick(i, m)
     \/ RunNewDataStart(i, m) \/ RunNewDataSet(i, m) \/ RunNewDataEnd(i, m)
     \/ RunRenderFrame(i, m) \/ RunSwapBuffers(i, m)
  /\ pipeline' = [pipeline EXCEPT ![i] = Tail(@)]
  /\ UNCHANGED <<calls, pc, hostVars, chainVars, stream>>

-----------------------------------------------------------------------------
HostCall ==
  \/ \E h \in Handles :
       \/ New(h) \/ NewThrows(h) \/ NewFrameBuffer(h)
       \/ \E args \in SUBSET Held : NewPrimitive(h, args)
       \/ \E op \in {"data", "image"} : Transfer(op, h)
       \/ IncRef(h) \/ DecRef(h) \/ SetValue(h) \/ RenderFrame(h) \/ SwapBuffers(h)
       \/ \E a \in Handles : SetReference(h, a) \/ Pick(h, a)
       \/ \E b \in Buffers \cup {-1} : MapFrameBuffer(h, b)
  \/ Close

\* The steps of a call in progress.
HostStep ==
  \/ DataStart \/ DataSet \/ DataWait \/ DataEnd \/ ImageRun \/ ImageWait
  \/ MapDevice \/ MapReturns \/ PickWait

Next ==
  \/ HostCall \/ HostStep \/ UnmapFrameBuffer
  \/ \E i \in Devices : Run(i)
  \/ Terminated

\* The cards execute what is enqueued; the application need not make calls.
Fairness == WF_vars(HostStep) /\ \A i \in Devices : WF_vars(Run(i))

Spec == Init /\ [][Next]_vars /\ Fairness

-----------------------------------------------------------------------------
Operations == {"idle", "data", "write", "set", "image", "map", "mapped", "pick", "closing"}

TypeOK ==
  /\ calls \in 0 .. MaxCalls
  /\ pc \in [op : Operations, h : {0} \cup Handles, dev : 0 .. NumDevices, n : Nat]
  /\ nextHandle \in 1 .. MaxHandles + 1
  /\ pool \in Seq(Handles) /\ Len(pool) < nextHandle
  /\ counters \in [Handles -> 0 .. MaxCalls]
  /\ means \in [Handles -> Objects \cup {None}]
  /\ buffers \in [Handles -> Buffers \cup {None}]
  /\ curBuffer \in [Devices -> [Handles -> Buffers \cup {None}]]
  /\ shown \in [Devices -> 0 .. MaxCalls]
  /\ pixels \in [Devices -> [Objects -> [Buffers -> 0 .. MaxCalls]]]
  /\ gHandles \in [Devices -> [Handles -> Objects \cup {None}]]
  /\ live \in [Devices -> SUBSET Objects]
  /\ buf \in [Devices -> [Objects -> Buffers \cup {None}]]

\* A card that has executed everything holds the objects the application has
\* references to, and no others.
CardsMirrorHost ==
  \A i \in Devices : pipeline[i] = <<>> /\ pc = Idle =>
    live[i] = {means[h] : h \in Held}

\* A card finds, under every handle a function names, the object the application
\* meant when it made the call, and that object is alive: although the host
\* returns a handle to the pool before the card has released the object.  When
\* all is executed, host and cards agree on what there is.
HandlesMeanTheSame ==
  /\ TypeOK
  /\ CardsMirrorHost
  /\ \A i \in Devices : pipeline[i] # <<>> =>
       \A arg \in Head(pipeline[i]).args :
         gHandles[i][arg[1]] = arg[2] /\ arg[2] \in live[i]

\* The COI buffer the host passes to a frame is the one the card renders to, the
\* only one the runtime keeps on the card for it.
PassedBufferIsRendered ==
  \A i \in Devices : pipeline[i] # <<>> =>
    LET m == Head(pipeline[i]) IN
    m.fn = "rtRenderFrame" => m.buf = buf[i][gHandles[i][m.id]]

\* A mapped frame buffer shows what that buffer of a local device would show: on
\* every card the last frame rendered to it, complete; for the frames before it
\* were rendered to the buffers that are mapped.
ShowsLocalImage ==
  /\ PassedBufferIsRendered
  /\ pc.op = "mapped" =>
       \A i \in Devices : shown[i] = local[pc.h].image[pc.n]

\* A data object has every chunk of its data at its offset, although all chunks of
\* all objects go through one stream buffer.
DataArrives ==
  \A i \in Devices : \A k \in live[i] :
    content[i][k] \in {None, [c \in Chunks |-> <<k, c>>]}

\* A call that waits for a card returns.
CallsReturn ==
  pc.op \in {"data", "write", "set", "image", "map", "pick"} ~> pc.op \in {"idle", "mapped"}
=============================================================================
