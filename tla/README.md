# Embree renderer: a TLA+ model

The repository is Embree's example renderer: an application (`devices/renderer`)
that draws scenes through a C++ interface, the *device* (`devices/device/device.h`),
which has several implementations: one that traces single rays on the host, one in
ISPC, one that offloads to coprocessor cards (COI), and one that passes every call over
the network to servers that run a device of their own. Below them `common/sys` supplies
threads, events, barriers, a task scheduler and sockets.

What can go wrong beyond arithmetic is in five places: the scheduler and its events; the
tiles of a frame; the protocols that mirror handles and frames on servers and cards; the
lifetime of the objects behind handles and what a commit makes of them; and the numbers
by which a hit in the kernel is led back to a primitive. There is a group of modules for
each.

## The system

| Component | State | Operations | What makes it correct |
|---|---|---|---|
| Task scheduler (`common/sys/taskscheduler*`) | list of tasks, counters of every task, `terminateThreads` | `add`, `run`, `create`, `destroy` | every element runs once; completion comes last; no lost wakeup; shutdown drops nothing |
| Events (`taskscheduler.h`, `sync/event.h`) | `activeTasks`, flag, mutex, condition variable | `inc`, `dec`, `trigger`, `sync` | `sync` waits for all; the event, on a stack, is not touched after it is gone |
| Barrier (`sync/barrier.h`) | count, mutex, condition variable | `init`, `wait` | nobody runs ahead; everybody who waits is let go |
| Frame rendering (`renderers/integratorrenderer.cpp`) | the `RenderJob`: tile counter, frame number; the renderer's `iteration` | `renderFrame`, `renderTile`, `finish` | every pixel gets every frame exactly once; the job outlives its workers |
| Frame buffers (`api/framebuffer.h`, `api/swapchain.h`) | pixels, `remainingTiles`, current buffer, accumulation buffer | `startRendering`, `finishTile`, `wait`, `swapBuffers`, `update`, `raster2buffer` | a counted buffer shows one whole frame; rows come back to their lines |
| Single-ray device (`api/singleray_device.cpp`) | a mutex, handles | the API | calls that wait with the mutex locked return |
| Handles and objects (`api/handle.h`, `sys/ref.h`) | reference counts, parameters, `modified`, instances | `rtIncRef`, `rtDecRef`, `rtSet*`, `rtClear`, `rtCommit` | objects live while they are referenced; a commit takes effect exactly where the interface says |
| Scenes (`api/scene_flat.h`, `device_ispc/scene`) | slots, geometries of the kernel, id tables, lights | `rtSetPrimitive`, `rtCommit`, hits, filters | a hit finds its primitive; each light is sampled once |
| Network device (`network_device.cpp`) | handle pool, counters, swap chains, sockets | the API as messages, `receiveCommand` | servers act on the objects the client means; frames arrive where they belong; calls return |
| Network server (`network_server*.cpp`) | handle table, counters, swap chains, a device | `receive`, `send`, destructor | mirrors the client; leaks nothing |
| COI device (`device_coi`) | handle pool, pipelines, stream buffers, swap chains on host and card | the API as functions on the cards | as for the network device; data is not overwritten before it is read |
| ISPC device (`device_ispc`) | objects without a lock, a scene changed in place | the API | as for scenes |
| Loaders, images, lexers, math, SIMD, shading | none that is shared | sequential computation | (not modelled) |

They interact by calls: the application calls a device under the device's mutex; the
device adds a task of one element per worker and waits for its event; the workers call
back `renderTile` and `finish`; the network device replaces the call by a command on one
socket per server, and a swap by a command and a packet back from each; the COI device
by a function in the pipeline of each card.

Hard to test are the interleavings of workers around the two counters of a task and the
one of an event, memory on the stacks of callers that workers still point to, the loops
around condition variables, tiles that are counted by one thread and trusted by another,
commands and functions on their way while their handle is reused, counts that are
released without a lock, parameters that are buffered, committed and captured at
different times, numbers shifted by empty slots, and calls that wait for an answer that
was never asked for. `PROJECT.json` lists each at its line.

## Modules

### Scheduler

`TaskSchedulerSys` is the core. `queue` is the list of the code, oldest task first;
`elts`, `started`, `completed` and `event` are the fields of `Task`. Tasks are *memory*:
`Tasks` is a set of addresses, `live` the ones that hold a task, and an address is
reused. `owner` says whether a task is a local variable of a caller or frees itself in
its complete function. A caller has one `EventSync`, a local variable, and names it.
`inflight` and `done` are history. `pc` has a label per lock region, atomic instruction
and callback:

| Action | Code |
|---|---|
| `AddInc`, `AddPush`, `AddBroadcast` | `add`: `event->inc()`; the locked insertion; the broadcast after the unlock |
| `Sleep`, `SpuriousWakeup`, `Exit`, `Take` | the locked part of `run` |
| `StartRun`, `RunReturns` | the call of the run function, inside which `AddInc` may add more tasks to the group |
| `Count`, `Complete`, `Dec`, `Trigger` | `--completed`, the complete function, `Event::dec`, `EventSync::trigger` |
| `Open`, `Sync`, `Return` | a caller constructs an event, calls `sync`, and leaves the function |
| `Terminate`, `TerminateBroadcast`, `Join`, `Create` | `destroyThreads` and `createThreads` |

`TaskGroups` is what callers are promised: a group of tasks, each element run once, each
task completed after its elements, and `sync` returning after all of them.
`MCTaskSchedulerSys` has the refinement mapping. `TaskQueueRing` is the array behind
`queue`, with its growth and its wrapping counters, and refines `TaskList`.

### Events and barrier

`EventSync` opens up `signal()` and `wait()`, which the scheduler module takes for single
steps, and shows that the caller may destroy the event right after `wait()`. `Barrier`
is `BarrierSys::wait`: `Arrive` counts a thread and puts it to sleep unless it is the
last, `Open` is the last one resetting the count and broadcasting, `Return` a thread
coming out of the condition variable, woken or of its own accord: `wait` has no loop that
would send it back. `MCSchedulerParts` puts the event, the barrier and the array of the
list side by side, so that one run checks them.

### Frames

`FrameRendering` models the calls that concern frames. Each enters through the mutex of
the device (`Enter`), and workers run `renderTile` (`PickTile`, `RenderTile`,
`FinishTile`, `CountRays`) and `finish` (`Finish`). The task of a job is reduced to its
counters; what the scheduler guarantees about them is proved in the scheduler modules. A
pixel is the sequence of the sample sets it has accumulated, so a tile that is lost,
doubled or taken from an old frame shows. `FrameService` is what an application is
promised: a frame begins and ends, buffers are swapped, and a mapped buffer shows one
whole picture.

`RowInterleave` is the arithmetic of lines: which lines a server or card renders, where
they lie in its memory, how they are merged by the host of several cards, encoded, sent,
counted once more and read, for every pixel format and encoding but JPEG. Its steps are
the rows the client reads from one packet after the other. `MCNetworkFrames` puts it next
to `NetworkDevice`.

### Handles, objects and scenes

`DeviceObjects` has the heap of the single-ray device: textures, materials, meshes,
primitives and scenes refer to each other by address. A handle buffers a parameter and
has a `modified` flag; `Commit` constructs a new object unless the handle is unmodified;
a constructor may throw and leave everything as it was. `SetPrimitive` captures the
shape and material committed at that time; `CommitScene` takes a snapshot of the slots.
Addresses nobody refers to are collected and used again, which is what the counts do.
`SceneApi` says what the interface promises of each call, in terms of values, without
objects, addresses or flags; deletion of a primitive by NULL and `rtClear` of every kind of
handle are among the promises. `ImplementsApi` says that each step of a call is the step
`SceneApi` has for that very call. `LeftOut` names the calls of which this is not true.

`HandleRefs` is how the counts do it. A call is a list of elementary steps, `inc`, `dec`
and `put` for a `Ref`, in the order of the code (the new referent is counted before the
old one is released); `RefDec` to zero deletes the node and appends the release of what
it held. Calls hold the mutex, `IncRef` and `DecRef` do not, and the worker that ends a
frame releases the job's `Ref`s at any moment.

`SceneFlat` builds the flat scene of the single-ray device slot by slot: the kernel
numbers geometries itself, `id0_to_geomID` leads back. `IspcScene` is the scene of the
ISPC device, which is changed in place: `id2handle`, `handle2id`, the collected lights,
the kernel's geometries. The kernel gives a new geometry any number that no other one has,
that of a deleted geometry too. A frame may be rendered at any time, in a scene that is not
committed too. History are `changed`, the slots set since the commit, and `lost`, the slots
whose geometry was deleted in place of another slot's. `MCScenes` states what both scenes
must satisfy.

### Network and cards

`NetworkDevice` has one client and its servers. Commands are appended to a channel per
server; `due` counts those that have been flushed, and a server may execute one earlier,
for the socket flushes when its buffer is full. A picture is the number of commands its
device had executed, so a picture is right only if everything before it was executed, in
order. `means` and `local` are history: the object a handle stands for, and the swap
chains a local device would have. The calls that only set something are `Use`. `NewThrows` is
the call that broadcasts an image or a frame buffer of an unknown type and then throws, as
does every server that reads it. The actions
`Serve...` are the cases of `NetworkServer::receive`; `Disconnect` and `Throw` end in its
destructor. References are those held through handles and swap chains.

`CoiDevice` has the host and its cards. A function is a record in the `pipeline` of a
card, with the objects the application means by the handles it names; `Run(i)` executes
the next one as `coi_device_worker.cpp` does. The host returns a handle to the pool
*before* the release is enqueued; data travels chunk by chunk through one stream buffer
per card, which is refilled when the function that read it has run; a frame is given the
current COI buffer of the host, and the card renders to its own current one. External and
assumed: pipelines are queues, mapping a buffer waits for the functions that use it, and a
buffer destroyed by the host lives until they have run.

## Runs

| Run | Bounds | Shows |
|---|---|---|
| `TaskScheduler` | 2 workers, 1 caller, 2 addresses, 2 elements, 3 tasks a group | the inductive invariant, all safety properties, `sync` and `destroy` return, `TaskGroups` is implemented |
| `SchedulerParts` | 4 workers and the caller; 3 threads meeting 3 times; 2 cells at first, up to 6 tasks, counters of 16 values | no use after destruction, `wait` returns; the barrier leaves nobody behind; `TaskList` is implemented |
| `BarrierWakesUnasked` | 3 threads meeting twice | a thread passes before the others have arrived (a violation, below) |
| `FrameRendering` | 2 workers, 2 callers, 2 tiles, 2 buffers, 3 frames | frames are whole, exposures exact; `FrameService` is implemented; calls return |
| `NetworkFrames` | 2 servers, 1 chain of 3 buffers, 6 calls; up to 18 lines, 4 pixels, 3 servers, 3 cards each, every format and encoding | the client shows the local image; calls return; lines are shared out, packets consumed, rows come back to their lines |
| `NetworkHandles` | 2 servers, 2 handles, 5 calls, picks, calls and servers that throw | handles keep their meaning; references are mirrored; nothing leaks |
| `NetworkPickBlocks` | 2 servers, 3 calls | `rtPick` never returns (a violation, below) |
| `CoiDevice` | 2 cards, 2 handles, 2 buffers, 2 chunks, 5 calls | handles keep their meaning; data arrives; the local image is shown; calls return |
| `DeviceObjects` | one handle of each kind, 2 slots, 5 calls that are not commits | unmodified handles are current; the calls do what `SceneApi` says of them |
| `HandleRefs` | 2 threads and a worker, 2 handles, the scene, 5 objects | nothing is used after it was deleted, nothing leaks |
| `Scenes` | 4 slots (single-ray); 2 slots, 3 geometry numbers (ISPC) | hits find their primitives, lights are sampled once, filters sit where they belong |
| `IspcFrames` | 2 slots, 2 geometry numbers | a frame samples a deleted light (a violation, below) |

Why the bounds are enough.

- *Scheduler.* Two elements separate the first, the last and the only one of a task; two
  workers let one take the last element while the other counts its own down, or run a task
  constructed at the same address; three tasks in two addresses force reuse. Three workers,
  and two callers, were tried (all safety properties hold) and left out for time; the proofs
  cover any number.
- *Ring.* It doubles twice, and 16 values let `begin` and `end` both wrap; the width only
  has to be a multiple of every capacity, as 2^64 is.
- *Barrier.* In three rounds a thread can be one round ahead of one still asleep, and a
  reset count is used again.
- *Frames.* Two tiles and two workers already give a worker without a tile, one with two,
  and one that finishes after the last tile is counted; three frames give an exposure, its
  continuation and a reset.
- *Network.* Six calls suffice for a frame to travel through three buffers to the screen
  and for the read counter, which begins at `(size_t)-1`, to wrap; `Width` is 16, congruent
  to 2^64 modulo every depth up to 5. Five calls create, share, release and recreate an
  object while commands to it are pending.
- *Cards.* Five calls release a handle and create an object under it while a function that
  names the old one is queued; two chunks refill the stream buffer; two cards may be as far
  apart as the host allows.
- *Rows.* Heights up to 18 and three servers cover every remainder of a group of four
  lines, a server without rows and two rounds; widths up to 4 every padding of a row.
- *Objects.* Five calls set, clear, commit, capture in a slot, and commit again what the
  slot refers to, in every order; two slots grow and share a primitive.
- *Counts.* The object of a shape is replaced while a slot, a scene and a job hold the old
  one, and the handle itself is released by the other thread.
- *Scenes.* Four slots have two gaps before a shape; in two ISPC slots with three numbers a
  slot loses its shape and its stale entry meets the number given to the other slot.

Deadlock is checked, except in `NetworkHandles` and `NetworkPickBlocks`, where a client
whose server has thrown, or that waits for an answer nobody will send, really stops, in
`DeviceObjects`, `Scenes` and `IspcFrames`, where a null primitive crashes the device, and in
`BarrierWakesUnasked`: once a thread has passed early, the others wait for calls that may
never come.

**Fairness.** Threads that can run do run: weak fairness of every worker and of a caller
inside a call, never of the decision to make a call. A run function is assumed to return
and a caller with an open group to call `sync`. In `EventSync` the lock of the signaling
thread has strong fairness, for the caller, woken spuriously again and again, might take
the mutex each time. The barrier has no fairness: with early returns it need not open. In
`NetworkDevice` only flushed commands are certain to be executed, or to throw. A card
executes what is enqueued, and a host call goes on when what it waits for has happened.

`SyncReturns` holds for one caller at a time. With two, the workers, which always take the
newest task, can run the tasks of one caller for ever. The single-ray device holds its
mutex while it waits, so this program has one group open at a time.

**The violations.** Three runs end in a counterexample, and `PROJECT.json` has a finding for
each.

- `rtPick` of the network device sends its command to the first server and then reads a
  packet from every server (`network_device.cpp:907-917`). With two servers the call waits
  for a packet that is never sent. `NetworkPickBlocks` shows it; with one server the call
  returns.
- `BarrierSys::wait` has no loop around its condition variable (`barrier.h:46`), and POSIX
  lets a condition variable wake a thread that nobody signaled. `BarrierWakesUnasked` shows
  such a thread pass before the others arrive. What remains true of the barrier is
  `NobodyIsLeftBehind`.
- `rtSetPrimitive` of the ISPC device deletes the light of the primitive it replaces, and the
  list of lights is only made anew by the commit of the scene; `rtRenderFrame` does not ask
  for it (`scene.ispc:87`, `ispc_device.cpp:605-616`). `IspcFrames` shows a frame that samples
  the deleted light. What remains true is `FrameLightsAreCurrent`.

**Where the properties make an exception.** These are places where the code does less than
one might expect; each is a named condition of the model, so that the rest is checked.

- Setting a slot to NULL deletes nothing: both devices then read the shape of the null
  primitive (`singleray_device.cpp:324`, `ispc_device.cpp`). `SetNullPrimitive` ends the
  behaviour. `SceneApi` has the deletion the interface promises (`device.h:200-201`);
  `ImplementsApi` leaves the step out.
- `rtClear` does nothing for handles other than triangle meshes (`handle.h:37`), where the
  interface promises that all parameters are cleared (`device.h:293-295`). `ClearParms` leaves
  the other kinds alone, `SceneApi` clears them all, and `ImplementsApi` leaves the clears of
  textures and materials out.
- The shadow filter of the flat scene is set by slot, where the kernel expects its own number
  of the geometry; `FiltersOfDenseScenes` is about scenes in which the two agree.
- An ISPC slot whose primitive was replaced by a light without a shape keeps the number of
  its old geometry, and when it is set again the kernel is told to delete that number, which
  another slot may have by then (`scene.ispc:86`). That slot's shape cannot be hit any more.
  `HitFindsInstance` excepts such slots, which are in `lost`, until they are set again.
  Whether the kernel does give numbers again is up to the Embree library; nothing in the
  repository says that it does not. The ISPC scene has one thread of the application.
- Several servers with several cards each would interleave lines twice (`OneLevel` in
  `FrameRestored`), and an RGB8 frame sent as RGB8 loses the padding of its rows
  (`NoPadding`).
- A server that throws leaves the loop without closing the socket; the client waits.

**Mirrored offsets.** `ShowsLocalImage` of the network device does not depend on where
`readID` begins: whatever the offset, a buffer is sent after it was last rendered into and
before it becomes current at the client. It does depend on the counter being advanced once
per swap.

## Proofs

The assumptions are the named ones of the modules: sets are finite and disjoint, bounds
are natural numbers, and the constants that stand for a null pointer or for nothing
(`Null`, `Nobody`, `None`, `Unfinished`) are not among the values they stand apart from.
None of the properties is inductive; every proof goes through an invariant, with a lemma
per part or per action.

`TaskSchedulerSysProofs` proves `Spec => []IInv`, and from it every safety property of the
scheduler, for all finite sets of workers and addresses and any set of callers.
`CompleteIsLast`, say, needs to know that `completed` is the number of elements not yet
counted, hence which workers hold a task and in which phase; that in turn needs `RunOnce`,
so that no element is counted twice, and the place of a task in the list, so that no
worker takes an element of a task that is gone. `IInv` is the conjunction of such parts:
types; *control*, relating `pc` to the locals of a thread; *queue*, a task is listed
exactly while elements of it are not started, and once; *count*, `completed` and
`activeTasks` as cardinalities of sets of elements, tasks and threads; and *event*, who
may trigger an event and when it is signaled. Its second half is the refinement: under the
mapping of `MCTaskSchedulerSys` the initial state is one of `TaskGroups`, and every step a
step of one group or of none. `Take` is none, for an element moves from the list to its
worker; `RunReturns` is `RunElement` because `RunOnce` says that no other worker and no
position of the list has the same element; `Complete` and `Return` find their groups empty
by the invariant. The fairness of `TaskGroups` is left to the run.

`SysProofs` has the parts the scheduler is made of. For the event it counts the threads
that owe a `dec` to an event, so that a single thread is between the last `dec` and the
unlock, and ties the flag and the mutex to it. For the barrier it shows that every sleeper
belongs to the round that is open and that there are no more sleepers than calls counted,
for any number of threads and rounds, whoever is woken unasked. For the array of the list, `TaskQueueRing`, it needs that the size divides the number of
values of a counter, so that masking gives the same cell whether a counter has wrapped or
not. It stays so when the size is doubled because the width is a power of two, of which
the proof uses (and `PowerOfTwo` says) that it has no odd divisor but one. The rounds of
the copy loop have a closed form, `Copied`, that satisfies the recursion of `Doubled`;
cells of the list are distinct because it is not longer than the array. So a worker finds
the newest task (`CellsAreOwn`), and the array implements `TaskList`, for any sizes.

`FrameRenderingProofs` proves `FrameInv`: calls hold the mutex; the counter of the task is
what is not started plus the workers that have not counted, so the one that finishes is
alone; the tile counter is bounded by the elements that remain, and no tile is with two
workers; `remainingTiles` is the number of tiles not picked or with a worker; a tile has
accumulated the whole exposure, or the one before this frame, depending on whether it is
rendered. `NoTornFrame`, `ExposureExact` and `JobOutlivesWorkers` follow, and the whole
refinement of `FrameService` (which states no fairness), for any number of workers,
callers, tiles and buffers.

The last part of `NetworkProofs`, on `RowInterleave`, is arithmetic: the number of active
lines below an active line is the row in which `raster2buffer` stores it, so the client,
which counts rows, takes every line from where it is, for every height, number of servers
and of cards; and every line is active for one card. The invariant follows the client's
loop through the packets: how many rows it has taken of the one at hand, and which lines
of the image show what was rendered for them.

`ScenesProofs` proves, for any number of slots, that the numbers of the kernel lead back
and that all lights are found. For the single-ray device the table entry of a geometry is
its slot and the numbers are consecutive. For the ISPC device the invariant is about the
geometries that exist: each has an entry in `handle2id` that leads to the slot whose instance
has its number, and the entry of that slot in `id2handle` leads back. A number is only given
again when its geometry is gone, so a new geometry overwrites no entry that is in use; a
stale entry of a slot can take the geometry of one other slot, and that slot is in `lost`.
The loop of `Scene__commit` is one step of the model, so what it collects is an induction on
its rounds; `PassedOn` derives it from the pigeonhole theorem. With lights of their own for
all instances, the list is one of all existing lights, each once, at the commit; afterwards
it still has those of the slots that were not set.

`NetworkProofs`, on `NetworkDevice`, and `CoiProofs` have one idea. A server or card is
behind, and what it has is not what the application holds; but the commands on their way,
applied one after the other to what it has, lead to exactly that. So the invariant says of
every prefix of the pending commands what the server will have after it, and that the next
command finds its objects there; executing a command removes a prefix of one, a call of
the application extends the last. Reference counts are tied to it: a server counts the
handles and chains that lead to an object at that point, and its destructor releases
those. For the cards two more things are followed through the pipeline: the parts of a
data object, of which the host writes the next only when the last has been read, so that
the stream buffer holds what its only reader expects; and the frames on their way to a
buffer, the last of which decides what the buffer will show. The theorems hold for any
number of servers or cards, handles, buffers, chunks and calls.

`ImagesAreLocal` of `NetworkProofs` is about four counts of the same swaps: that of a local
device, that of the client, and on each server that of its device and `readID`. The
commands on their way lead from the chain of a server to the chain a local device has now
(`Follows`), and `readID` is then one behind it (`Ordered`). The client has all the rows of
that chain but those of the buffer drawn to and of the one drawn last (`UpToDate`); during a
swap it lacks one buffer more until the packet arrives (`Awaiting`, `Complete`), and the
packet on its way is of that buffer (`OnItsWay`). So when every server has answered the new
current buffer is complete, also when the chain has one or two buffers, and when a server
ends after it has sent its packet (`Stopped`). `readID` is advanced modulo the width of a
`size_t`, and divided by the number of buffers, so its order breaks where it wraps unless
one divides the other: the theorem assumes that the calls are fewer than a `size_t` has
values (`WidthAssumption`), which 64 bits grant any application. `Width` is 16 in the runs.

`DeviceObjectsProofs` has two halves. The invariant says that every address held by a
handle or an object is that of a live object of the right kind, that exactly what is
reachable is kept, and that an unmodified handle has an object made from the parameter it
has now. Objects refer to objects of lower rank, so three steps reach everything, and
collecting is closed. A new object gets an address nobody holds, because everything that
is held is kept. On top of it is the refinement of `SceneApi`: an address that is in use
before and after a call stands for the same value, in heaps whose objects may otherwise
differ, so a call changes only what the abstract call says it changes. `LeastNumber`, a
fact about natural numbers that would take an induction, is derived from the pigeonhole
theorem of the library.

`HandleRefsProofs` balances every count at every step: the count of a node and the `inc`
steps still to come on it equal the references there are (the root, those of the
application, the `Ref`s no pending `put` is about to fill, the job) plus the `dec`, `put`
and `start` steps that carry one. A list of steps is `Well` if after each of its suffixes
no node lacks more `inc` than it has releases, so a count reaches zero only when nothing
is left that uses the node; that, and who keeps a node while a call is under way (`Kept`:
an application reference of the caller, a slot of the scene, or a handle of the caller
that holds it), is what releases without the mutex and the worker at the end of a frame
cannot break. A new object is the one node that lives with a count of zero, until its
first `inc`. `NoUseAfterDelete`, `UsersKeepAlive` and `CountsAreExact` follow, for any
number of threads, objects and references. The cascade of a deletion needs no induction:
it is a list of steps like any other. Its one assumption on constants besides distinct
names is that `None`, the null `Ref`, is not itself a list of nodes, which is how the
model tells a deleted node from one that holds nothing.

What the proofs changed in the models: a `CASE` of `Unit` in `RowInterleave` whose
conditions overlapped is an `IF` now, in the order of the code; the type of the handle
counter in `CoiDevice` was too narrow (nothing bounds it but the calls); `TypeOK` of
`NetworkDevice` names the swap chains that exist; `DeviceObjects` says which values a null
pointer differs from; and `IspcScene` collects the lights slot by slot, as the loop does,
where it filtered the sequence of the slots. `HandleRefs` counts the referers of a node as
sets of places (`Owned`, `Refs`) instead of sums. `TaskQueueRing` says what a power of two
is, and that a list is shorter than a counter has values; `NetworkDevice` says the latter of
calls.

Every safety invariant, action property and refinement the runs check has a theorem. Only
model-checked is liveness (fairness and `ENABLED` are outside the prover): calls return,
groups of tasks finish, and with it the fairness of `TaskGroups`.

## Not modelled

The numerical code: shading, sampling, geometry, SIMD, images, tone mapping. Parsers, scene
loaders and file formats, and the application's command line and display loop, which are
sequential. The two-level scene, disabled in the code, and the acceleration structures of
the Embree library. `TaskSchedulerMIC`, whose creation is disabled by `#if 0`, and
`EventScheduleTask`, which no device uses. The condition variable for old Windows. The byte
buffers of the sockets. JPEG, which the server offers and the client cannot read. Start-up of the COI
engine and processes, `loadLibrary`, and data read from files. Cameras, lights, tone mappers
and renderers as handles: they go through the same `ConstructorHandle` and `CreateHandle` as
the kinds of `DeviceObjects`, with other parameters. A second commit of the renderer, which
starts its sample sets anew. The vendored libraries, tools and models.

## Plan

1. `SocketBuffer`: the byte buffers of `network.cpp`, refining the channels of
   `NetworkDevice`.
2. `EventChain`: `EventScheduleTask` and events that hold another event back (`other`), as
   soon as a device uses them.
3. A renderer that is committed again in `FrameRendering`, and the handles of the ISPC
   device, which have no `modified` flag, in `DeviceObjects`.
