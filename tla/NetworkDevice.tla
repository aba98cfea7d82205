---------------------------- MODULE NetworkDevice ----------------------------
(***************************************************************************)
(* The network device: a client that turns every call of the API into a    *)
(* command for each of its rendering servers, and servers that execute the *)
(* commands on a device of their own and send back frames and pick results.*)
(*                                                                         *)
(* One thread of the application makes the calls, with handles it holds a  *)
(* reference to.  A step is one call up to the point where it waits, one   *)
(* packet received, or one command executed.  The picture a render call    *)
(* produces depends on all the calls before it: it is represented by the   *)
(* number of commands the device has executed.  An object has the number   *)
(* of the call that created it.  Every server renders rows of its own      *)
(* (see RowInterleave), so an image of the client has one picture per      *)
(* server.                                                                 *)
(***************************************************************************)
EXTENDS Integers, Sequences, FiniteSets, FiniteSetsExt

CONSTANTS
  NumServers,
  Kinds,      (* the kinds of objects the application creates               *)
  Depth,      (* number of buffers of a swap chain                          *)
  Width,      (* number of values of a size_t                               *)
  CanPick,    (* the application calls rtPick                               *)
  CanFail,    (* commands may throw, on a server or in the client           *)
  MaxHandles, (* bound: handles in use at the same time                     *)
  MaxCalls,   (* bound: calls the application makes                         *)
  None

ASSUME NetworkAssumption ==
  /\ NumServers \in Nat \ {0} /\ Depth \in Nat \ {0} /\ Width \in Nat \ {0}
  /\ Kinds \subseteq {"object", "framebuffer"}
  /\ CanPick \in BOOLEAN /\ CanFail \in BOOLEAN
  /\ MaxHandles \in Nat /\ MaxCalls \in Nat

Servers == 0 .. NumServers-1
Handles == 1 .. MaxHandles
Objects == 1 .. MaxCalls
Buffers == 0 .. Depth-1
Pictures == 0 .. MaxCalls

\* The swap chains of the client and of the servers.
ClientChains == [buf : Buffers, image : [Servers -> [Buffers -> Pictures]]]
ServerChains == [buf : Buffers, image : [Buffers -> Pictures], readID : 0 .. Width-1]

\* Fewer calls are made than a size_t has values, so readID, which begins at the last of
\* them, does not come back to it.
ASSUME WidthAssumption == MaxCalls < Width

ASSUME NoneAssumption == None \notin Objects \cup ClientChains \cup ServerChains

VARIABLES
  calls,                       (* bound: calls made so far                  *)
  pool, nextHandle, counters,  (* NetworkDevice: allocation of handles      *)
  buffers,                     (* NetworkDevice: the swap chains            *)
  pc, recv, fb,                (* NetworkDevice: the call that waits        *)
  means,                       (* history: the object a handle stands for   *)
  local,                       (* history: the chains of a local device     *)
  chan,                        (* commands written to a server's socket     *)
  due,                         (* how many of them have surely been flushed *)
  back,                        (* packets written to the client's socket    *)
  executed,                    (* commands a server has executed            *)
  handles, numRefs, swapChains,(* NetworkServer: handle bookkeeping         *)
  refs,                        (* references of the objects of its device   *)
  serving, failed              (* whether NetworkServer exists; or threw    *)

handleVars == <<pool, nextHandle, counters, means>>
callVars == <<pc, recv, fb>>
clientVars == <<calls, handleVars, buffers, callVars, local>>
serverVars == <<executed, handles, numRefs, swapChains, refs, serving, failed>>
vars == <<clientVars, chan, due, back, serverVars>>

Blank == [b \in Buffers |-> 0]

Init ==
  /\ calls = 0
  /\ pool = <<>> /\ nextHandle = 1
  /\ counters = [h \in Handles |-> 0]
  /\ means = [h \in Handles |-> None]
  /\ buffers = [h \in Handles |-> None]
  /\ local = [h \in Handles |-> None]
  /\ pc = "idle" /\ recv = 0 /\ fb = None
  /\ chan = [i \in Servers |-> <<>>] /\ back = [i \in Servers |-> <<>>]
  /\ due = [i \in Servers |-> 0]
  /\ executed = [i \in Servers |-> 0]
  /\ handles = [i \in Servers |-> [h \in Handles |-> None]]
  /\ numRefs = [i \in Servers |-> [h \in Handles |-> 0]]
  /\ swapChains = [i \in Servers |-> [h \in Handles |-> None]]
  /\ refs = [i \in Servers |-> [k \in Objects |-> 0]]
  /\ serving = [i \in Servers |-> TRUE]
  /\ failed = [i \in Servers |-> FALSE]

-----------------------------------------------------------------------------
(* The client.                                                             *)

\* The handles the application has: a call that throws returns none.
Held == {h \in Handles : counters[h] > 0 /\ means[h] # None}
Chains == {h \in Held : buffers[h] # None}

\* The command of a call, with the object the handle stands for as history.
Command(c, h) == [cmd |-> c, id |-> h, obj |-> means[h]]

\* Mutant of Flushed: the commands stay in the buffer of the socket.
NotFlushed(i) == due[i]

\* flush() sends everything written so far.
Flushed(i) == Len(chan[i]) + 1

Broadcast(m) == chan' = [i \in Servers |-> Append(chan[i], m)]
Flush == due' = [i \in Servers |-> Flushed(i)]

Call == pc = "idle" /\ calls < MaxCalls /\ calls' = calls + 1

\* allocHandle(): the handle released last is used again first.
AllocHandle ==
  IF pool = <<>>
  THEN [id |-> nextHandle, pool |-> <<>>, next |-> nextHandle + 1]
  ELSE [id |-> pool[Len(pool)], pool |-> SubSeq(pool, 1, Len(pool) - 1), next |-> nextHandle]

\* rtNewCamera and the other calls that create an object other than a frame buffer,
\* some of which flush, and rtNewFrameBuffer, which does.
New(kind) ==
  LET a == AllocHandle
      h == a.id
      isChain == kind = "framebuffer"
  IN  /\ Call
      /\ h \in Handles
      /\ pool' = a.pool /\ nextHandle' = a.next
      /\ counters' = [counters EXCEPT ![h] = 1]
      /\ means' = [means EXCEPT ![h] = calls + 1]
      /\ Broadcast([cmd |-> "new", id |-> h, kind |-> kind])
      /\ Flush \/ (~isChain /\ UNCHANGED due)
      /\ buffers' = IF isChain
                    THEN [buffers EXCEPT ![h] =
                            [buf |-> 0, image |-> [i \in Servers |-> Blank]]]
                    ELSE buffers
      /\ local' = IF isChain THEN [local EXCEPT ![h] = [buf |-> 0, image |-> Blank]]
                             ELSE local
      /\ UNCHANGED <<callVars, back, serverVars>>

\* rtNewImage and rtNewFrameBuffer throw for a type they do not know when the command
\* is broadcast already, that of a frame buffer flushed too.  The handle is lost.
NewThrows ==
  LET a == AllocHandle
      h == a.id
  IN  /\ CanFail
      /\ Call
      /\ h \in Handles
      /\ pool' = a.pool /\ nextHandle' = a.next
      /\ counters' = [counters EXCEPT ![h] = 1]
      /\ means' = [means EXCEPT ![h] = None]
      /\ Broadcast([cmd |-> "new", id |-> h, kind |-> "unknown"])
      /\ Flush \/ UNCHANGED due
      /\ UNCHANGED <<buffers, callVars, local, back, serverVars>>

IncRef(h) ==
  /\ Call /\ h \in Held
  /\ Broadcast(Command("incref", h))
  /\ counters' = [counters EXCEPT ![h] = @ + 1]
  /\ UNCHANGED <<pool, nextHandle, means, buffers, callVars, local, due, back, serverVars>>

Freed(h) == counters[h] = 1

DecRef(h) ==
  /\ Call /\ h \in Held
  /\ Broadcast(Command("decref", h))
  /\ counters' = [counters EXCEPT ![h] = @ - 1]
  /\ pool' = IF Freed(h) THEN Append(pool, h) ELSE pool
  /\ buffers' = IF Freed(h) THEN [buffers EXCEPT ![h] = None] ELSE buffers
  /\ local' = IF Freed(h) THEN [local EXCEPT ![h] = None] ELSE local
  /\ UNCHANGED <<nextHandle, means, callVars, due, back, serverVars>>

\* The setters and rtClear do not flush, rtCommit and rtSetPrimitive do.
Use(h) ==
  /\ Call /\ h \in Held
  /\ Broadcast(Command("use", h))
  /\ Flush \/ UNCHANGED due
  /\ UNCHANGED <<handleVars, buffers, callVars, local, back, serverVars>>

\* rtRenderFrame does not wait for the frame.
RenderFrame(h) ==
  /\ Call /\ h \in Chains
  /\ Broadcast(Command("render", h))
  /\ Flush
  /\ local' = [local EXCEPT ![h].image[local[h].buf] = calls + 1]
  /\ UNCHANGED <<handleVars, buffers, callVars, back, serverVars>>

SwapBuffers(h) ==
  /\ Call /\ h \in Chains
  /\ Broadcast(Command("swap", h))
  /\ Flush
  /\ local' = [local EXCEPT ![h].buf = (@ + 1) % Depth]
  /\ pc' = "swap" /\ recv' = 0 /\ fb' = h
  /\ UNCHANGED <<handleVars, buffers, back, serverVars>>

\* rtPick asks the first server, and waits for every server.
Pick(h) ==
  /\ CanPick
  /\ Call /\ h \in Held
  /\ chan' = [chan EXCEPT ![0] = Append(@, Command("pick", h))]
  /\ due' = [due EXCEPT ![0] = Flushed(0)]
  /\ pc' = "pick" /\ recv' = 0
  /\ UNCHANGED <<fb, handleVars, buffers, local, back, serverVars>>

\* receiveCommand(recv): a frame goes to the buffer the packet names.
ReceiveCommand ==
  LET i == recv
      m == Head(back[i])
  IN  /\ pc \in {"swap", "pick"} /\ i < NumServers /\ back[i] # <<>>
      /\ back' = [back EXCEPT ![i] = Tail(@)]
      /\ buffers' = IF m.cmd = "frame"
                    THEN [buffers EXCEPT ![m.id].image[i][m.buf] = m.picture]
                    ELSE buffers
      /\ recv' = recv + 1
      /\ UNCHANGED <<calls, handleVars, pc, fb, local, chan, due, serverVars>>

\* Every server has answered.
Return ==
  /\ pc \in {"swap", "pick"} /\ recv = NumServers
  /\ buffers' = IF pc = "swap" THEN [buffers EXCEPT ![fb].buf = (@ + 1) % Depth]
                               ELSE buffers
  /\ pc' = "idle" /\ recv' = 0 /\ fb' = None
  /\ UNCHANGED <<calls, handleVars, local, chan, due, back, serverVars>>

\* The destructor closes the sockets, and does not flush them.
Close ==
  /\ pc = "idle"
  /\ pc' = "closed"
  /\ UNCHANGED <<calls, handleVars, buffers, recv, fb, local, chan, due, back, serverVars>>

-----------------------------------------------------------------------------
(* A server.                                                               *)

\* The references of the device of server i, those of object k changed by d.
Adjusted(i, k, d) == [o \in Objects |-> refs[i][o] + IF o = k THEN d ELSE 0]

\* Mutant of NextRead: nextReadBuffer() is not called.
SameRead(r) == r

\* readID is advanced modulo the width of a size_t, not the depth of the chain.
NextRead(r) == (r + 1) % Width

\* readID begins one before zero.
FirstRead == Width - 1

\* set(); a SwapChain takes a reference of its own.  Servers do not know the types the
\* client does not know, and throw.
ServeNew(i, m) ==
  LET isChain == m.kind = "framebuffer"
      k == executed[i] + 1
  IN  /\ m.cmd = "new" /\ m.kind # "unknown"
      /\ handles' = [handles EXCEPT ![i][m.id] = k]
      /\ numRefs' = [numRefs EXCEPT ![i][m.id] = 1]
      /\ swapChains' = [swapChains EXCEPT ![i][m.id] =
           IF isChain THEN [buf |-> 0, image |-> Blank, readID |-> FirstRead] ELSE None]
      /\ refs' = [refs EXCEPT ![i] = Adjusted(i, k, IF isChain THEN 2 ELSE 1)]
      /\ UNCHANGED back

ServeIncRef(i, m) ==
  /\ m.cmd = "incref"
  /\ refs' = [refs EXCEPT ![i] = Adjusted(i, handles[i][m.id], 1)]
  /\ numRefs' = [numRefs EXCEPT ![i][m.id] = @ + 1]
  /\ UNCHANGED <<handles, swapChains, back>>

\* Mutant of DropsHandle: off by one.
DropsHandleEarly(i, h) == numRefs[i][h] <= 2

DropsHandle(i, h) == numRefs[i][h] = 1

\* Mutant of DropsChain: the swap chain is kept.
KeepsChain(i, h) == FALSE

DropsChain(i, h) == DropsHandle(i, h) /\ swapChains[i][h] # None

ServeDecRef(i, m) ==
  LET h == m.id IN
  /\ m.cmd = "decref"
  /\ refs' = [refs EXCEPT ![i] =
       Adjusted(i, handles[i][h], IF DropsChain(i, h) THEN -2 ELSE -1)]
  /\ numRefs' = [numRefs EXCEPT ![i][h] = @ - 1]
  /\ handles' = IF DropsHandle(i, h) THEN [handles EXCEPT ![i][h] = None] ELSE handles
  /\ swapChains' = IF DropsChain(i, h) THEN [swapChains EXCEPT ![i][h] = None] ELSE swapChains
  /\ UNCHANGED back

ServeUse(i, m) ==
  /\ m.cmd = "use"
  /\ UNCHANGED <<handles, numRefs, swapChains, refs, back>>

ServeRender(i, m) ==
  /\ m.cmd = "render"
  /\ swapChains' = [swapChains EXCEPT ![i][m.id].image[swapChains[i][m.id].buf] =
                      executed[i] + 1]
  /\ UNCHANGED <<handles, numRefs, refs, back>>

\* The device swaps, then send() maps and sends the buffer to read from.
ServeSwap(i, m) ==
  LET chain == swapChains[i][m.id]
      swapID == chain.readID % Depth
  IN  /\ m.cmd = "swap"
      /\ swapChains' = [swapChains EXCEPT ![i][m.id] =
           [chain EXCEPT !.buf = (@ + 1) % Depth, !.readID = NextRead(@)]]
      /\ back' = [back EXCEPT ![i] =
           Append(@, [cmd |-> "frame", id |-> m.id, buf |-> swapID,
                      picture |-> chain.image[swapID]])]
      /\ UNCHANGED <<handles, numRefs, refs>>

ServePick(i, m) ==
  /\ m.cmd = "pick"
  /\ back' = [back EXCEPT ![i] = Append(@, [cmd |-> "pick result"])]
  /\ UNCHANGED <<handles, numRefs, swapChains, refs>>

\* receive(): the next command.  The socket may have been flushed because its
\* buffer was full.
Serve(i) ==
  LET m == Head(chan[i]) IN
  /\ serving[i] /\ chan[i] # <<>>
  /\ \/ ServeNew(i, m) \/ ServeIncRef(i, m) \/ ServeDecRef(i, m) \/ ServeUse(i, m)
     \/ ServeRender(i, m) \/ ServeSwap(i, m) \/ ServePick(i, m)
  /\ chan' = [chan EXCEPT ![i] = Tail(@)]
  /\ due' = [due EXCEPT ![i] = IF @ = 0 THEN 0 ELSE @ - 1]
  /\ executed' = [executed EXCEPT ![i] = @ + 1]
  /\ UNCHANGED <<clientVars, serving, failed>>

\* Mutant of ChainRefs: the swap chains are not cleared.
ForgottenChain(i, h) == 0

\* The destructor releases every handle as often as it was referenced, then the
\* swap chains.
ChainRefs(i, h) == IF swapChains[i][h] # None THEN 1 ELSE 0

Owned(i, k) ==
  MapThenSumSet(LAMBDA h : numRefs[i][h] + ChainRefs(i, h),
                {h \in Handles : handles[i][h] = k})

Destroy(i) ==
  /\ refs' = [refs EXCEPT ![i] = [k \in Objects |-> @[k] - Owned(i, k)]]
  /\ handles' = [handles EXCEPT ![i] = [h \in Handles |-> None]]
  /\ numRefs' = [numRefs EXCEPT ![i] = [h \in Handles |-> 0]]
  /\ swapChains' = [swapChains EXCEPT ![i] = [h \in Handles |-> None]]
  /\ serving' = [serving EXCEPT ![i] = FALSE]
  /\ UNCHANGED <<clientVars, chan, due, back, executed>>

\* The client has closed the connection and everything sent has been read.
Disconnect(i) ==
  /\ serving[i] /\ pc = "closed" /\ due[i] = 0
  /\ Destroy(i)
  /\ UNCHANGED failed

\* A command throws.  The socket of the client is not closed.
Throw(i) ==
  /\ CanFail /\ serving[i] /\ chan[i] # <<>>
  /\ Destroy(i)
  /\ failed' = [failed EXCEPT ![i] = TRUE]

-----------------------------------------------------------------------------
ClientCall ==
  \/ NewThrows \/ \E kind \in Kinds : New(kind)
  \/ \E h \in Handles : IncRef(h) \/ DecRef(h) \/ Use(h)
  \/ \E h \in Handles : RenderFrame(h) \/ SwapBuffers(h) \/ Pick(h)
  \/ Close

Terminated == pc = "closed" /\ (\A i \in Servers : ~serving[i]) /\ UNCHANGED vars

Next ==
  \/ ClientCall \/ ReceiveCommand \/ Return
  \/ \E i \in Servers : Serve(i) \/ Disconnect(i) \/ Throw(i)
  \/ Terminated

\* What has been flushed arrives and is executed; the application need not make
\* calls.
Fairness ==
  /\ WF_vars(ReceiveCommand) /\ WF_vars(Return)
  /\ \A i \in Servers : WF_vars(due[i] > 0 /\ (Serve(i) \/ Throw(i))) /\ WF_vars(Disconnect(i))

Spec == Init /\ [][Next]_vars /\ Fairness

-----------------------------------------------------------------------------
TypeOK ==
  /\ calls \in 0 .. MaxCalls
  /\ pool \in Seq(Handles) /\ Len(pool) < nextHandle
  /\ nextHandle \in 1 .. MaxHandles + 1
  /\ counters \in [Handles -> Nat]
  /\ means \in [Handles -> Objects \cup {None}]
  /\ buffers \in [Handles -> ClientChains \cup {None}]
  /\ pc \in {"idle", "swap", "pick", "closed"} /\ recv \in 0 .. NumServers
  /\ \A i \in Servers : due[i] \in 0 .. Len(chan[i])
  /\ executed \in [Servers -> 0 .. MaxCalls]
  /\ handles \in [Servers -> [Handles -> Objects \cup {None}]]
  /\ numRefs \in [Servers -> [Handles -> Nat]]
  /\ swapChains \in [Servers -> [Handles -> ServerChains \cup {None}]]
  /\ refs \in [Servers -> [Objects -> Nat]]
  /\ serving \in [Servers -> BOOLEAN] /\ failed \in [Servers -> BOOLEAN]

\* Every command finds, under the handle it names, the object the application
\* meant when it made the call, alive: also when the handle was released and
\* given to another object while earlier commands were still on their way.
HandlesMeanTheSame ==
  \A i \in Servers : serving[i] /\ chan[i] # <<>> =>
    LET m == Head(chan[i]) IN
    m.cmd # "new" => handles[i][m.id] = m.obj /\ refs[i][m.obj] > 0

\* A server that has executed everything holds the objects the application has
\* references to, and has freed all the others.
ServersMirrorClient ==
  /\ TypeOK
  /\ \A i \in Servers : serving[i] /\ chan[i] = <<>> =>
       {k \in Objects : refs[i][k] > 0} = {means[h] : h \in Held}

\* Whatever the application forgot to release, and wherever in the commands a
\* connection ends, the destructor of the server releases all objects.
DestructorReleasesAll ==
  \A i \in Servers : ~serving[i] => \A k \in Objects : refs[i][k] = 0

\* When rtSwapBuffers returns, the current buffer shows, in the rows of every
\* server, what the current buffer of a local device would show: the chain of the
\* client, the chains of the devices, and the buffer each server reads from stay
\* in step.
ShowsLocalImage ==
  [][pc = "swap" /\ pc' = "idle" =>
       LET b == local[fb].buf IN
       /\ buffers'[fb].buf = b
       /\ \A i \in Servers : buffers'[fb].image[i][b] = local[fb].image[b]]_vars

\* A call that waits for the servers returns, unless a server has thrown.
CallsReturn ==
  pc \in {"swap", "pick"} ~> (pc = "idle" \/ \E i \in Servers : failed[i])

\* "wait for pick result": rtPick gets the result and returns, without a server
\* having thrown.  It does with one server; with more it goes on to wait for the
\* results of servers that were not asked.
PickReturns == pc = "pick" ~> (pc = "idle" \/ \E i \in Servers : failed[i])
=============================================================================
