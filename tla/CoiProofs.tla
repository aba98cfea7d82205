------------------------------ MODULE CoiProofs ------------------------------
(***************************************************************************)
(* The cards of a COI device do what the application meant, with the       *)
(* objects and buffers it meant: for any number of cards, handles, calls,  *)
(* buffers and chunks.                                                     *)
(***************************************************************************)
EXTENDS CoiDevice, FiniteSetTheorems, SequenceTheorems, TLAPS

USE CoiAssumption

-----------------------------------------------------------------------------
(* Functions on their way.                                                 *)

Parts == (Objects \X Chunks) \cup {None}
Contents == [Chunks -> Parts]
Full(k) == [c \in Chunks |-> <<k, c>>]

Creators == {"rtNew", "rtNewFrameBuffer", "rtNewDataEnd"}

Functions ==
  {m \in [fn : Creators \cup {"rtNewDataStart", "rtNewDataSet", "rtDecRef", "rtSet",
                              "rtSetReference", "rtPick", "rtRenderFrame", "rtSwapBuffers"},
          id : Handles \cup {0}, obj : Objects \cup {None}, buf : Buffers, n : Nat,
          args : SUBSET (Handles \X Objects)] :
     /\ m.fn \in Creators => m.id \in Handles /\ m.obj \in Objects
     /\ m.fn \in {"rtDecRef", "rtRenderFrame", "rtSwapBuffers"} =>
          m.id \in Handles /\ \E k \in Objects : m.args = {<<m.id, k>>}
     /\ m.fn = "rtNewDataSet" => m.n \in Chunks
     /\ m.fn = "rtRenderFrame" => m.n \in Objects}

\* What a card knows: the objects of its handles, those that are alive, the
\* current buffers, and the data object it is receiving.
CardStates ==
  [obj : [Handles -> Objects \cup {None}], live : SUBSET Objects,
   buf : [Objects -> Buffers \cup {None}], data : Contents \cup {None}]

Card(i) == [obj |-> gHandles[i], live |-> live[i], buf |-> buf[i], data |-> gData[i]]

\* What function m takes for granted of the state s of its card.
Expected(m, s) ==
  /\ \A arg \in m.args : s.obj[arg[1]] = arg[2] /\ arg[2] \in s.live
  /\ m.fn = "rtNewDataSet" => s.data \in Contents
  /\ m.fn = "rtNewDataEnd" => s.data = Full(m.obj)
  /\ m.fn = "rtRenderFrame" => s.buf[s.obj[m.id]] = m.buf
  /\ m.fn = "rtSwapBuffers" => s.buf[s.obj[m.id]] \in Buffers

\* What it makes of that state, when the stream buffer holds part.
After(part, m, s) ==
  [obj |-> IF m.fn \in Creators THEN [s.obj EXCEPT ![m.id] = m.obj] ELSE s.obj,
   live |-> IF m.fn \in Creators THEN s.live \cup {m.obj}
            ELSE IF m.fn = "rtDecRef" THEN s.live \ {s.obj[m.id]} ELSE s.live,
   buf |-> IF m.fn = "rtNewFrameBuffer" THEN [s.buf EXCEPT ![m.obj] = 0]
           ELSE IF m.fn = "rtSwapBuffers"
           THEN [s.buf EXCEPT ![s.obj[m.id]] = (@ + 1) % Depth] ELSE s.buf,
   data |-> IF m.fn = "rtNewDataStart" THEN [c \in Chunks |-> None]
            ELSE IF m.fn = "rtNewDataSet" THEN [s.data EXCEPT ![m.n] = part]
            ELSE IF m.fn = "rtNewDataEnd" THEN None ELSE s.data]

\* The functions of seq lead from a to b.
Leads(part, a, seq, b) ==
  \E s \in [0 .. Len(seq) -> CardStates] :
    /\ s[0] = a /\ s[Len(seq)] = b
    /\ \A j \in 1 .. Len(seq) :
         Expected(seq[j], s[j - 1]) /\ s[j] = After(part, seq[j], s[j - 1])

-----------------------------------------------------------------------------
(* The invariant.                                                          *)

LocalChains == [buf : Buffers, image : [Buffers -> 0 .. MaxCalls]]

Types ==
  /\ calls \in 0 .. MaxCalls
  /\ pc \in [op : Operations, h : {0} \cup Handles, dev : 0 .. NumDevices, n : Nat]
  /\ nextHandle \in 1 .. MaxHandles + 1 /\ pool \in Seq(Handles)
  /\ counters \in [Handles -> Nat] /\ \A h \in Handles : counters[h] <= calls
  /\ means \in [Handles -> Objects \cup {None}]
  /\ buffers \in [Handles -> Buffers \cup {None}]
  /\ curBuffer \in [Devices -> [Handles -> Buffers \cup {None}]]
  /\ local \in [Handles -> LocalChains \cup {None}]
  /\ shown \in [Devices -> 0 .. MaxCalls]
  /\ pipeline \in [Devices -> Seq(Functions)]
  /\ stream \in [Devices -> Parts]

CardTypes ==
  /\ pixels \in [Devices -> [Objects -> [Buffers -> 0 .. MaxCalls]]]
  /\ gHandles \in [Devices -> [Handles -> Objects \cup {None}]]
  /\ gData \in [Devices -> Contents \cup {None}]
  /\ live \in [Devices -> SUBSET Objects]
  /\ buf \in [Devices -> [Objects -> Buffers \cup {None}]]
  /\ content \in [Devices -> [Objects -> Contents \cup {None}]]

\* A handle is in use, in the pool, or has never been used.
Allocated ==
  /\ \A j \in 1 .. Len(pool) : pool[j] < nextHandle /\ counters[pool[j]] = 0
  /\ \A j, k \in 1 .. Len(pool) : pool[j] = pool[k] => j = k
  /\ \A h \in Handles : h >= nextHandle => counters[h] = 0

\* The objects the application knows; one that is being transferred is not.
Transfers == {"data", "write", "set", "image"}
Known == IF pc.op \in Transfers THEN calls - 1 ELSE calls

Named ==
  /\ \A h \in Handles : means[h] # None => means[h] <= Known
  /\ \A g, h \in Handles : means[g] = means[h] => g = h \/ means[g] = None
  /\ \A i \in Devices : \A j \in 1 .. Len(pipeline[i]) : \A arg \in pipeline[i][j].args :
       arg[2] <= Known /\ \A h \in Handles : means[h] = arg[2] => arg[1] = h

\* The swap chains of the host agree.
InUse ==
  \A h \in Handles :
    /\ counters[h] = 0 => buffers[h] = None
    /\ buffers[h] # None =>
         /\ means[h] # None /\ local[h] \in LocalChains /\ local[h].buf = buffers[h]
         /\ \A i \in Devices : curBuffer[i][h] = buffers[h]

\* A transfer is under way; the stream buffer is not touched while it is read.
Transferring ==
  pc.op \in Transfers =>
    /\ pc.h \in Handles /\ counters[pc.h] > 0 /\ means[pc.h] = None
    /\ pc.dev \in Devices /\ calls \in Objects
    /\ pc.op = "data" => pc.n = 0
    /\ pc.op = "write" => pc.n <= NumChunks
    /\ pc.op = "set" => pc.n \in Chunks
    /\ pc.op = "image" => pc.n \in {0, 1}

InTransfer ==
  /\ Transferring
  /\ \A i \in Devices : \A j \in 1 .. Len(pipeline[i]) : pipeline[i][j].fn = "rtNewDataSet" =>
       j = Len(pipeline[i]) /\ pc.op = "set" /\ pc.dev = i

\* The card of device i has got, or been sent, the object that is transferred.
Created(i) ==
  pc.op \in Transfers /\ (i < pc.dev \/ (i = pc.dev /\ pc.op = "image" /\ pc.n = 1))

Written(n) == [c \in Chunks |-> IF c < n THEN <<calls, c>> ELSE None]

\* State b of a card is what the application thinks it is.
Agrees(i, b) ==
  /\ \A h \in Held : b.obj[h] = means[h]
  /\ b.live = {means[h] : h \in Held} \cup (IF Created(i) THEN {calls} ELSE {})
  /\ Created(i) => b.obj[pc.h] = calls
  /\ \A h \in Chains : b.buf[means[h]] = buffers[h]
  /\ pc.op = "write" /\ i = pc.dev => b.data = Written(pc.n)
  /\ pc.op = "set" /\ i = pc.dev => b.data = Written(pc.n + 1)

\* The part a card will read is the one the host has written.
Streamed == pc.op = "set" => stream[pc.dev] = <<calls, pc.n>>

\* The functions on their way bring a card into that state.
Behind ==
  \A i \in Devices :
    \E b \in CardStates : Leads(stream[i], Card(i), pipeline[i], b) /\ Agrees(i, b)

\* Frames on their way to buffer b of chain h, and what the buffer shows when
\* the last one has been rendered.
Renders(m, h, b) == m.fn = "rtRenderFrame" /\ m.args = {<<h, means[h]>>} /\ m.buf = b

Shows(i, h, b) ==
  /\ \A j \in 1 .. Len(pipeline[i]) :
       /\ Renders(pipeline[i][j], h, b)
       /\ \A l \in 1 .. Len(pipeline[i]) : Renders(pipeline[i][l], h, b) => l <= j
       => pipeline[i][j].n = local[h].image[b]
  /\ (\A j \in 1 .. Len(pipeline[i]) : ~Renders(pipeline[i][j], h, b)) =>
       pixels[i][means[h]][b] = local[h].image[b]

Painted ==
  /\ \A i \in Devices : \A h \in Chains : \A b \in Buffers : Shows(i, h, b)
  /\ \A i \in Devices : \A k \in Objects : k > calls => pixels[i][k] = Blank

\* What has been mapped so far.
Mapped ==
  pc.op \in {"map", "mapped"} =>
    /\ pc.h \in Chains /\ pc.n \in Buffers
    /\ \A i \in Devices : i < pc.dev \/ pc.op = "mapped" => shown[i] = local[pc.h].image[pc.n]

Arrived == \A i \in Devices : \A k \in Objects : content[i][k] \in {None, Full(k)}

Inv ==
  /\ Types /\ CardTypes /\ Allocated /\ Named /\ InUse /\ InTransfer /\ Streamed
  /\ Behind /\ Painted /\ Mapped /\ Arrived

-----------------------------------------------------------------------------
(* Functions on their way.                                                 *)

LEMMA AfterType ==
  ASSUME NEW m \in Functions, NEW s \in CardStates, NEW part \in Parts, Expected(m, s)
  PROVE  After(part, m, s) \in CardStates
<1> DEFINE t == After(part, m, s)
<1>1. t.obj \in [Handles -> Objects \cup {None}]
  BY DEF After, Functions, CardStates
<1>2. t.live \in SUBSET Objects
  <2>1. CASE m.fn \in Creators
    BY <2>1 DEF After, Functions, CardStates
  <2>2. CASE m.fn \notin Creators
    BY <2>2 DEF After, Functions, CardStates
  <2>. QED
    BY <2>1, <2>2
<1>3. t.buf \in [Objects -> Buffers \cup {None}]
  <2>1. CASE m.fn = "rtNewFrameBuffer"
    <3>1. m.obj \in Objects /\ 0 \in Buffers
      BY <2>1 DEF Functions, Creators, Buffers
    <3>2. t.buf = [s.buf EXCEPT ![m.obj] = 0]
      BY <2>1 DEF After
    <3>. QED
      BY <3>1, <3>2 DEF CardStates
  <2>2. CASE m.fn = "rtSwapBuffers"
    <3>1. PICK k, b : k = s.obj[m.id] /\ b = s.buf[k] /\ b \in Buffers
      BY <2>2 DEF Expected
    <3>2. (b + 1) % Depth \in Buffers
      BY <3>1 DEF Buffers
    <3>3. t.buf = [s.buf EXCEPT ![k] = (b + 1) % Depth]
      BY <2>2, <3>1 DEF After
    <3>. QED
      BY <3>2, <3>3 DEF CardStates
  <2>3. CASE m.fn \notin {"rtNewFrameBuffer", "rtSwapBuffers"}
    BY <2>3 DEF After, CardStates
  <2>. QED
    BY <2>1, <2>2, <2>3
<1>4. t.data \in Contents \cup {None}
  <2>1. CASE m.fn = "rtNewDataStart"
    <3>1. t.data = [c \in Chunks |-> None]
      BY <2>1 DEF After
    <3>. QED
      BY <3>1 DEF Contents, Parts
  <2>2. CASE m.fn = "rtNewDataSet"
    <3>1. t.data = [s.data EXCEPT ![m.n] = part] /\ s.data \in Contents
      BY <2>2 DEF After, Expected
    <3>. QED
      BY <3>1 DEF Contents
  <2>3. CASE m.fn \notin {"rtNewDataStart", "rtNewDataSet"}
    BY <2>3 DEF After, CardStates
  <2>. QED
    BY <2>1, <2>2, <2>3
<1>5. t = [obj |-> t.obj, live |-> t.live, buf |-> t.buf, data |-> t.data]
  BY DEF After
<1> HIDE DEF t
<1>6. t \in CardStates
  BY <1>1, <1>2, <1>3, <1>4, <1>5 DEF CardStates
<1>. QED
  BY <1>6 DEF t

LEMMA LeadsNowhere ==
  ASSUME NEW part, NEW a \in CardStates, NEW b
  PROVE  Leads(part, a, <<>>, b) <=> a = b
<1>1. ASSUME Leads(part, a, <<>>, b) PROVE a = b
  BY <1>1 DEF Leads
<1>2. ASSUME a = b PROVE Leads(part, a, <<>>, b)
  <2> DEFINE s == [j \in 0 .. 0 |-> a]
  <2>1. s \in [0 .. Len(<<>>) -> CardStates] /\ s[0] = a /\ Len(<<>>) = 0
    OBVIOUS
  <2> HIDE DEF s
  <2>. QED
    BY <1>2, <2>1 DEF Leads
<1>. QED
  BY <1>1, <1>2

\* Another function is enqueued.
LEMMA LeadsFurther ==
  ASSUME NEW part \in Parts, NEW a, NEW b \in CardStates,
         NEW seq \in Seq(Functions), NEW m \in Functions,
         Leads(part, a, seq, b), Expected(m, b)
  PROVE  Leads(part, a, Append(seq, m), After(part, m, b))
<1>1. PICK s \in [0 .. Len(seq) -> CardStates] :
        /\ s[0] = a /\ s[Len(seq)] = b
        /\ \A j \in 1 .. Len(seq) :
             Expected(seq[j], s[j - 1]) /\ s[j] = After(part, seq[j], s[j - 1])
  BY DEF Leads
<1>2. /\ Len(seq) \in Nat /\ Len(Append(seq, m)) = Len(seq) + 1
      /\ \A j \in 1 .. Len(seq) : Append(seq, m)[j] = seq[j]
      /\ Append(seq, m)[Len(seq) + 1] = m
  OBVIOUS
<1>3. PICK c \in CardStates : c = After(part, m, b)
  BY AfterType
<1> DEFINE u == [j \in 0 .. Len(seq) + 1 |-> IF j = Len(seq) + 1 THEN c ELSE s[j]]
<1>4. u \in [0 .. Len(Append(seq, m)) -> CardStates]
  BY <1>1, <1>2
<1>5. u[0] = a /\ u[Len(Append(seq, m))] = c
  BY <1>1, <1>2
<1>6. ASSUME NEW j \in 1 .. Len(Append(seq, m))
      PROVE  /\ Expected(Append(seq, m)[j], u[j - 1])
             /\ u[j] = After(part, Append(seq, m)[j], u[j - 1])
  <2>1. CASE j \in 1 .. Len(seq)
    <3>1. u[j - 1] = s[j - 1] /\ u[j] = s[j] /\ Append(seq, m)[j] = seq[j]
      BY <1>1, <1>2, <2>1
    <3>. QED
      BY <1>1, <2>1, <3>1
  <2>2. CASE j = Len(seq) + 1
    <3>1. u[j - 1] = b /\ u[j] = c /\ Append(seq, m)[j] = m
      BY <1>1, <1>2, <2>2
    <3>. QED
      BY <1>3, <3>1
  <2>3. j \in 1 .. Len(seq) \/ j = Len(seq) + 1
    BY <1>2
  <2>. QED
    BY <2>1, <2>2, <2>3
<1> HIDE DEF u
<1>7. Leads(part, a, Append(seq, m), c)
  BY <1>4, <1>5, <1>6 DEF Leads
<1>. QED
  BY <1>3, <1>7

\* The first function is executed.
LEMMA LeadsOn ==
  ASSUME NEW part, NEW a, NEW b, NEW seq \in Seq(Functions), seq # <<>>,
         Leads(part, a, seq, b)
  PROVE  /\ Expected(Head(seq), a)
         /\ Leads(part, After(part, Head(seq), a), Tail(seq), b)
<1>1. PICK s \in [0 .. Len(seq) -> CardStates] :
        /\ s[0] = a /\ s[Len(seq)] = b
        /\ \A j \in 1 .. Len(seq) :
             Expected(seq[j], s[j - 1]) /\ s[j] = After(part, seq[j], s[j - 1])
  BY DEF Leads
<1>2. /\ Len(seq) \in Nat \ {0} /\ Len(Tail(seq)) = Len(seq) - 1 /\ seq[1] = Head(seq)
      /\ \A j \in 1 .. Len(seq) - 1 : Tail(seq)[j] = seq[j + 1]
  OBVIOUS
<1> DEFINE u == [j \in 0 .. Len(seq) - 1 |-> s[j + 1]]
<1>3. u \in [0 .. Len(Tail(seq)) -> CardStates]
  BY <1>1, <1>2
<1>4. u[0] = s[1] /\ u[Len(Tail(seq))] = b
  BY <1>1, <1>2
<1>5. ASSUME NEW j \in 1 .. Len(Tail(seq))
      PROVE  /\ Expected(Tail(seq)[j], u[j - 1])
             /\ u[j] = After(part, Tail(seq)[j], u[j - 1])
  <2>1. /\ j + 1 \in 1 .. Len(seq) /\ u[j - 1] = s[j] /\ u[j] = s[j + 1]
        /\ Tail(seq)[j] = seq[j + 1] /\ (j + 1) - 1 = j
    BY <1>2
  <2>2. /\ Expected(seq[j + 1], s[(j + 1) - 1])
        /\ s[j + 1] = After(part, seq[j + 1], s[(j + 1) - 1])
    BY <1>1, <2>1
  <2>. QED
    BY <2>1, <2>2
<1>6. Expected(Head(seq), a) /\ s[1] = After(part, Head(seq), a)
  <2>1. 1 \in 1 .. Len(seq) /\ 1 - 1 = 0
    BY <1>2
  <2>. QED
    BY <1>1, <1>2, <2>1
<1> HIDE DEF u
<1>7. Leads(part, s[1], Tail(seq), b)
  BY <1>3, <1>4, <1>5 DEF Leads
<1>. QED
  BY <1>6, <1>7

\* The stream buffer matters to rtNewDataSet only.
LEMMA LeadsAnyway ==
  ASSUME NEW part, NEW other, NEW a, NEW b, NEW seq,
         \A j \in 1 .. Len(seq) : seq[j].fn # "rtNewDataSet", Leads(part, a, seq, b)
  PROVE  Leads(other, a, seq, b)
<1>1. \A m, s : m.fn # "rtNewDataSet" => After(part, m, s) = After(other, m, s)
  BY DEF After
<1>. QED
  BY <1>1 DEF Leads

-----------------------------------------------------------------------------
(* The initial state.                                                      *)

LEMMA InvInit == Init => Inv
<1>. SUFFICES ASSUME Init PROVE Inv
  OBVIOUS
<1> USE DEF Init
<1>1. Types
  <2>1. 0 \in 0 .. MaxCalls /\ 1 \in 1 .. MaxHandles + 1
    OBVIOUS
  <2>2. Idle \in [op : Operations, h : {0} \cup Handles, dev : 0 .. NumDevices, n : Nat]
    BY DEF Idle, Operations
  <2>3. pool \in Seq(Handles) /\ pipeline \in [Devices -> Seq(Functions)]
    OBVIOUS
  <2>. QED
    BY <2>1, <2>2, <2>3 DEF Types, Parts
<1>2. CardTypes
  BY DEF CardTypes, Blank
<1>3. Held = {} /\ Chains = {}
  BY DEF Held, Chains
<1>4. pc.op = "idle"
  BY DEF Idle
<1>5. Allocated /\ Named /\ InUse /\ InTransfer /\ Streamed /\ Mapped /\ Arrived
  BY <1>4 DEF Allocated, Named, InUse, InTransfer, Transferring, Streamed, Mapped,
                    Arrived, Transfers
<1>6. Painted
  BY <1>3 DEF Painted
<1>7. Behind
  <2>. SUFFICES ASSUME NEW i \in Devices
                PROVE  \E b \in CardStates :
                         Leads(stream[i], Card(i), pipeline[i], b) /\ Agrees(i, b)
    BY DEF Behind
  <2>1. Card(i) \in CardStates
    BY <1>2 DEF CardTypes, CardStates, Card
  <2>2. Agrees(i, Card(i))
    BY <1>3, <1>4 DEF Agrees, Card, Created, Transfers
  <2>. QED
    BY <2>1, <2>2, LeadsNowhere
<1>. QED
  BY <1>1, <1>2, <1>5, <1>6, <1>7 DEF Inv

-----------------------------------------------------------------------------
(* What the calls have in common.                                          *)

LEMMA CreatesType ==
  ASSUME Types, NEW fn, NEW h \in Handles \cup {0}, NEW k \in Objects \cup {None},
         NEW args \in SUBSET Held,
         fn \in Creators \cup {"rtNewDataStart", "rtDecRef", "rtSet", "rtSetReference",
                               "rtPick", "rtSwapBuffers"},
         fn \in Creators => h \in Handles /\ k \in Objects,
         fn \in {"rtDecRef", "rtSwapBuffers"} => args = {h}
  PROVE  /\ Creates(fn, h, k, args) \in Functions
         /\ \A arg \in Creates(fn, h, k, args).args :
              arg[1] \in args /\ arg[2] = means[arg[1]]
<1> DEFINE m == Creates(fn, h, k, args)
<1>1. m.args \in SUBSET (Handles \X Objects)
  BY DEF Creates, Held, Types
<1>2. m.fn \in {"rtDecRef", "rtSwapBuffers"} =>
        m.id \in Handles /\ \E o \in Objects : m.args = {<<m.id, o>>}
  <2>. SUFFICES ASSUME fn \in {"rtDecRef", "rtSwapBuffers"}
                PROVE  h \in Handles /\ \E o \in Objects : m.args = {<<h, o>>}
    BY DEF Creates
  <2>1. h \in Held /\ means[h] \in Objects
    BY DEF Held, Types
  <2>2. m.args = {<<h, means[h]>>}
    BY DEF Creates
  <2>. QED
    BY <2>1, <2>2 DEF Held
<1>3. 0 \in Buffers
  BY DEF Buffers
<1>4. /\ m.fn = fn /\ m.id = h /\ m.obj = k /\ m.buf = 0 /\ m.n = 0
      /\ m = [fn |-> m.fn, id |-> m.id, obj |-> m.obj, buf |-> m.buf, n |-> m.n,
              args |-> m.args]
  BY DEF Creates
<1>5. \A arg \in m.args : arg[1] \in args /\ arg[2] = means[arg[1]]
  BY DEF Creates
<1> HIDE DEF m
<1>6. m \in Functions
  BY <1>1, <1>2, <1>3, <1>4 DEF Functions, Creators
<1>. QED
  BY <1>5, <1>6 DEF m

LEMMA WithoutLast ==
  ASSUME NEW T, NEW s \in Seq(T), s # <<>>
  PROVE  /\ Len(s) \in Nat \ {0}
         /\ SubSeq(s, 1, Len(s) - 1) \in Seq(T)
         /\ Len(SubSeq(s, 1, Len(s) - 1)) = Len(s) - 1
         /\ \A j \in 1 .. Len(s) - 1 : SubSeq(s, 1, Len(s) - 1)[j] = s[j]
<1>1. PICK n \in Nat : Len(s) = n + 1 /\ \A j \in 1 .. n + 1 : s[j] \in T
  <2>1. Len(s) \in Nat /\ Len(s) # 0 /\ \A j \in 1 .. Len(s) : s[j] \in T
    OBVIOUS
  <2>2. Len(s) - 1 \in Nat /\ Len(s) = (Len(s) - 1) + 1
    BY <2>1
  <2>. QED
    BY <2>1, <2>2
<1>2. /\ SubSeq(s, 1, n) \in Seq(T)
      /\ Len(SubSeq(s, 1, n)) = IF 1 <= n THEN n - 1 + 1 ELSE 0
      /\ \A j \in 1 .. n - 1 + 1 : SubSeq(s, 1, n)[j] = s[1 + j - 1]
  BY <1>1, SubSeqProperties
<1>3. \A j \in 1 .. n : SubSeq(s, 1, n)[j] = s[j]
  BY <1>2
<1>. QED
  BY <1>1, <1>2, <1>3

\* The handle allocated is not in use, and not left in the pool.
LEMMA AllocatesFresh ==
  ASSUME Types, Allocated, NEW h \in Handles, AllocHandle(h)
  PROVE  /\ counters[h] = 0
         /\ pool' \in Seq(Handles) /\ nextHandle' \in 1 .. MaxHandles + 1
         /\ Allocated'
<1>0. /\ counters' = [counters EXCEPT ![h] = 1] /\ nextHandle \in 1 .. MaxHandles + 1
      /\ pool \in Seq(Handles) /\ counters \in [Handles -> Nat]
  BY DEF Types, AllocHandle
<1>1. CASE pool = <<>>
  <2>1. h = nextHandle /\ pool' = <<>> /\ nextHandle' = nextHandle + 1
    BY <1>1 DEF AllocHandle
  <2>. QED
    BY <1>0, <2>1 DEF Allocated, Handles
<1>2. CASE pool # <<>>
  <2>1. /\ h = pool[Len(pool)] /\ pool' = SubSeq(pool, 1, Len(pool) - 1)
        /\ nextHandle' = nextHandle
    BY <1>2 DEF AllocHandle
  <2>2. /\ Len(pool) \in 1 .. Len(pool) /\ Len(pool') = Len(pool) - 1 /\ pool' \in Seq(Handles)
        /\ \A j \in 1 .. Len(pool) - 1 : pool'[j] = pool[j] /\ j \in 1 .. Len(pool)
    BY <1>0, <1>2, <2>1, WithoutLast
  <2>3. counters[h] = 0 /\ h < nextHandle'
    BY <2>1, <2>2 DEF Allocated
  <2>4. ASSUME NEW j \in 1 .. Len(pool')
        PROVE  pool'[j] < nextHandle' /\ counters'[pool'[j]] = 0
    <3>1. /\ pool'[j] < nextHandle' /\ counters[pool'[j]] = 0 /\ pool'[j] # h
          /\ pool'[j] \in Handles
      BY <1>0, <2>1, <2>2 DEF Allocated
    <3>. QED
      BY <1>0, <3>1
  <2>5. ASSUME NEW j \in 1 .. Len(pool'), NEW k \in 1 .. Len(pool'), pool'[j] = pool'[k]
        PROVE  j = k
    BY <2>1, <2>2, <2>5 DEF Allocated
  <2>6. ASSUME NEW g \in Handles, g >= nextHandle' PROVE counters'[g] = 0
    BY <1>0, <2>1, <2>3, <2>6 DEF Allocated, Handles
  <2>. QED
    BY <1>0, <2>1, <2>2, <2>3, <2>4, <2>5, <2>6 DEF Allocated
<1>. QED
  BY <1>1, <1>2

\* Every function names objects by what their handles meant when it was enqueued.
LEMMA NamedKept ==
  ASSUME Types, Named, Known \in Int, Known' \in Int, Known <= Known',
         NEW h, NEW k \in Objects \cup {None}, means' = [means EXCEPT ![h] = k],
         k = None \/ k = means[h] \/ (k = Known' /\ Known < Known'),
         \A i \in Devices :
           \/ pipeline'[i] = pipeline[i]
           \/ \E m \in Functions :
                /\ pipeline'[i] = Append(pipeline[i], m)
                /\ \A arg \in m.args : arg[2] = means[arg[1]] /\ means'[arg[1]] = means[arg[1]]
  PROVE  Named'
<1>0. /\ means \in [Handles -> Objects \cup {None}] /\ None \notin Int
      /\ \A o \in Objects : o \in Int
  BY DEF Types, Objects
<1>1. \A g \in Handles : means'[g] # None => means'[g] <= Known'
  BY <1>0 DEF Named
<1>2. ASSUME NEW f \in Handles, NEW g \in Handles, means'[f] = means'[g]
      PROVE  f = g \/ means'[f] = None
  BY <1>0, <1>2 DEF Named
<1>3. ASSUME NEW i \in Devices, NEW j \in 1 .. Len(pipeline'[i]),
             NEW arg \in pipeline'[i][j].args
      PROVE  arg[2] <= Known' /\ \A g \in Handles : means'[g] = arg[2] => arg[1] = g
  <2>0. pipeline[i] \in Seq(Functions)
    BY DEF Types
  <2>1. CASE j \in 1 .. Len(pipeline[i]) /\ arg \in pipeline[i][j].args
    <3>1. pipeline[i][j] \in Functions
      BY <2>0, <2>1
    <3>2. arg[2] \in Objects
      BY <2>1, <3>1 DEF Functions
    <3>3. arg[2] <= Known /\ \A g \in Handles : means[g] = arg[2] => arg[1] = g
      BY <2>1 DEF Named
    <3>. QED
      BY <1>0, <3>2, <3>3
  <2>2. ASSUME NEW m \in Functions, arg \in m.args,
               arg[2] = means[arg[1]], means'[arg[1]] = means[arg[1]]
        PROVE  arg[2] <= Known' /\ \A g \in Handles : means'[g] = arg[2] => arg[1] = g
    <3>1. arg[1] \in Handles /\ arg[2] \in Objects
      BY <2>2 DEF Functions
    <3>. QED
      BY <1>0, <1>1, <1>2, <2>2, <3>1
  <2>3. CASE pipeline'[i] = pipeline[i]
    BY <1>3, <2>1, <2>3
  <2>4. ASSUME NEW m \in Functions, pipeline'[i] = Append(pipeline[i], m),
               \A a \in m.args : a[2] = means[a[1]] /\ means'[a[1]] = means[a[1]]
        PROVE  arg[2] <= Known' /\ \A g \in Handles : means'[g] = arg[2] => arg[1] = g
    <3>1. \/ j \in 1 .. Len(pipeline[i]) /\ pipeline'[i][j] = pipeline[i][j]
          \/ pipeline'[i][j] = m
      BY <2>0, <2>4
    <3>2. CASE j \in 1 .. Len(pipeline[i]) /\ pipeline'[i][j] = pipeline[i][j]
      BY <1>3, <2>1, <3>2
    <3>3. CASE pipeline'[i][j] = m
      <4>1. arg \in m.args
        BY <1>3, <3>3
      <4>. QED
        BY <2>2, <2>4, <4>1
    <3>. QED
      BY <3>1, <3>2, <3>3
  <2>. QED
    BY <2>3, <2>4
<1>. QED
  BY <1>1, <1>2, <1>3 DEF Named

\* One card: the functions on their way still bring it into the state that the
\* application has in mind.
LEMMA BehindKept ==
  ASSUME Types, Behind, NEW i \in Devices, UNCHANGED sinkVars,
         stream'[i] \in Parts,
         \/ stream'[i] = stream[i]
         \/ \A j \in 1 .. Len(pipeline[i]) : pipeline[i][j].fn # "rtNewDataSet",
         \/ /\ pipeline'[i] = pipeline[i]
            /\ \A b \in CardStates : Agrees(i, b) => Agrees(i, b)'
         \/ \E m \in Functions :
              /\ pipeline'[i] = Append(pipeline[i], m)
              /\ \A b \in CardStates : Agrees(i, b) =>
                   Expected(m, b) /\ \A c : c = After(stream'[i], m, b) => Agrees(i, c)'
  PROVE  (\E b \in CardStates : Leads(stream[i], Card(i), pipeline[i], b) /\ Agrees(i, b))'
<1>1. PICK b \in CardStates : Leads(stream[i], Card(i), pipeline[i], b) /\ Agrees(i, b)
  BY DEF Behind
<1>2. PICK part \in Parts : part = stream'[i]
  OBVIOUS
<1>3. Leads(part, Card(i), pipeline[i], b)
  BY <1>1, <1>2, LeadsAnyway
<1>4. PICK card : card = Card(i) /\ card = Card(i)'
  BY DEF Card, sinkVars
<1>5. PICK seq \in Seq(Functions) : seq = pipeline[i]
  BY DEF Types
<1>6. CASE /\ pipeline'[i] = pipeline[i]
           /\ \A c \in CardStates : Agrees(i, c) => Agrees(i, c)'
  <2>1. Leads(part, card, seq, b) /\ Agrees(i, b)'
    BY <1>1, <1>3, <1>4, <1>5, <1>6
  <2>. QED
    BY <1>2, <1>4, <1>5, <1>6, <2>1
<1>7. ASSUME NEW m \in Functions, pipeline'[i] = Append(pipeline[i], m),
             \A d \in CardStates : Agrees(i, d) =>
               Expected(m, d) /\ \A c : c = After(stream'[i], m, d) => Agrees(i, c)'
      PROVE  (\E c \in CardStates : Leads(stream[i], Card(i), pipeline[i], c) /\ Agrees(i, c))'
  <2>1. PICK c : c = After(part, m, b)
    OBVIOUS
  <2>2. Expected(m, b) /\ Agrees(i, c)'
    BY <1>1, <1>2, <1>7, <2>1
  <2>3. c \in CardStates
    BY <2>1, <2>2, AfterType
  <2>4. Leads(part, card, Append(seq, m), c)
    BY <1>3, <1>4, <1>5, <2>1, <2>2, LeadsFurther
  <2>. QED
    BY <1>2, <1>4, <1>5, <1>7, <2>2, <2>3, <2>4
<1>. QED
  BY <1>6, <1>7

\* The frames of chain h that are on their way, and what has been rendered.
LEMMA ShowsKept ==
  ASSUME NEW i \in Devices, NEW h, NEW b, Shows(i, h, b), pipeline[i] \in Seq(Functions),
         pixels'[i] = pixels[i], means'[h] = means[h],
         local'[h].image[b] = local[h].image[b],
         \/ pipeline'[i] = pipeline[i]
         \/ \E m \in Functions : m.fn # "rtRenderFrame" /\ pipeline'[i] = Append(pipeline[i], m)
  PROVE  Shows(i, h, b)'
<1>1. PICK p, q \in Nat : p = Len(pipeline[i]) /\ q = Len(pipeline'[i]) /\ p <= q
  <2>1. \A m : Len(Append(pipeline[i], m)) = Len(pipeline[i]) + 1
    OBVIOUS
  <2>. QED
    BY <2>1
<1>2. \A j \in 1 .. q : \/ j \in 1 .. p /\ pipeline'[i][j] = pipeline[i][j]
                        \/ pipeline'[i][j].fn # "rtRenderFrame"
  <2>1. CASE pipeline'[i] = pipeline[i]
    BY <1>1, <2>1
  <2>2. ASSUME NEW m \in Functions, m.fn # "rtRenderFrame", pipeline'[i] = Append(pipeline[i], m),
               NEW j \in 1 .. q
        PROVE  \/ j \in 1 .. p /\ pipeline'[i][j] = pipeline[i][j]
               \/ pipeline'[i][j].fn # "rtRenderFrame"
    <3>1. (j \in 1 .. p /\ pipeline'[i][j] = pipeline[i][j]) \/ pipeline'[i][j] = m
      BY <1>1, <2>2
    <3>. QED
      BY <2>2, <3>1
  <2>. QED
    BY <2>1, <2>2
<1>3. \A j \in 1 .. p : j \in 1 .. q /\ pipeline'[i][j] = pipeline[i][j]
  BY <1>1
<1>4. \A j \in 1 .. p : Renders(pipeline[i][j], h, b)' <=> Renders(pipeline[i][j], h, b)
  BY <1>3 DEF Renders
<1>5. \A j \in 1 .. q : Renders(pipeline[i][j], h, b)' => j \in 1 .. p
  BY <1>2 DEF Renders
<1>6. ASSUME NEW j \in 1 .. q, Renders(pipeline[i][j], h, b)',
             \A l \in 1 .. q : Renders(pipeline[i][l], h, b)' => l <= j
      PROVE  pipeline'[i][j].n = local'[h].image[b]
  <2>1. j \in 1 .. p /\ Renders(pipeline[i][j], h, b)
    BY <1>4, <1>5, <1>6
  <2>2. \A l \in 1 .. p : Renders(pipeline[i][l], h, b) => l <= j
    BY <1>3, <1>4, <1>6
  <2>3. pipeline[i][j].n = local[h].image[b]
    BY <1>1, <2>1, <2>2 DEF Shows
  <2>. QED
    BY <1>3, <2>1, <2>3
<1>7. ASSUME \A j \in 1 .. q : ~ Renders(pipeline[i][j], h, b)'
      PROVE  pixels'[i][means'[h]][b] = local'[h].image[b]
  <2>1. \A j \in 1 .. p : ~ Renders(pipeline[i][j], h, b)
    BY <1>3, <1>4, <1>7
  <2>. QED
    BY <1>1, <2>1 DEF Shows
<1>. QED
  BY <1>1, <1>6, <1>7 DEF Shows

\* A chain keeps its pictures, or is new and blank.
LEMMA PaintedKept ==
  ASSUME Types, CardTypes, Named, Painted, UNCHANGED pixels, calls <= calls', calls' \in Nat,
         \A i \in Devices :
           \/ pipeline'[i] = pipeline[i]
           \/ \E m \in Functions :
                m.fn # "rtRenderFrame" /\ pipeline'[i] = Append(pipeline[i], m),
         \A h \in Chains' :
           \/ h \in Chains /\ means'[h] = means[h] /\ local'[h].image = local[h].image
           \/ means'[h] \in Objects /\ means'[h] > calls /\ local'[h].image = Blank
  PROVE  Painted'
<1>1. ASSUME NEW i \in Devices, NEW h \in Chains', NEW b \in Buffers
      PROVE  Shows(i, h, b)'
  <2>0. pipeline[i] \in Seq(Functions) /\ calls \in Nat
    BY DEF Types
  <2>1. CASE h \in Chains /\ means'[h] = means[h] /\ local'[h].image = local[h].image
    <3>1. Shows(i, h, b)
      BY <2>1 DEF Painted
    <3>. QED
      BY <2>0, <2>1, <3>1, ShowsKept
  <2>2. CASE means'[h] \in Objects /\ means'[h] > calls /\ local'[h].image = Blank
    <3>1. ASSUME NEW j \in 1 .. Len(pipeline'[i]) PROVE ~ Renders(pipeline[i][j], h, b)'
      <4>1. ASSUME pipeline'[i][j].fn = "rtRenderFrame" PROVE pipeline'[i][j].args # {<<h, means'[h]>>}
        <5>1. j \in 1 .. Len(pipeline[i]) /\ pipeline'[i][j] = pipeline[i][j]
          BY <2>0, <4>1
        <5>2. \A arg \in pipeline[i][j].args : arg[2] <= calls
          <6>1. \A arg \in pipeline[i][j].args : arg[2] \in Objects /\ arg[2] <= Known
            BY <2>0, <5>1 DEF Named, Functions
          <6>2. Known \in Int /\ Known <= calls
            BY <2>0 DEF Known
          <6>. QED
            BY <2>0, <6>1, <6>2 DEF Objects
        <5>3. ~ (<<h, means'[h]>>[2] <= calls)
          BY <2>0, <2>2 DEF Objects
        <5>. QED
          BY <5>1, <5>2, <5>3
      <4>. QED
        BY <4>1 DEF Renders
    <3>2. pixels[i][means'[h]] = Blank
      BY <2>2 DEF Painted
    <3>. QED
      BY <2>2, <3>1, <3>2 DEF Shows
  <2>. QED
    BY <2>1, <2>2
<1>2. ASSUME NEW i \in Devices, NEW k \in Objects, k > calls' PROVE pixels'[i][k] = Blank
  <2>1. k > calls
    BY <1>2 DEF Types, Objects
  <2>. QED
    BY <2>1 DEF Painted
<1>. QED
  BY <1>1, <1>2 DEF Painted

NoneSet == \A i \in Devices : \A j \in 1 .. Len(pipeline[i]) : pipeline[i][j].fn # "rtNewDataSet"

LEMMA NoneSetBefore ==
  ASSUME Types, InTransfer, pc.op # "set" \/ pipeline[pc.dev] = <<>>
  PROVE  NoneSet
<1>. SUFFICES ASSUME NEW i \in Devices, NEW j \in 1 .. Len(pipeline[i]),
                     pipeline[i][j].fn = "rtNewDataSet"
              PROVE  FALSE
  BY DEF NoneSet
<1>1. pc.op = "set" /\ pc.dev = i
  BY DEF InTransfer
<1>. QED
  BY <1>1

LEMMA NoneSetAfter ==
  ASSUME Types, NoneSet,
         \A i \in Devices :
           \/ pipeline'[i] = pipeline[i]
           \/ \E m \in Functions :
                m.fn # "rtNewDataSet" /\ pipeline'[i] = Append(pipeline[i], m)
  PROVE  NoneSet'
<1>. SUFFICES ASSUME NEW i \in Devices, NEW j \in 1 .. Len(pipeline'[i])
              PROVE  pipeline'[i][j].fn # "rtNewDataSet"
  BY DEF NoneSet
<1>1. pipeline[i] \in Seq(Functions)
  BY DEF Types
<1>2. CASE j \in 1 .. Len(pipeline[i]) /\ pipeline'[i][j] = pipeline[i][j]
  BY <1>2 DEF NoneSet
<1>3. \/ j \in 1 .. Len(pipeline[i]) /\ pipeline'[i][j] = pipeline[i][j]
      \/ pipeline'[i][j].fn # "rtNewDataSet"
  <2>1. CASE pipeline'[i] = pipeline[i]
    BY <2>1
  <2>2. ASSUME NEW m \in Functions, m.fn # "rtNewDataSet", pipeline'[i] = Append(pipeline[i], m)
        PROVE  \/ j \in 1 .. Len(pipeline[i]) /\ pipeline'[i][j] = pipeline[i][j]
               \/ pipeline'[i][j].fn # "rtNewDataSet"
    <3>1. \/ j \in 1 .. Len(pipeline[i]) /\ pipeline'[i][j] = pipeline[i][j]
          \/ pipeline'[i][j] = m
      BY <1>1, <2>2
    <3>. QED
      BY <2>2, <3>1
  <2>. QED
    BY <2>1, <2>2
<1>. QED
  BY <1>2, <1>3

\* Between two calls: what the application thinks a card is like.
Holds(b) ==
  /\ \A h \in Held : b.obj[h] = means[h]
  /\ b.live = {means[h] : h \in Held}
  /\ \A h \in Chains : b.buf[means[h]] = buffers[h]

\* A call that enqueues a function on every card, or none, and returns.
LEMMA CallKeeps ==
  ASSUME Inv, Call, UNCHANGED <<pc, stream, sinkVars>>, Types', Allocated', InUse', Painted',
         NEW h \in Handles, NEW k \in Objects \cup {None}, means' = [means EXCEPT ![h] = k],
         k = None \/ k = means[h] \/ k = calls + 1,
         \/ pipeline' = pipeline /\ \A b \in CardStates : Holds(b) => Holds(b)'
         \/ \A i \in Devices : \E m \in Functions :
              /\ m.fn # "rtNewDataSet" /\ pipeline'[i] = Append(pipeline[i], m)
              /\ \A arg \in m.args : arg[2] = means[arg[1]] /\ means'[arg[1]] = means[arg[1]]
              /\ \A b \in CardStates : Holds(b) =>
                   Expected(m, b) /\ \A part, c : c = After(part, m, b) => Holds(c)'
  PROVE  Inv'
<1>0. /\ Types /\ CardTypes /\ Named /\ InTransfer /\ Behind /\ Arrived
      /\ pc = Idle /\ pc' = Idle /\ pc.op = "idle" /\ pc'.op = "idle" /\ calls' = calls + 1
      /\ calls \in Nat /\ calls + 1 \in Objects
  BY DEF Inv, Call, Idle, Types, Objects
<1>1. CardTypes' /\ Arrived' /\ Streamed' /\ Mapped'
  BY <1>0 DEF CardTypes, Arrived, Streamed, Mapped, sinkVars
<1>2. Named'
  <2>1. Known = calls /\ Known' = calls + 1
    BY <1>0 DEF Known, Transfers
  <2>2. \A i \in Devices :
          \/ pipeline'[i] = pipeline[i]
          \/ \E m \in Functions :
               /\ pipeline'[i] = Append(pipeline[i], m)
               /\ \A arg \in m.args : arg[2] = means[arg[1]] /\ means'[arg[1]] = means[arg[1]]
    OBVIOUS
  <2>3. /\ Known \in Int /\ Known' \in Int /\ Known <= Known'
        /\ k = None \/ k = means[h] \/ (k = Known' /\ Known < Known')
    BY <1>0, <2>1
  <2>. QED
    BY <1>0, <2>2, <2>3, NamedKept
<1>3. NoneSet /\ InTransfer'
  <2>1. NoneSet
    BY <1>0, NoneSetBefore
  <2>2. \A i \in Devices :
          \/ pipeline'[i] = pipeline[i]
          \/ \E m \in Functions :
               m.fn # "rtNewDataSet" /\ pipeline'[i] = Append(pipeline[i], m)
    OBVIOUS
  <2>3. NoneSet'
    BY <1>0, <2>1, <2>2, NoneSetAfter
  <2>. QED
    BY <1>0, <2>1, <2>3 DEF InTransfer, Transferring, NoneSet, Transfers
<1>4. Behind'
  <2>. SUFFICES ASSUME NEW i \in Devices
                PROVE (\E b \in CardStates :
                         Leads(stream[i], Card(i), pipeline[i], b) /\ Agrees(i, b))'
    BY DEF Behind
  <2>1. \A b : Agrees(i, b) <=> Holds(b)
    BY <1>0 DEF Agrees, Holds, Created, Transfers
  <2>2. \A b : Agrees(i, b)' <=> Holds(b)'
    BY <1>0 DEF Agrees, Holds, Created, Transfers
  <2>3. \/ /\ pipeline'[i] = pipeline[i]
           /\ \A b \in CardStates : Agrees(i, b) => Agrees(i, b)'
        \/ \E m \in Functions :
             /\ pipeline'[i] = Append(pipeline[i], m)
             /\ \A b \in CardStates : Agrees(i, b) =>
                  Expected(m, b) /\ \A c : c = After(stream'[i], m, b) => Agrees(i, c)'
    <3>1. CASE pipeline' = pipeline /\ \A b \in CardStates : Holds(b) => Holds(b)'
      BY <2>1, <2>2, <3>1
    <3>2. CASE \E m \in Functions :
                 /\ m.fn # "rtNewDataSet" /\ pipeline'[i] = Append(pipeline[i], m)
                 /\ \A arg \in m.args : arg[2] = means[arg[1]] /\ means'[arg[1]] = means[arg[1]]
                 /\ \A b \in CardStates : Holds(b) =>
                      Expected(m, b) /\ \A part, c : c = After(part, m, b) => Holds(c)'
      <4>1. PICK m \in Functions :
              /\ pipeline'[i] = Append(pipeline[i], m)
              /\ \A b \in CardStates : Holds(b) =>
                   Expected(m, b) /\ \A part, c : c = After(part, m, b) => Holds(c)'
        BY <3>2
      <4>2. ASSUME NEW b \in CardStates, Agrees(i, b)
            PROVE  Expected(m, b) /\ \A c : c = After(stream'[i], m, b) => Agrees(i, c)'
        <5>1. Expected(m, b) /\ \A part, c : c = After(part, m, b) => Holds(c)'
          BY <2>1, <4>1, <4>2
        <5>. QED
          BY <2>2, <5>1
      <4>. QED
        BY <4>1, <4>2
    <3>. QED
      BY <3>1, <3>2
  <2>4. UNCHANGED sinkVars /\ stream'[i] = stream[i] /\ stream'[i] \in Parts
    BY <1>0 DEF Types
  <2>. QED
    BY <1>0, <2>3, <2>4, BehindKept
<1>. QED
  BY <1>1, <1>2, <1>3, <1>4 DEF Inv

\* No frame is rendered, and a chain keeps its pictures or is new.
LEMMA CallKeepsInv ==
  ASSUME Inv, Call, UNCHANGED <<pc, stream, sinkVars>>, Types', Allocated', InUse',
         NEW h \in Handles, NEW k \in Objects \cup {None}, means' = [means EXCEPT ![h] = k],
         k = None \/ k = means[h] \/ k = calls + 1,
         \A g \in Chains' :
           \/ g \in Chains /\ means'[g] = means[g] /\ local'[g].image = local[g].image
           \/ means'[g] = calls + 1 /\ local'[g].image = Blank,
         \/ pipeline' = pipeline /\ \A b \in CardStates : Holds(b) => Holds(b)'
         \/ \E m \in Functions :
              /\ m.fn \notin {"rtRenderFrame", "rtNewDataSet"}
              /\ pipeline' = [i \in Devices |-> Append(pipeline[i], m)]
              /\ \A arg \in m.args : arg[2] = means[arg[1]] /\ means'[arg[1]] = means[arg[1]]
              /\ \A b \in CardStates : Holds(b) =>
                   Expected(m, b) /\ \A part, c : c = After(part, m, b) => Holds(c)'
  PROVE  Inv'
<1>0. /\ Types /\ CardTypes /\ Named /\ Painted
      /\ pc = Idle /\ pc.op = "idle" /\ calls' = calls + 1
      /\ calls \in Nat /\ calls + 1 \in Objects
  BY DEF Inv, Call, Idle, Types, Objects
<1>1. Painted'
  <2>1. \A i \in Devices :
          \/ pipeline'[i] = pipeline[i]
          \/ \E m \in Functions :
               m.fn # "rtRenderFrame" /\ pipeline'[i] = Append(pipeline[i], m)
    OBVIOUS
  <2>2. \A g \in Chains' :
          \/ g \in Chains /\ means'[g] = means[g] /\ local'[g].image = local[g].image
          \/ means'[g] \in Objects /\ means'[g] > calls /\ local'[g].image = Blank
    BY <1>0
  <2>3. UNCHANGED pixels /\ calls <= calls' /\ calls' \in Nat
    BY <1>0 DEF sinkVars
  <2>. QED
    BY <1>0, <2>1, <2>2, <2>3, PaintedKept
<1>2. \/ pipeline' = pipeline /\ \A b \in CardStates : Holds(b) => Holds(b)'
      \/ \A i \in Devices : \E m \in Functions :
           /\ m.fn # "rtNewDataSet" /\ pipeline'[i] = Append(pipeline[i], m)
           /\ \A arg \in m.args : arg[2] = means[arg[1]] /\ means'[arg[1]] = means[arg[1]]
           /\ \A b \in CardStates : Holds(b) =>
                Expected(m, b) /\ \A part, c : c = After(part, m, b) => Holds(c)'
  OBVIOUS
<1>. QED
  BY <1>1, <1>2, CallKeeps

-----------------------------------------------------------------------------
(* Calls that create an object.                                            *)

\* A handle gets an object.
LEMMA NowHeld ==
  ASSUME Types, InUse, NEW h \in Handles, NEW k \in Objects \cup {None}, counters[h] = 0,
         counters' = [counters EXCEPT ![h] = 1], means' = [means EXCEPT ![h] = k]
  PROVE  /\ Held' = IF k = None THEN Held ELSE Held \cup {h}
         /\ h \notin Held /\ buffers[h] = None
         /\ {means'[g] : g \in Held'} = {means[g] : g \in Held} \cup (IF k = None THEN {} ELSE {k})
<1>0. counters \in [Handles -> Nat] /\ means \in [Handles -> Objects \cup {None}]
  BY DEF Types
<1>1. h \notin Held /\ buffers[h] = None
  BY DEF Held, InUse
<1>2. counters'[h] = 1 /\ means'[h] = k
      /\ \A g \in Handles \ {h} : counters'[g] = counters[g] /\ means'[g] = means[g]
  BY <1>0
<1>3. \A g \in Handles : g \in Held' <=> g \in Held \/ (g = h /\ k # None)
  BY <1>1, <1>2 DEF Held
<1>4. Held' \subseteq Handles /\ Held \subseteq Handles
  BY DEF Held
<1>5. Held' = IF k = None THEN Held ELSE Held \cup {h}
  BY <1>3, <1>4
<1>6. {means'[g] : g \in Held'} = {means[g] : g \in Held} \cup (IF k = None THEN {} ELSE {k})
  <2>1. \A g \in Held : means'[g] = means[g]
    BY <1>1, <1>2, <1>4
  <2>. QED
    BY <1>2, <1>5, <2>1
<1>. QED
  BY <1>1, <1>5, <1>6

\* A handle is taken: what that means for the types.
LEMMA AllocKeepsTypes ==
  ASSUME Inv, calls < MaxCalls, calls' = calls + 1, NEW h \in Handles, AllocHandle(h),
         NEW k \in Objects \cup {None}, means' = [means EXCEPT ![h] = k],
         pc' \in [op : Operations, h : {0} \cup Handles, dev : 0 .. NumDevices, n : Nat],
         buffers' \in [Handles -> Buffers \cup {None}],
         curBuffer' \in [Devices -> [Handles -> Buffers \cup {None}]],
         local' \in [Handles -> LocalChains \cup {None}],
         shown' = shown, stream' = stream, pipeline' \in [Devices -> Seq(Functions)]
  PROVE  /\ Types' /\ Allocated' /\ counters[h] = 0
         /\ counters' = [counters EXCEPT ![h] = 1]
<1>0. Types /\ Allocated
  BY DEF Inv
<1>1. /\ counters[h] = 0 /\ pool' \in Seq(Handles) /\ nextHandle' \in 1 .. MaxHandles + 1
      /\ Allocated'
  BY <1>0, AllocatesFresh
<1>2. counters' = [counters EXCEPT ![h] = 1]
  BY DEF AllocHandle
<1>3. calls' \in 0 .. MaxCalls /\ calls \in Nat
  BY <1>0 DEF Types
<1>4. counters' \in [Handles -> Nat] /\ \A g \in Handles : counters'[g] <= calls'
  BY <1>0, <1>2, <1>3 DEF Types
<1>5. means' \in [Handles -> Objects \cup {None}]
  BY <1>0 DEF Types
<1>. QED
  BY <1>0, <1>1, <1>2, <1>3, <1>4, <1>5 DEF Types

LEMMA HeldExpected ==
  ASSUME Types, NEW b \in CardStates, Holds(b), NEW fn, NEW h, NEW k, NEW args \in SUBSET Held,
         fn \notin {"rtNewDataSet", "rtNewDataEnd", "rtRenderFrame"},
         fn = "rtSwapBuffers" => h \in Chains
  PROVE  Expected(Creates(fn, h, k, args), b)
<1> DEFINE m == Creates(fn, h, k, args)
<1>1. \A arg \in m.args : b.obj[arg[1]] = arg[2] /\ arg[2] \in b.live
  <2>1. \A a \in args : b.obj[a] = means[a] /\ means[a] \in b.live
    BY DEF Holds
  <2>. QED
    BY <2>1 DEF Creates
<1>2. m.fn = fn /\ m.id = h
  BY DEF Creates
<1>3. fn = "rtSwapBuffers" => b.buf[b.obj[h]] \in Buffers
  <2>. SUFFICES ASSUME h \in Chains PROVE b.buf[b.obj[h]] \in Buffers
    OBVIOUS
  <2>1. b.obj[h] = means[h] /\ b.buf[means[h]] = buffers[h]
    BY DEF Holds, Chains
  <2>2. buffers[h] \in Buffers
    BY DEF Chains, Held, Types
  <2>. QED
    BY <2>1, <2>2
<1> HIDE DEF m
<1>4. Expected(m, b)
  BY <1>1, <1>2, <1>3 DEF Expected
<1>. QED
  BY <1>4 DEF m

LEMMA NewObjectKeepsInv ==
  ASSUME Inv, Call, NEW h \in Handles, AllocHandle(h), Returned(h),
         NEW args \in SUBSET Held, h \notin args,
         Enqueue(Creates("rtNew", h, calls + 1, args)),
         UNCHANGED <<pc, chainVars, stream, sinkVars>>
  PROVE  Inv'
<1>0. /\ Types /\ InUse /\ Named /\ pc = Idle /\ calls < MaxCalls /\ calls' = calls + 1
      /\ calls + 1 \in Objects /\ UNCHANGED <<buffers, curBuffer, shown, local>>
  BY DEF Inv, Call, Types, Objects, chainVars
<1>1. PICK k \in Objects : k = calls + 1 /\ k # None
  BY <1>0 DEF Objects
<1>2. means' = [means EXCEPT ![h] = k]
  BY <1>1 DEF Returned
<1>3. PICK m \in Functions :
        /\ m = Creates("rtNew", h, k, args) /\ m.fn = "rtNew"
        /\ \A arg \in m.args : arg[1] \in args /\ arg[2] = means[arg[1]]
  <2>1. Creates("rtNew", h, k, args).fn = "rtNew"
    BY DEF Creates
  <2>2. h \in Handles \cup {0} /\ k \in Objects \cup {None} /\ "rtNew" \in Creators
    BY DEF Creators
  <2>3. /\ Creates("rtNew", h, k, args) \in Functions
        /\ \A arg \in Creates("rtNew", h, k, args).args :
             arg[1] \in args /\ arg[2] = means[arg[1]]
    BY <1>0, <2>2, CreatesType
  <2>. QED
    BY <2>1, <2>3
<1>4. pipeline' = [i \in Devices |-> Append(pipeline[i], m)]
  BY <1>1, <1>3 DEF Enqueue
<1>5. pipeline' \in [Devices -> Seq(Functions)]
  BY <1>0, <1>4 DEF Types
<1>6. Types' /\ Allocated' /\ counters[h] = 0 /\ counters' = [counters EXCEPT ![h] = 1]
  BY <1>0, <1>2, <1>5, AllocKeepsTypes DEF Types
<1>7. /\ Held' = Held \cup {h} /\ h \notin Held /\ buffers[h] = None
      /\ {means'[g] : g \in Held'} = {means[g] : g \in Held} \cup {k}
  BY <1>0, <1>1, <1>2, <1>6, NowHeld
<1>8. Chains' = Chains /\ h \notin Chains
  BY <1>0, <1>7 DEF Chains
<1>9. \A g \in Handles \ {h} : means'[g] = means[g] /\ counters'[g] = counters[g]
  BY <1>0, <1>2, <1>6 DEF Types
<1>10. InUse'
  BY <1>0, <1>7, <1>9 DEF InUse
<1>11. ASSUME NEW b \in CardStates, Holds(b)
       PROVE  Expected(m, b) /\ \A part, c : c = After(part, m, b) => Holds(c)'
  <2>1. Expected(m, b)
    BY <1>0, <1>3, <1>11, HeldExpected
  <2>2. ASSUME NEW part, NEW c, c = After(part, m, b) PROVE Holds(c)'
    <3>1. c.obj = [b.obj EXCEPT ![h] = k] /\ c.live = b.live \cup {k} /\ c.buf = b.buf
      <4>1. m.fn = "rtNew" /\ m.id = h /\ m.obj = k
        BY <1>3 DEF Creates
      <4>. QED
        BY <2>2, <4>1 DEF After, Creators
    <3>2. \A g \in Held' : c.obj[g] = means'[g]
      <4>1. b.obj \in [Handles -> Objects \cup {None}] /\ Held \subseteq Handles
        BY DEF CardStates, Held
      <4>2. c.obj[h] = k /\ means'[h] = k
        BY <1>0, <1>2, <3>1, <4>1 DEF Types
      <4>. QED
        BY <1>7, <1>9, <1>11, <3>1, <4>1, <4>2 DEF Holds
    <3>3. c.live = {means'[g] : g \in Held'}
      BY <1>7, <1>11, <3>1 DEF Holds
    <3>4. \A g \in Chains' : c.buf[means'[g]] = buffers'[g]
      BY <1>0, <1>8, <1>9, <1>11, <3>1 DEF Holds, Chains, Held
    <3>. QED
      BY <3>2, <3>3, <3>4 DEF Holds
  <2>. QED
    BY <2>1, <2>2
<1>12. \A g \in Chains' : g \in Chains /\ means'[g] = means[g] /\ local'[g].image = local[g].image
  BY <1>0, <1>8, <1>9 DEF Chains, Held
<1>13. \A arg \in m.args : arg[2] = means[arg[1]] /\ means'[arg[1]] = means[arg[1]]
  BY <1>3, <1>9 DEF Held
<1>14. \E f \in Functions :
         /\ f.fn \notin {"rtRenderFrame", "rtNewDataSet"}
         /\ pipeline' = [i \in Devices |-> Append(pipeline[i], f)]
         /\ \A arg \in f.args : arg[2] = means[arg[1]] /\ means'[arg[1]] = means[arg[1]]
         /\ \A b \in CardStates : Holds(b) =>
              Expected(f, b) /\ \A part, c : c = After(part, f, b) => Holds(c)'
  <2>1. m.fn \notin {"rtRenderFrame", "rtNewDataSet"}
    BY <1>3
  <2>. QED
    BY <2>1, <1>4, <1>11, <1>13
<1>15. k \in Objects \cup {None} /\ (k = None \/ k = means[h] \/ k = calls + 1)
  BY <1>1
<1>16. UNCHANGED <<pc, stream, sinkVars>>
  OBVIOUS
<1>. QED
  BY <1>2, <1>6, <1>10, <1>12, <1>14, <1>15, <1>16, CallKeepsInv, Zenon

LEMMA NewThrowsKeepsInv ==
  ASSUME Inv, NEW h \in Handles, NewThrows(h)
  PROVE  Inv'
<1>0. /\ Types /\ InUse /\ pc = Idle /\ calls < MaxCalls /\ calls' = calls + 1 /\ Call
      /\ AllocHandle(h) /\ means' = [means EXCEPT ![h] = None]
      /\ UNCHANGED <<pc, buffers, curBuffer, shown, local, pipeline, stream, sinkVars>>
  BY DEF Inv, Call, NewThrows, chainVars
<1>1. Types' /\ Allocated' /\ counters[h] = 0 /\ counters' = [counters EXCEPT ![h] = 1]
  BY <1>0, AllocKeepsTypes DEF Types
<1>2. /\ Held' = Held /\ h \notin Held /\ buffers[h] = None
      /\ {means'[g] : g \in Held'} = {means[g] : g \in Held}
  BY <1>0, <1>1, NowHeld
<1>3. Chains' = Chains /\ h \notin Chains
  BY <1>0, <1>2 DEF Chains
<1>4. \A g \in Handles \ {h} : means'[g] = means[g] /\ counters'[g] = counters[g]
  BY <1>0, <1>1 DEF Types
<1>5. InUse'
  BY <1>0, <1>2, <1>4 DEF InUse
<1>6. ASSUME NEW b, Holds(b) PROVE Holds(b)'
  BY <1>0, <1>2, <1>3, <1>4, <1>6 DEF Holds, Held, Chains
<1>7. \A g \in Chains' : g \in Chains /\ means'[g] = means[g] /\ local'[g].image = local[g].image
  BY <1>0, <1>3, <1>4 DEF Chains, Held
<1>. QED
  BY <1>0, <1>1, <1>5, <1>6, <1>7, CallKeepsInv

LEMMA NewFrameBufferKeepsInv ==
  ASSUME Inv, NEW h \in Handles, NewFrameBuffer(h)
  PROVE  Inv'
<1>0. /\ Types /\ InUse /\ Named /\ pc = Idle /\ calls < MaxCalls /\ calls' = calls + 1
      /\ Call /\ AllocHandle(h) /\ Returned(h) /\ calls + 1 \in Objects
      /\ Enqueue(Creates("rtNewFrameBuffer", h, calls + 1, {}))
      /\ curBuffer' = [i \in Devices |-> [curBuffer[i] EXCEPT ![h] = 0]]
      /\ buffers' = [buffers EXCEPT ![h] = 0]
      /\ local' = [local EXCEPT ![h] = [buf |-> 0, image |-> Blank]]
      /\ UNCHANGED <<pc, shown, stream, sinkVars>>
  BY DEF Inv, Call, NewFrameBuffer, Types, Objects
<1>1. PICK k \in Objects : k = calls + 1 /\ k # None
  BY <1>0 DEF Objects
<1>2. means' = [means EXCEPT ![h] = k]
  BY <1>0, <1>1 DEF Returned
<1>3. PICK m \in Functions :
        m.fn = "rtNewFrameBuffer" /\ m.id = h /\ m.obj = k /\ m.args = {}
        /\ m = Creates("rtNewFrameBuffer", h, k, {})
  <2>1. /\ Creates("rtNewFrameBuffer", h, k, {}).fn = "rtNewFrameBuffer"
        /\ Creates("rtNewFrameBuffer", h, k, {}).id = h
        /\ Creates("rtNewFrameBuffer", h, k, {}).obj = k
        /\ Creates("rtNewFrameBuffer", h, k, {}).args = {}
    BY DEF Creates
  <2>2. /\ h \in Handles \cup {0} /\ k \in Objects \cup {None}
        /\ "rtNewFrameBuffer" \in Creators /\ {} \in SUBSET Held
    BY DEF Creators
  <2>3. Creates("rtNewFrameBuffer", h, k, {}) \in Functions
    BY <1>0, <2>2, CreatesType
  <2>. QED
    BY <2>1, <2>3
<1>4. pipeline' = [i \in Devices |-> Append(pipeline[i], m)]
  BY <1>0, <1>1, <1>3 DEF Enqueue
<1>5. pipeline' \in [Devices -> Seq(Functions)]
  BY <1>0, <1>4 DEF Types
<1>6. /\ 0 \in Buffers /\ 0 # None /\ Blank \in [Buffers -> 0 .. MaxCalls]
      /\ [buf |-> 0, image |-> Blank] \in LocalChains
  BY DEF Buffers, Blank, LocalChains
<1>7. /\ buffers' \in [Handles -> Buffers \cup {None}]
      /\ curBuffer' \in [Devices -> [Handles -> Buffers \cup {None}]]
      /\ local' \in [Handles -> LocalChains \cup {None}]
  BY <1>0, <1>6 DEF Types
<1>8. Types' /\ Allocated' /\ counters[h] = 0 /\ counters' = [counters EXCEPT ![h] = 1]
  BY <1>0, <1>2, <1>5, <1>7, AllocKeepsTypes DEF Types
<1>9. /\ Held' = Held \cup {h} /\ h \notin Held /\ buffers[h] = None
      /\ {means'[g] : g \in Held'} = {means[g] : g \in Held} \cup {k}
  BY <1>0, <1>1, <1>2, <1>8, NowHeld
<1>10. /\ \A g \in Handles \ {h} : /\ means'[g] = means[g] /\ counters'[g] = counters[g]
                                   /\ buffers'[g] = buffers[g] /\ local'[g] = local[g]
                                   /\ \A i \in Devices : curBuffer'[i][g] = curBuffer[i][g]
       /\ means'[h] = k /\ counters'[h] = 1 /\ buffers'[h] = 0
       /\ local'[h] = [buf |-> 0, image |-> Blank]
       /\ \A i \in Devices : curBuffer'[i][h] = 0
  BY <1>0, <1>2, <1>8 DEF Types
<1>11. Chains' = Chains \cup {h} /\ h \notin Chains /\ h \notin Held /\ Chains \subseteq Held
  <2>1. \A g \in Handles : g \in Chains' <=> g \in Chains \/ g = h
    BY <1>6, <1>9, <1>10 DEF Chains, Held
  <2>. QED
    BY <1>9, <2>1 DEF Chains, Held
<1>12. InUse'
  <2>. SUFFICES ASSUME NEW g \in Handles
                PROVE  /\ counters'[g] = 0 => buffers'[g] = None
                       /\ buffers'[g] # None =>
                            /\ means'[g] # None /\ local'[g] \in LocalChains
                            /\ local'[g].buf = buffers'[g]
                            /\ \A i \in Devices : curBuffer'[i][g] = buffers'[g]
    BY DEF InUse
  <2>1. CASE g = h
    BY <1>1, <1>6, <1>10, <2>1
  <2>2. CASE g # h
    BY <1>0, <1>10, <2>2 DEF InUse
  <2>. QED
    BY <2>1, <2>2
<1>13. ASSUME NEW b \in CardStates, Holds(b)
       PROVE  Expected(m, b) /\ \A part, c : c = After(part, m, b) => Holds(c)'
  <2>1. Expected(m, b)
    BY <1>3 DEF Expected
  <2>2. ASSUME NEW part, NEW c, c = After(part, m, b) PROVE Holds(c)'
    <3>1. /\ c.obj = [b.obj EXCEPT ![h] = k] /\ c.live = b.live \cup {k}
          /\ c.buf = [b.buf EXCEPT ![k] = 0]
      BY <1>3, <2>2 DEF After, Creators
    <3>2. /\ b.obj \in [Handles -> Objects \cup {None}] /\ Held \subseteq Handles
          /\ b.buf \in [Objects -> Buffers \cup {None}]
      BY DEF CardStates, Held
    <3>3. c.obj[h] = k /\ c.buf[k] = 0
          /\ \A g \in Handles \ {h} : c.obj[g] = b.obj[g]
          /\ \A o \in Objects \ {k} : c.buf[o] = b.buf[o]
      BY <3>1, <3>2
    <3>4. \A g \in Held' : c.obj[g] = means'[g]
      BY <1>9, <1>10, <1>13, <3>2, <3>3 DEF Holds
    <3>5. c.live = {means'[g] : g \in Held'}
      BY <1>9, <1>13, <3>1 DEF Holds
    <3>6. ASSUME NEW g \in Chains PROVE c.buf[means'[g]] = buffers'[g]
      <4>1. g \in Handles \ {h} /\ means[g] \in Objects /\ means[g] <= calls
        BY <1>0, <1>11, <3>2 DEF Held, Named, Known, Types, Transfers, Idle
      <4>2. means[g] # k
        BY <1>0, <1>1, <4>1 DEF Types, Objects
      <4>. QED
        BY <1>10, <1>13, <3>3, <4>1, <4>2 DEF Holds
    <3>7. \A g \in Chains' : c.buf[means'[g]] = buffers'[g]
      BY <1>10, <1>11, <3>3, <3>6
    <3>. QED
      BY <3>4, <3>5, <3>7 DEF Holds
  <2>. QED
    BY <2>1, <2>2
<1>14. \A g \in Chains' :
         \/ g \in Chains /\ means'[g] = means[g] /\ local'[g].image = local[g].image
         \/ means'[g] = calls + 1 /\ local'[g].image = Blank
  BY <1>1, <1>10, <1>11 DEF Held
<1>15. m.fn \notin {"rtRenderFrame", "rtNewDataSet"}
  BY <1>3
<1>16. \A arg \in m.args : arg[2] = means[arg[1]] /\ means'[arg[1]] = means[arg[1]]
  BY <1>3
<1>. QED
  BY <1>0, <1>1, <1>2, <1>4, <1>8, <1>12, <1>13, <1>14, <1>15, <1>16, CallKeepsInv

-----------------------------------------------------------------------------
(* Calls that use an object.                                               *)

LEMMA IncRefKeepsInv ==
  ASSUME Inv, NEW h \in Handles, IncRef(h)
  PROVE  Inv'
<1>0. /\ Types /\ InUse /\ Allocated /\ Call /\ calls < MaxCalls /\ calls' = calls + 1
      /\ h \in Held /\ counters' = [counters EXCEPT ![h] = @ + 1]
      /\ UNCHANGED <<pc, nextHandle, pool, means, buffers, curBuffer, shown, local, pipeline,
                     stream, sinkVars>>
  BY DEF Inv, Call, IncRef, chainVars
<1>1. /\ counters \in [Handles -> Nat] /\ counters[h] > 0 /\ means[h] \in Objects
      /\ calls \in Nat /\ calls + 1 \in 0 .. MaxCalls
      /\ \A g \in Handles : counters[g] <= calls
  BY <1>0 DEF Types, Held
<1>2. counters'[h] = counters[h] + 1 /\ \A g \in Handles \ {h} : counters'[g] = counters[g]
  BY <1>0, <1>1
<1>3. Types'
  <2>1. counters' \in [Handles -> Nat] /\ \A g \in Handles : counters'[g] <= calls'
    BY <1>0, <1>1, <1>2
  <2>. QED
    BY <1>0, <1>1, <2>1 DEF Types
<1>4. \A g \in Handles : counters'[g] = 0 <=> counters[g] = 0
  BY <1>1, <1>2
<1>5. Allocated'
  BY <1>0, <1>1, <1>4 DEF Allocated, Types
<1>6. Held' = Held /\ Chains' = Chains
  <2>1. \A g \in Handles : counters'[g] > 0 <=> counters[g] > 0
    BY <1>1, <1>2
  <2>. QED
    BY <1>0, <2>1 DEF Held, Chains
<1>7. InUse'
  BY <1>0, <1>4 DEF InUse
<1>8. \A b \in CardStates : Holds(b) => Holds(b)'
  BY <1>0, <1>6 DEF Holds
<1>9. means' = [means EXCEPT ![h] = means[h]]
  BY <1>0 DEF Types
<1>10. \A g \in Chains' : g \in Chains /\ means'[g] = means[g] /\ local'[g].image = local[g].image
  BY <1>0, <1>6
<1>. QED
  BY <1>0, <1>1, <1>3, <1>5, <1>7, <1>8, <1>9, <1>10, CallKeepsInv

\* A call that asks the cards to use objects that the application holds.
LEMMA UseKeepsInv ==
  ASSUME Inv, Call, NEW fn \in {"rtSet", "rtSetReference"}, NEW h \in Held,
         NEW args \in SUBSET Held, Enqueue(Function(fn, h, args)),
         UNCHANGED <<pc, hostVars, chainVars, stream, sinkVars>>
  PROVE  Inv'
<1>0. /\ Types /\ InUse /\ Allocated /\ calls < MaxCalls /\ calls' = calls + 1 /\ h \in Handles
      /\ UNCHANGED <<counters, nextHandle, pool, means, buffers, curBuffer, shown, local>>
  BY DEF Inv, Call, hostVars, chainVars, Held
<1>1. PICK m \in Functions :
        /\ m = Creates(fn, h, None, args)
        /\ \A arg \in m.args : arg[1] \in args /\ arg[2] = means[arg[1]]
  <2>1. /\ h \in Handles \cup {0} /\ None \in Objects \cup {None} /\ fn \notin Creators
        /\ fn \notin {"rtDecRef", "rtSwapBuffers"}
    BY <1>0 DEF Creators
  <2>. QED
    BY <1>0, <2>1, CreatesType
<1>2. m.fn = fn
  BY <1>1 DEF Creates
<1>3. pipeline' = [i \in Devices |-> Append(pipeline[i], m)]
  BY <1>1 DEF Enqueue, Function
<1>4. Types'
  <2>1. calls' \in 0 .. MaxCalls /\ \A g \in Handles : counters'[g] <= calls'
    BY <1>0 DEF Types
  <2>2. pipeline' \in [Devices -> Seq(Functions)]
    BY <1>0, <1>3 DEF Types
  <2>. QED
    BY <1>0, <2>1, <2>2 DEF Types
<1>5. Allocated' /\ InUse'
  BY <1>0 DEF Allocated, InUse
<1>6. Held' = Held /\ Chains' = Chains
  BY <1>0 DEF Held, Chains
<1>7. ASSUME NEW b \in CardStates, Holds(b)
      PROVE  Expected(m, b) /\ \A part, c : c = After(part, m, b) => Holds(c)'
  <2>1. Expected(m, b)
    BY <1>0, <1>1, <1>7, HeldExpected
  <2>2. ASSUME NEW part, NEW c, c = After(part, m, b) PROVE Holds(c)'
    <3>1. c.obj = b.obj /\ c.live = b.live /\ c.buf = b.buf
      BY <1>2, <2>2 DEF After, Creators
    <3>. QED
      BY <1>0, <1>6, <1>7, <3>1 DEF Holds
  <2>. QED
    BY <2>1, <2>2
<1>8. means' = [means EXCEPT ![h] = means[h]] /\ means[h] \in Objects \cup {None}
  BY <1>0 DEF Types
<1>9. \A g \in Chains' : g \in Chains /\ means'[g] = means[g] /\ local'[g].image = local[g].image
  BY <1>0, <1>6
<1>10. /\ m.fn \notin {"rtRenderFrame", "rtNewDataSet"}
       /\ \A arg \in m.args : arg[2] = means[arg[1]] /\ means'[arg[1]] = means[arg[1]]
  BY <1>0, <1>1, <1>2
<1>. QED
  BY <1>0, <1>3, <1>4, <1>5, <1>7, <1>8, <1>9, <1>10, CallKeepsInv

\* SwapChain::swapBuffers on the host, and the function that does it on the cards.
LEMMA SwapBuffersKeepsInv ==
  ASSUME Inv, NEW h \in Handles, SwapBuffers(h)
  PROVE  Inv'
<1>0. /\ Types /\ InUse /\ Allocated /\ Named /\ Call /\ calls < MaxCalls /\ calls' = calls + 1
      /\ h \in Chains /\ h \in Held /\ Enqueue(Function("rtSwapBuffers", h, {h}))
      /\ curBuffer' = [i \in Devices |-> [curBuffer[i] EXCEPT ![h] = NextBuffer(@)]]
      /\ buffers' = [buffers EXCEPT ![h] = (@ + 1) % Depth]
      /\ local' = [local EXCEPT ![h].buf = (@ + 1) % Depth]
      /\ UNCHANGED <<pc, counters, nextHandle, pool, means, shown, stream, sinkVars>>
  BY DEF Inv, Call, SwapBuffers, hostVars, Chains
<1>1. PICK m \in Functions :
        m.fn = "rtSwapBuffers" /\ m.id = h /\ m.args = {<<h, means[h]>>}
        /\ m = Creates("rtSwapBuffers", h, None, {h})
  <2>1. /\ Creates("rtSwapBuffers", h, None, {h}).fn = "rtSwapBuffers"
        /\ Creates("rtSwapBuffers", h, None, {h}).id = h
        /\ Creates("rtSwapBuffers", h, None, {h}).args = {<<h, means[h]>>}
    BY DEF Creates
  <2>2. /\ h \in Handles \cup {0} /\ None \in Objects \cup {None}
        /\ "rtSwapBuffers" \notin Creators /\ {h} \in SUBSET Held
    BY <1>0 DEF Creators
  <2>3. Creates("rtSwapBuffers", h, None, {h}) \in Functions
    BY <1>0, <2>2, CreatesType
  <2>. QED
    BY <2>1, <2>3
<1>2. pipeline' = [i \in Devices |-> Append(pipeline[i], m)]
  BY <1>0, <1>1 DEF Enqueue, Function
<1>3. PICK c \in Buffers : c = buffers[h]
  BY <1>0 DEF Types, Chains
<1>4. PICK d \in Buffers : d = (c + 1) % Depth /\ d = NextBuffer(c) /\ d # None
  <2>1. c \in Nat /\ c < Depth
    BY <1>3 DEF Buffers
  <2>2. (c + 1) % Depth = IF c + 1 >= Depth THEN 0 ELSE c + 1
    <3>1. CASE c + 1 >= Depth
      <4>1. c + 1 = Depth
        BY <2>1, <3>1
      <4>2. Depth % Depth = 0
        OBVIOUS
      <4>. QED
        BY <3>1, <4>1, <4>2
    <3>2. CASE ~ (c + 1 >= Depth)
      BY <2>1, <3>2
    <3>. QED
      BY <3>1, <3>2
  <2>3. (c + 1) % Depth \in Buffers
    BY <2>1 DEF Buffers
  <2>. QED
    BY <2>2, <2>3 DEF NextBuffer, Buffers
<1>5. local[h] \in LocalChains /\ local[h].buf = c /\ \A i \in Devices : curBuffer[i][h] = c
  BY <1>0, <1>3 DEF InUse, Buffers, Chains
<1>6. /\ \A g \in Handles \ {h} : /\ buffers'[g] = buffers[g] /\ local'[g] = local[g]
                                  /\ \A i \in Devices : curBuffer'[i][g] = curBuffer[i][g]
      /\ buffers'[h] = d /\ local'[h] = [local[h] EXCEPT !.buf = d]
      /\ \A i \in Devices : curBuffer'[i][h] = d
  <2>1. buffers' = [buffers EXCEPT ![h] = d] /\ local' = [local EXCEPT ![h].buf = d]
    BY <1>0, <1>3, <1>4, <1>5
  <2>2. curBuffer' = [i \in Devices |-> [curBuffer[i] EXCEPT ![h] = d]]
    BY <1>0, <1>4, <1>5
  <2>3. \A i \in Devices : curBuffer'[i] = [curBuffer[i] EXCEPT ![h] = d]
    BY <2>2
  <2>4. \A i \in Devices : curBuffer'[i][h] = d
    BY <1>0, <2>3 DEF Types
  <2>5. \A g \in Handles \ {h} : \A i \in Devices : curBuffer'[i][g] = curBuffer[i][g]
    BY <1>0, <2>3 DEF Types
  <2>6. /\ \A g \in Handles \ {h} : buffers'[g] = buffers[g] /\ local'[g] = local[g]
        /\ buffers'[h] = d /\ local'[h] = [local[h] EXCEPT !.buf = d]
    BY <1>0, <2>1 DEF Types
  <2>. QED
    BY <2>4, <2>5, <2>6
<1>7. local'[h] \in LocalChains /\ local'[h].buf = d /\ local'[h].image = local[h].image
  BY <1>5, <1>6 DEF LocalChains
<1>8. Types'
  <2>1. calls' \in 0 .. MaxCalls /\ \A g \in Handles : counters'[g] <= calls'
    BY <1>0 DEF Types
  <2>2. pipeline' \in [Devices -> Seq(Functions)]
    BY <1>0, <1>2 DEF Types
  <2>3. /\ buffers' \in [Handles -> Buffers \cup {None}]
        /\ local' \in [Handles -> LocalChains \cup {None}]
    BY <1>0, <1>6, <1>7 DEF Types
  <2>4. curBuffer' \in [Devices -> [Handles -> Buffers \cup {None}]]
    BY <1>0, <1>4, <1>5 DEF Types
  <2>. QED
    BY <1>0, <2>1, <2>2, <2>3, <2>4 DEF Types
<1>9. Allocated'
  BY <1>0 DEF Allocated
<1>10. Held' = Held /\ Chains' = Chains
  <2>1. Held' = Held
    BY <1>0 DEF Held
  <2>2. \A g \in Held : buffers'[g] # None <=> buffers[g] # None
    BY <1>0, <1>4, <1>6 DEF Held, Chains
  <2>. QED
    BY <2>1, <2>2 DEF Chains
<1>11. InUse'
  <2>. SUFFICES ASSUME NEW g \in Handles
                PROVE  /\ counters'[g] = 0 => buffers'[g] = None
                       /\ buffers'[g] # None =>
                            /\ means'[g] # None /\ local'[g] \in LocalChains
                            /\ local'[g].buf = buffers'[g]
                            /\ \A i \in Devices : curBuffer'[i][g] = buffers'[g]
    BY DEF InUse
  <2>1. CASE g = h
    <3>1. counters[h] # 0 /\ means[h] # None
      BY <1>0 DEF Held
    <3>. QED
      BY <1>0, <1>6, <1>7, <2>1, <3>1
  <2>2. CASE g # h
    BY <1>0, <1>6, <2>2 DEF InUse
  <2>. QED
    BY <2>1, <2>2
<1>12. ASSUME NEW b \in CardStates, Holds(b)
       PROVE  Expected(m, b) /\ \A part, e : e = After(part, m, b) => Holds(e)'
  <2>1. Expected(m, b)
    BY <1>0, <1>1, <1>12, HeldExpected
  <2>2. ASSUME NEW part, NEW e, e = After(part, m, b) PROVE Holds(e)'
    <3>0. PICK o \in Objects : o = means[h] /\ b.obj[h] = o /\ b.buf[o] = c
      BY <1>0, <1>3, <1>12 DEF Holds, Held, Types
    <3>1. e.obj = b.obj /\ e.live = b.live /\ e.buf = [b.buf EXCEPT ![o] = d]
      BY <1>1, <1>4, <2>2, <3>0 DEF After, Creators
    <3>2. b.buf \in [Objects -> Buffers \cup {None}]
      BY DEF CardStates
    <3>3. ASSUME NEW g \in Chains PROVE e.buf[means'[g]] = buffers'[g]
      <4>1. g \in Handles /\ means[g] \in Objects
        BY DEF Chains, Held, Types, Inv
      <4>2. CASE g = h
        BY <1>0, <1>6, <3>0, <3>1, <3>2, <4>2
      <4>3. CASE g # h
        <5>1. means[g] # o
          BY <1>0, <3>0, <4>1, <4>3 DEF Named, Held
        <5>2. b.buf[means[g]] = buffers[g]
          BY <1>12 DEF Holds
        <5>. QED
          BY <1>0, <1>6, <3>1, <3>2, <4>1, <4>3, <5>1, <5>2
      <4>. QED
        BY <4>2, <4>3
    <3>. QED
      BY <1>0, <1>10, <1>12, <3>1, <3>3 DEF Holds
  <2>. QED
    BY <2>1, <2>2
<1>13. means' = [means EXCEPT ![h] = means[h]] /\ means[h] \in Objects \cup {None}
  BY <1>0 DEF Types
<1>14. \A g \in Chains' : g \in Chains /\ means'[g] = means[g] /\ local'[g].image = local[g].image
  BY <1>0, <1>6, <1>7, <1>10 DEF Chains, Held
<1>15. /\ m.fn \notin {"rtRenderFrame", "rtNewDataSet"}
       /\ \A arg \in m.args : arg[2] = means[arg[1]] /\ means'[arg[1]] = means[arg[1]]
  BY <1>0, <1>1
<1>16. Call /\ UNCHANGED <<pc, stream, sinkVars>>
  BY <1>0
<1>. QED
  BY <1>2, <1>8, <1>9, <1>11, <1>12, <1>13, <1>14, <1>15, <1>16, CallKeepsInv

\* The last reference of a handle: it is free again, and the cards are told.
LEMMA LastRefKeepsInv ==
  ASSUME Inv, NEW h \in Handles, DecRef(h), Freed(h)
  PROVE  Inv'
<1>0. /\ Types /\ InUse /\ Allocated /\ Named /\ Call /\ calls < MaxCalls /\ calls' = calls + 1
      /\ h \in Held /\ counters[h] = 1 /\ counters' = [counters EXCEPT ![h] = @ - 1]
      /\ pool' = Append(pool, h)
      /\ buffers' = [buffers EXCEPT ![h] = None] /\ local' = [local EXCEPT ![h] = None]
      /\ curBuffer' = [i \in Devices |-> [curBuffer[i] EXCEPT ![h] = None]]
      /\ Enqueue(Function("rtDecRef", h, {h}))
      /\ UNCHANGED <<pc, nextHandle, means, shown, stream, sinkVars>>
  BY DEF Inv, Call, DecRef, Freed
<1>1. PICK m \in Functions :
        m.fn = "rtDecRef" /\ m.id = h /\ m.args = {<<h, means[h]>>}
        /\ m = Creates("rtDecRef", h, None, {h})
  <2>1. /\ Creates("rtDecRef", h, None, {h}).fn = "rtDecRef"
        /\ Creates("rtDecRef", h, None, {h}).id = h
        /\ Creates("rtDecRef", h, None, {h}).args = {<<h, means[h]>>}
    BY DEF Creates
  <2>2. /\ h \in Handles \cup {0} /\ None \in Objects \cup {None}
        /\ "rtDecRef" \notin Creators /\ {h} \in SUBSET Held
    BY <1>0 DEF Creators
  <2>3. Creates("rtDecRef", h, None, {h}) \in Functions
    BY <1>0, <2>2, CreatesType
  <2>. QED
    BY <2>1, <2>3
<1>2. pipeline' = [i \in Devices |-> Append(pipeline[i], m)]
  BY <1>0, <1>1 DEF Enqueue, Function
<1>3. /\ counters'[h] = 0 /\ buffers'[h] = None
      /\ \A g \in Handles \ {h} : /\ counters'[g] = counters[g] /\ buffers'[g] = buffers[g]
                                  /\ local'[g] = local[g]
                                  /\ \A i \in Devices : curBuffer'[i][g] = curBuffer[i][g]
  <2>1. \A i \in Devices : curBuffer'[i] = [curBuffer[i] EXCEPT ![h] = None]
    BY <1>0
  <2>2. \A g \in Handles \ {h} : \A i \in Devices : curBuffer'[i][g] = curBuffer[i][g]
    BY <1>0, <2>1 DEF Types
  <2>. QED
    BY <1>0, <2>2 DEF Types
<1>4. Types'
  <2>1. calls' \in 0 .. MaxCalls /\ calls \in Nat
    BY <1>0 DEF Types
  <2>2. pipeline' \in [Devices -> Seq(Functions)]
    BY <1>0, <1>2 DEF Types
  <2>3. counters' \in [Handles -> Nat] /\ \A g \in Handles : counters'[g] <= calls'
    BY <1>0, <1>3, <2>1 DEF Types
  <2>4. /\ buffers' \in [Handles -> Buffers \cup {None}]
        /\ local' \in [Handles -> LocalChains \cup {None}] /\ pool' \in Seq(Handles)
    BY <1>0 DEF Types
  <2>5. curBuffer' \in [Devices -> [Handles -> Buffers \cup {None}]]
    BY <1>0 DEF Types
  <2>. QED
    BY <1>0, <2>1, <2>2, <2>3, <2>4, <2>5 DEF Types
<1>5. Allocated'
  <2>0. pool \in Seq(Handles) /\ pool' = Append(pool, h)
    BY <1>0 DEF Types
  <2>1. PICK p \in Nat : p = Len(pool) /\ Len(pool') = p + 1 /\ pool'[p + 1] = h
                         /\ \A j \in 1 .. p : pool'[j] = pool[j] /\ pool[j] \in Handles
    BY <2>0
  <2>2. \A j \in 1 .. p : pool[j] < nextHandle /\ counters[pool[j]] = 0 /\ pool[j] # h
    BY <1>0, <2>1 DEF Allocated
  <2>3. h < nextHandle
    BY <1>0 DEF Allocated, Types, Handles
  <2>4. \A j \in 1 .. p + 1 : pool'[j] < nextHandle' /\ counters'[pool'[j]] = 0
    BY <1>0, <1>3, <2>1, <2>2, <2>3
  <2>5. \A j, k \in 1 .. p + 1 : pool'[j] = pool'[k] => j = k
    <3>1. \A j, k \in 1 .. p : pool[j] = pool[k] => j = k
      BY <1>0, <2>1 DEF Allocated
    <3>. QED
      BY <2>1, <2>2, <3>1
  <2>6. \A g \in Handles : g >= nextHandle' => counters'[g] = 0
    BY <1>0, <1>3 DEF Allocated
  <2>. QED
    BY <2>1, <2>4, <2>5, <2>6 DEF Allocated
<1>6. InUse'
  BY <1>0, <1>3 DEF InUse
<1>7. Held' = Held \ {h} /\ Chains' = Chains \ {h}
  <2>1. \A g \in Handles : g \in Held' <=> g \in Held /\ g # h
    BY <1>0, <1>3 DEF Held
  <2>2. Held' = Held \ {h}
    BY <2>1 DEF Held
  <2>3. \A g \in Handles : g \in Chains' <=> g \in Chains /\ g # h
    BY <1>3, <2>2 DEF Chains
  <2>. QED
    BY <2>2, <2>3 DEF Chains, Held
<1>8. ASSUME NEW b \in CardStates, Holds(b)
      PROVE  Expected(m, b) /\ \A part, c : c = After(part, m, b) => Holds(c)'
  <2>1. Expected(m, b)
    BY <1>0, <1>1, <1>8, HeldExpected
  <2>2. ASSUME NEW part, NEW c, c = After(part, m, b) PROVE Holds(c)'
    <3>1. b.obj[h] = means[h]
      BY <1>0, <1>8 DEF Holds
    <3>2. c.obj = b.obj /\ c.live = b.live \ {means[h]} /\ c.buf = b.buf
      BY <1>1, <2>2, <3>1 DEF After, Creators
    <3>3. \A g \in Held : g # h => means[g] # means[h]
      BY <1>0 DEF Named, Held
    <3>4. c.live = {means'[g] : g \in Held'}
      BY <1>0, <1>7, <1>8, <3>2, <3>3 DEF Holds
    <3>5. \A g \in Chains' : c.buf[means'[g]] = buffers'[g]
      BY <1>0, <1>3, <1>7, <1>8, <3>2 DEF Holds, Chains, Held
    <3>6. \A g \in Held' : c.obj[g] = means'[g]
      BY <1>0, <1>7, <1>8, <3>2 DEF Holds
    <3>. QED
      BY <3>4, <3>5, <3>6 DEF Holds
  <2>. QED
    BY <2>1, <2>2
<1>9. means' = [means EXCEPT ![h] = means[h]] /\ means[h] \in Objects \cup {None}
  BY <1>0 DEF Types
<1>10. \A g \in Chains' : g \in Chains /\ means'[g] = means[g] /\ local'[g].image = local[g].image
  BY <1>0, <1>3, <1>7 DEF Chains, Held
<1>11. /\ m.fn \notin {"rtRenderFrame", "rtNewDataSet"}
       /\ \A arg \in m.args : arg[2] = means[arg[1]] /\ means'[arg[1]] = means[arg[1]]
  BY <1>0, <1>1
<1>12. Call /\ UNCHANGED <<pc, stream, sinkVars>>
  BY <1>0
<1>. QED
  BY <1>2, <1>4, <1>5, <1>6, <1>8, <1>9, <1>10, <1>11, <1>12, CallKeepsInv

LEMMA OtherRefKeepsInv ==
  ASSUME Inv, NEW h \in Handles, DecRef(h), ~ Freed(h)
  PROVE  Inv'
<1>0. /\ Types /\ InUse /\ Allocated /\ Call /\ calls < MaxCalls /\ calls' = calls + 1
      /\ h \in Held /\ counters[h] # 1 /\ counters' = [counters EXCEPT ![h] = @ - 1]
      /\ UNCHANGED <<pc, nextHandle, pool, means, buffers, curBuffer, shown, local, pipeline,
                     stream, sinkVars>>
  BY DEF Inv, Call, DecRef, Freed
<1>1. /\ counters \in [Handles -> Nat] /\ counters[h] > 0 /\ means[h] \in Objects
      /\ calls \in Nat /\ calls + 1 \in 0 .. MaxCalls
      /\ \A g \in Handles : counters[g] <= calls
  BY <1>0 DEF Types, Held
<1>2. /\ counters'[h] = counters[h] - 1 /\ counters[h] - 1 \in Nat \ {0}
      /\ \A g \in Handles \ {h} : counters'[g] = counters[g]
  BY <1>0, <1>1
<1>3. Types'
  <2>1. counters' \in [Handles -> Nat] /\ \A g \in Handles : counters'[g] <= calls'
    BY <1>0, <1>1, <1>2
  <2>. QED
    BY <1>0, <1>1, <2>1 DEF Types
<1>4. \A g \in Handles : counters'[g] = 0 <=> counters[g] = 0
  BY <1>1, <1>2
<1>5. Allocated'
  BY <1>0, <1>1, <1>4 DEF Allocated, Types
<1>6. Held' = Held /\ Chains' = Chains
  <2>1. \A g \in Handles : counters'[g] > 0 <=> counters[g] > 0
    BY <1>1, <1>2
  <2>. QED
    BY <1>0, <2>1 DEF Held, Chains
<1>7. InUse'
  BY <1>0, <1>4 DEF InUse
<1>8. \A b \in CardStates : Holds(b) => Holds(b)'
  BY <1>0, <1>6 DEF Holds
<1>9. means' = [means EXCEPT ![h] = means[h]]
  BY <1>0 DEF Types
<1>10. \A g \in Chains' : g \in Chains /\ means'[g] = means[g] /\ local'[g].image = local[g].image
  BY <1>0, <1>6
<1>. QED
  BY <1>0, <1>1, <1>3, <1>5, <1>7, <1>8, <1>9, <1>10, CallKeepsInv

-----------------------------------------------------------------------------
(* Frames.                                                                 *)

\* The frame that has just been enqueued is the last one of its buffer.
LEMMA LastFrame ==
  ASSUME NEW i \in Devices, NEW h, NEW b, NEW m, pipeline[i] \in Seq(Functions),
         m \in Functions, pipeline'[i] = Append(pipeline[i], m), Renders(m, h, b)',
         m.n = local'[h].image[b]
  PROVE  Shows(i, h, b)'
<1>1. PICK p \in Nat : p = Len(pipeline[i]) /\ Len(pipeline'[i]) = p + 1 /\ pipeline'[i][p + 1] = m
  OBVIOUS
<1>2. Renders(pipeline[i][p + 1], h, b)'
  <2>1. m = pipeline'[i][p + 1]
    BY <1>1
  <2>. QED
    BY <2>1 DEF Renders
<1>3. p + 1 \in 1 .. p + 1
  BY <1>1
<1>4. ~ (\A j \in 1 .. p + 1 : ~ Renders(pipeline[i][j], h, b)')
  BY <1>2, <1>3
<1>5. ASSUME NEW j \in 1 .. p + 1,
             \A l \in 1 .. p + 1 : Renders(pipeline[i][l], h, b)' => l <= j
      PROVE  pipeline'[i][j].n = local'[h].image[b]
  <2>1. p + 1 <= j
    BY <1>2, <1>3, <1>5
  <2>2. j = p + 1
    BY <1>1, <2>1
  <2>. QED
    BY <1>1, <2>2
<1>. QED
  BY <1>1, <1>4, <1>5 DEF Shows

\* The frames of the other buffers.
LEMMA OtherFrame ==
  ASSUME NEW i \in Devices, NEW h, NEW b, Shows(i, h, b), pipeline[i] \in Seq(Functions),
         NEW m \in Functions, pipeline'[i] = Append(pipeline[i], m), ~ Renders(m, h, b)',
         pixels'[i] = pixels[i], means'[h] = means[h],
         local'[h].image[b] = local[h].image[b]
  PROVE  Shows(i, h, b)'
<1>1. PICK p \in Nat : /\ p = Len(pipeline[i]) /\ Len(pipeline'[i]) = p + 1
                       /\ pipeline'[i][p + 1] = m
                       /\ \A j \in 1 .. p : j \in 1 .. p + 1 /\ pipeline'[i][j] = pipeline[i][j]
  OBVIOUS
<1>2. \A j \in 1 .. p : Renders(pipeline[i][j], h, b)' <=> Renders(pipeline[i][j], h, b)
  BY <1>1 DEF Renders
<1>3. \A j \in 1 .. p + 1 : Renders(pipeline[i][j], h, b)' => j \in 1 .. p
  <2>1. ~ Renders(pipeline[i][p + 1], h, b)'
    BY <1>1 DEF Renders
  <2>. QED
    BY <1>1, <2>1
<1>4. ASSUME NEW j \in 1 .. p + 1, Renders(pipeline[i][j], h, b)',
             \A l \in 1 .. p + 1 : Renders(pipeline[i][l], h, b)' => l <= j
      PROVE  pipeline'[i][j].n = local'[h].image[b]
  <2>1. j \in 1 .. p /\ Renders(pipeline[i][j], h, b)
    BY <1>2, <1>3, <1>4
  <2>2. \A l \in 1 .. p : Renders(pipeline[i][l], h, b) => l <= j
    BY <1>1, <1>2, <1>4
  <2>3. pipeline[i][j].n = local[h].image[b]
    BY <1>1, <2>1, <2>2 DEF Shows
  <2>. QED
    BY <1>1, <2>1, <2>3
<1>5. ASSUME \A j \in 1 .. p + 1 : ~ Renders(pipeline[i][j], h, b)'
      PROVE  pixels'[i][means'[h]][b] = local'[h].image[b]
  <2>1. \A j \in 1 .. p : ~ Renders(pipeline[i][j], h, b)
    BY <1>1, <1>2, <1>5
  <2>. QED
    BY <1>1, <2>1 DEF Shows
<1>. QED
  BY <1>1, <1>4, <1>5 DEF Shows

\* rtRenderFrame passes the buffer along that the card will find current.
LEMMA RenderFrameKeepsInv ==
  ASSUME Inv, NEW h \in Handles, RenderFrame(h)
  PROVE  Inv'
<1> DEFINE m(i) == [Function("rtRenderFrame", h, {h}) EXCEPT !.buf = curBuffer[i][h],
                                                             !.n = calls + 1]
<1>0. /\ Types /\ CardTypes /\ InUse /\ Allocated /\ Named /\ Painted /\ Call /\ pc = Idle
      /\ calls < MaxCalls /\ calls' = calls + 1 /\ h \in Chains /\ h \in Held
      /\ pipeline' = [i \in Devices |-> Append(pipeline[i], m(i))]
      /\ local' = [local EXCEPT ![h].image[local[h].buf] = calls + 1]
      /\ UNCHANGED <<pc, counters, nextHandle, pool, means, buffers, curBuffer, shown, stream,
                     sinkVars>>
  BY DEF Inv, Call, RenderFrame, hostVars, Chains
<1>1. PICK k \in Objects : k = calls + 1
  <2>1. calls \in 0 .. MaxCalls /\ calls < MaxCalls
    BY <1>0 DEF Types
  <2>. QED
    BY <2>1 DEF Objects
<1>2. PICK c \in Buffers : c = buffers[h]
  BY <1>0 DEF Types, Chains
<1>3. PICK o \in Objects : o = means[h]
  BY <1>0 DEF Types, Held
<1>4. local[h] \in LocalChains /\ local[h].buf = c /\ \A i \in Devices : curBuffer[i][h] = c
  BY <1>0, <1>2 DEF InUse, Buffers, Chains
<1>5. PICK r \in [fn : {"rtRenderFrame"}, id : {h}, obj : {None}, buf : Nat, n : Nat,
                  args : {{<<h, o>>}}] : r = Function("rtRenderFrame", h, {h})
  <2>1. {<<a, means[a]>> : a \in {h}} = {<<h, o>>}
    BY <1>3
  <2>. QED
    BY <2>1 DEF Function, Creates
<1>6. PICK f \in Functions :
        /\ f = [r EXCEPT !.buf = c, !.n = k]
        /\ f.fn = "rtRenderFrame" /\ f.id = h /\ f.buf = c /\ f.n = k /\ f.args = {<<h, o>>}
  <2>1. PICK f : f = [r EXCEPT !.buf = c, !.n = k]
    OBVIOUS
  <2>2. c \in Nat /\ k \in Nat
    BY DEF Objects, Buffers
  <2>3. f \in [fn : {"rtRenderFrame"}, id : {h}, obj : {None}, buf : Nat, n : Nat,
               args : {{<<h, o>>}}]
    BY <2>1, <2>2
  <2>4. f.buf = c /\ f.n = k
    BY <2>1
  <2>5. f.fn = "rtRenderFrame" /\ f.id = h /\ f.obj = None /\ f.args = {<<h, o>>}
    BY <2>3
  <2>6. f = [fn |-> f.fn, id |-> f.id, obj |-> f.obj, buf |-> f.buf, n |-> f.n, args |-> f.args]
    BY <2>3
  <2>7. h \in Handles /\ {<<h, o>>} \in SUBSET (Handles \X Objects)
    <3>1. h \in Handles
      OBVIOUS
    <3>2. <<h, o>> \in Handles \X Objects
      BY <3>1
    <3>. QED
      BY <3>1, <3>2
  <2>8. f \in Functions
    BY <2>2, <2>4, <2>5, <2>6, <2>7 DEF Functions, Creators
  <2>. QED
    BY <2>1, <2>4, <2>5, <2>8
<1>7. ASSUME NEW i \in Devices PROVE m(i) = f
  <2>1. curBuffer[i][h] = c
    BY <1>4
  <2>. QED
    BY <1>1, <1>5, <1>6, <2>1, Zenon
<1>8. pipeline' = [i \in Devices |-> Append(pipeline[i], f)]
  BY <1>0, <1>7
<1> HIDE DEF m
<1>9. /\ \A g \in Handles \ {h} : local'[g] = local[g]
      /\ local'[h] = [local[h] EXCEPT !.image[c] = k]
  BY <1>0, <1>1, <1>4 DEF Types
<1>10. /\ local'[h] \in LocalChains /\ local'[h].buf = c /\ local'[h].image[c] = k
       /\ \A b \in Buffers : b # c => local'[h].image[b] = local[h].image[b]
  <2>1. k \in 0 .. MaxCalls
    BY DEF Objects
  <2>. QED
    BY <1>4, <1>9, <2>1 DEF LocalChains
<1>11. Types'
  <2>1. calls' \in 0 .. MaxCalls /\ \A g \in Handles : counters'[g] <= calls'
    BY <1>0 DEF Types
  <2>2. pipeline' \in [Devices -> Seq(Functions)]
    <3>1. pipeline \in [Devices -> Seq(Functions)] /\ f \in Functions
      BY <1>0, <1>6 DEF Types
    <3>. QED
      BY <1>8, <3>1
  <2>3. local' \in [Handles -> LocalChains \cup {None}]
    BY <1>0, <1>9, <1>10 DEF Types
  <2>. QED
    BY <1>0, <2>1, <2>2, <2>3 DEF Types
<1>12. Allocated'
  BY <1>0 DEF Allocated
<1>13. Held' = Held /\ Chains' = Chains
  BY <1>0 DEF Held, Chains
<1>14. InUse'
  <2>. SUFFICES ASSUME NEW g \in Handles
                PROVE  /\ counters'[g] = 0 => buffers'[g] = None
                       /\ buffers'[g] # None =>
                            /\ means'[g] # None /\ local'[g] \in LocalChains
                            /\ local'[g].buf = buffers'[g]
                            /\ \A i \in Devices : curBuffer'[i][g] = buffers'[g]
    BY DEF InUse
  <2>1. CASE g = h
    <3>1. counters[h] # 0 /\ means[h] # None
      BY <1>0 DEF Held
    <3>. QED
      BY <1>0, <1>2, <1>4, <1>10, <2>1, <3>1
  <2>2. CASE g # h
    BY <1>0, <1>9, <2>2 DEF InUse
  <2>. QED
    BY <2>1, <2>2
<1>15. ASSUME NEW b \in CardStates, Holds(b)
       PROVE  Expected(f, b) /\ \A part, e : e = After(part, f, b) => Holds(e)'
  <2>1. b.obj[h] = o /\ b.buf[o] = c /\ o \in b.live
    BY <1>0, <1>2, <1>3, <1>15 DEF Holds
  <2>2. Expected(f, b)
    BY <1>6, <2>1 DEF Expected
  <2>3. ASSUME NEW part, NEW e, e = After(part, f, b) PROVE Holds(e)'
    <3>1. e.obj = b.obj /\ e.live = b.live /\ e.buf = b.buf
      BY <1>6, <2>3 DEF After, Creators
    <3>. QED
      BY <1>0, <1>13, <1>15, <3>1 DEF Holds
  <2>. QED
    BY <2>2, <2>3
<1>16. means' = [means EXCEPT ![h] = means[h]] /\ means[h] \in Objects \cup {None}
  BY <1>0 DEF Types
<1>17. Painted'
  <2>1. ASSUME NEW i \in Devices, NEW g \in Chains', NEW b \in Buffers
        PROVE  Shows(i, g, b)'
    <3>0. /\ pipeline[i] \in Seq(Functions) /\ pipeline'[i] = Append(pipeline[i], f)
          /\ means' = means /\ pixels'[i] = pixels[i] /\ g \in Handles /\ Shows(i, g, b)
      BY <1>0, <1>8, <1>13 DEF Types, Painted, Chains, Held, sinkVars
    <3>1. CASE g = h /\ b = c
      <4>1. Renders(f, g, b)'
        BY <1>3, <1>6, <3>0, <3>1 DEF Renders
      <4>2. f.n = local'[g].image[b]
        BY <1>6, <1>10, <3>1
      <4>. QED
        BY <1>6, <3>0, <4>1, <4>2, LastFrame
    <3>2. CASE ~ (g = h /\ b = c)
      <4>1. ~ Renders(f, g, b)'
        <5>1. CASE g = h
          BY <1>6, <3>2, <5>1 DEF Renders
        <5>2. CASE g # h
          <6>1. <<h, o>> # <<g, means[g]>>
            BY <5>2
          <6>. QED
            BY <1>6, <3>0, <6>1 DEF Renders
        <5>. QED
          BY <5>1, <5>2
      <4>2. local'[g].image[b] = local[g].image[b]
        BY <1>9, <1>10, <3>0, <3>2
      <4>. QED
        BY <1>6, <3>0, <4>1, <4>2, OtherFrame
    <3>. QED
      BY <3>1, <3>2
  <2>2. ASSUME NEW i \in Devices, NEW l \in Objects, l > calls' PROVE pixels'[i][l] = Blank
    <3>1. l > calls
      BY <1>0, <2>2 DEF Types, Objects
    <3>. QED
      BY <1>0, <3>1 DEF Painted, sinkVars
  <2>. QED
    BY <2>1, <2>2 DEF Painted
<1>18. \A i \in Devices : \E e \in Functions :
         /\ e.fn # "rtNewDataSet" /\ pipeline'[i] = Append(pipeline[i], e)
         /\ \A arg \in e.args : arg[2] = means[arg[1]] /\ means'[arg[1]] = means[arg[1]]
         /\ \A b \in CardStates : Holds(b) =>
              Expected(e, b) /\ \A part, d : d = After(part, e, b) => Holds(d)'
  <2>1. \A arg \in f.args : arg[2] = means[arg[1]] /\ means'[arg[1]] = means[arg[1]]
    BY <1>0, <1>3, <1>6
  <2>2. \A i \in Devices : pipeline'[i] = Append(pipeline[i], f)
    BY <1>8
  <2>3. f \in Functions /\ f.fn # "rtNewDataSet"
    BY <1>6
  <2>. QED
    BY <1>15, <2>1, <2>2, <2>3
<1>19. Call /\ UNCHANGED <<pc, stream, sinkVars>>
  BY <1>0
<1>. QED
  BY <1>11, <1>12, <1>14, <1>16, <1>17, <1>18, <1>19, CallKeeps

-----------------------------------------------------------------------------
(* Transfers, and calls that wait.                                         *)

\* A step of the host that renders nothing and creates no chain.
LEMMA HostKeeps ==
  ASSUME Inv, UNCHANGED sinkVars, Types', Allocated', InUse', InTransfer', Streamed', Mapped',
         calls <= calls', Known <= Known',
         NEW h, NEW k \in Objects \cup {None}, means' = [means EXCEPT ![h] = k],
         k = None \/ k = means[h] \/ (k = Known' /\ Known < Known'),
         \A g \in Chains' :
           g \in Chains /\ means'[g] = means[g] /\ local'[g].image = local[g].image,
         stream' = stream \/ NoneSet,
         \A i \in Devices :
           \/ /\ pipeline'[i] = pipeline[i]
              /\ \A b \in CardStates : Agrees(i, b) => Agrees(i, b)'
           \/ \E m \in Functions :
                /\ m.fn # "rtRenderFrame" /\ pipeline'[i] = Append(pipeline[i], m)
                /\ \A arg \in m.args : arg[2] = means[arg[1]] /\ means'[arg[1]] = means[arg[1]]
                /\ \A b \in CardStates : Agrees(i, b) =>
                     Expected(m, b) /\ \A c : c = After(stream'[i], m, b) => Agrees(i, c)'
  PROVE  Inv'
<1>0. /\ Types /\ CardTypes /\ Named /\ Behind /\ Painted /\ Arrived
      /\ calls \in Nat /\ calls' \in Nat /\ Known \in Int /\ Known' \in Int
  <2>1. Types
    BY DEF Inv
  <2>2. calls \in Nat
    BY <2>1 DEF Types
  <2>3. calls' \in Nat
    BY DEF Types
  <2>. QED
    BY <2>1, <2>2, <2>3 DEF Inv, Known
<1>1. CardTypes' /\ Arrived'
  BY <1>0 DEF CardTypes, Arrived, sinkVars
<1>2. Named'
  <2>1. \A i \in Devices :
          \/ pipeline'[i] = pipeline[i]
          \/ \E m \in Functions :
               /\ pipeline'[i] = Append(pipeline[i], m)
               /\ \A arg \in m.args : arg[2] = means[arg[1]] /\ means'[arg[1]] = means[arg[1]]
    OBVIOUS
  <2>. QED
    BY <1>0, <2>1, NamedKept
<1>3. Behind'
  <2>. SUFFICES ASSUME NEW i \in Devices
                PROVE (\E b \in CardStates :
                         Leads(stream[i], Card(i), pipeline[i], b) /\ Agrees(i, b))'
    BY DEF Behind
  <2>1. \/ /\ pipeline'[i] = pipeline[i]
           /\ \A b \in CardStates : Agrees(i, b) => Agrees(i, b)'
        \/ \E m \in Functions :
             /\ pipeline'[i] = Append(pipeline[i], m)
             /\ \A b \in CardStates : Agrees(i, b) =>
                  Expected(m, b) /\ \A c : c = After(stream'[i], m, b) => Agrees(i, c)'
    OBVIOUS
  <2>2. /\ stream'[i] \in Parts
        /\ \/ stream'[i] = stream[i]
           \/ \A j \in 1 .. Len(pipeline[i]) : pipeline[i][j].fn # "rtNewDataSet"
    BY DEF Types, NoneSet
  <2>. QED
    BY <1>0, <2>1, <2>2, BehindKept
<1>4. Painted'
  <2>1. \A i \in Devices :
          \/ pipeline'[i] = pipeline[i]
          \/ \E m \in Functions :
               m.fn # "rtRenderFrame" /\ pipeline'[i] = Append(pipeline[i], m)
    OBVIOUS
  <2>2. UNCHANGED pixels
    BY DEF sinkVars
  <2>. QED
    BY <1>0, <2>1, <2>2, PaintedKept
<1>. QED
  BY <1>1, <1>2, <1>3, <1>4 DEF Inv

LEMMA TransferKeepsInv ==
  ASSUME Inv, NEW op \in {"data", "image"}, NEW h \in Handles, Transfer(op, h)
  PROVE  Inv'
<1>0. /\ Types /\ InUse /\ InTransfer /\ Call /\ AllocHandle(h)
      /\ pc = Idle /\ pc.op = "idle" /\ calls < MaxCalls /\ calls' = calls + 1
      /\ means' = [means EXCEPT ![h] = None] /\ pc' = [op |-> op, h |-> h, dev |-> 0, n |-> 0]
      /\ UNCHANGED <<buffers, curBuffer, shown, local, pipeline, stream, sinkVars>>
  BY DEF Inv, Call, Transfer, chainVars, Idle
<1>1. /\ pc'.op = op /\ pc'.h = h /\ pc'.dev = 0 /\ pc'.n = 0 /\ 0 \in Devices
      /\ pc' \in [op : Operations, h : {0} \cup Handles, dev : 0 .. NumDevices, n : Nat]
  BY <1>0 DEF Operations, Devices
<1>2. Types' /\ Allocated' /\ counters[h] = 0 /\ counters' = [counters EXCEPT ![h] = 1]
  BY <1>0, <1>1, AllocKeepsTypes DEF Types
<1>3. /\ Held' = Held /\ h \notin Held /\ buffers[h] = None
      /\ {means'[g] : g \in Held'} = {means[g] : g \in Held}
  BY <1>0, <1>2, NowHeld
<1>4. Chains' = Chains /\ h \notin Chains
  BY <1>0, <1>3 DEF Chains
<1>5. /\ \A g \in Handles \ {h} : means'[g] = means[g] /\ counters'[g] = counters[g]
      /\ means'[h] = None /\ counters'[h] = 1
  BY <1>0, <1>2 DEF Types
<1>6. InUse'
  BY <1>0, <1>3, <1>5 DEF InUse
<1>7. InTransfer'
  <2>1. calls' \in Objects
    BY <1>0 DEF Types, Objects
  <2>2. Transferring'
    BY <1>1, <1>5, <2>1 DEF Transferring
  <2>3. NoneSet
    BY <1>0, NoneSetBefore
  <2>. QED
    BY <1>0, <2>2, <2>3 DEF InTransfer, NoneSet
<1>8. Streamed' /\ Mapped'
  BY <1>1 DEF Streamed, Mapped
<1>9. Known <= Known' /\ calls <= calls'
  <2>1. Known = calls /\ Known' = calls' - 1
    BY <1>0, <1>1 DEF Known, Transfers
  <2>. QED
    BY <1>0, <2>1 DEF Types
<1>10. ASSUME NEW i \in Devices, NEW b \in CardStates, Agrees(i, b) PROVE Agrees(i, b)'
  <2>1. ~ Created(i) /\ ~ Created(i)'
    BY <1>0, <1>1 DEF Created, Transfers, Devices
  <2>2. \A g \in Held : b.obj[g] = means'[g]
    BY <1>3, <1>5, <1>10 DEF Agrees, Held
  <2>3. b.live = {means'[g] : g \in Held'}
    BY <1>3, <1>10, <2>1 DEF Agrees
  <2>4. \A g \in Chains : b.buf[means'[g]] = buffers'[g]
    BY <1>0, <1>4, <1>5, <1>10 DEF Agrees, Chains, Held
  <2>. QED
    BY <1>1, <1>3, <1>4, <2>1, <2>2, <2>3, <2>4 DEF Agrees
<1>11. \A g \in Chains' : g \in Chains /\ means'[g] = means[g] /\ local'[g].image = local[g].image
  BY <1>0, <1>4, <1>5 DEF Chains, Held
<1>12. means' = [means EXCEPT ![h] = None] /\ stream' = stream /\ UNCHANGED sinkVars
       /\ \A i \in Devices : pipeline'[i] = pipeline[i]
  BY <1>0
<1>. QED
  BY <1>2, <1>6, <1>7, <1>8, <1>9, <1>10, <1>11, <1>12, HostKeeps

\* A step of a transfer that enqueues function m on the card it is dealing with.
LEMMA EnqueueOnTypes ==
  ASSUME Types, NEW d \in Devices, NEW m \in Functions, EnqueueOn(d, m)
  PROVE  /\ pipeline' \in [Devices -> Seq(Functions)] /\ pipeline'[d] = Append(pipeline[d], m)
         /\ \A i \in Devices : i # d => pipeline'[i] = pipeline[i]
<1>1. pipeline \in [Devices -> Seq(Functions)]
  BY DEF Types
<1>2. pipeline' = [pipeline EXCEPT ![d] = Append(pipeline[d], m)]
  BY DEF EnqueueOn
<1>3. Append(pipeline[d], m) \in Seq(Functions)
  BY <1>1
<1>. QED
  BY <1>1, <1>2, <1>3

\* A step of the host that enqueues function m on card d and renders nothing.
LEMMA EnqueueOnKeeps ==
  ASSUME Inv, UNCHANGED sinkVars, Types', Allocated', InUse', InTransfer', Streamed', Mapped',
         calls <= calls', Known <= Known',
         NEW h, NEW k \in Objects \cup {None}, means' = [means EXCEPT ![h] = k],
         k = None \/ k = means[h] \/ (k = Known' /\ Known < Known'),
         \A g \in Chains' :
           g \in Chains /\ means'[g] = means[g] /\ local'[g].image = local[g].image,
         stream' = stream \/ NoneSet,
         NEW d \in Devices, NEW m \in Functions, m.fn # "rtRenderFrame",
         pipeline'[d] = Append(pipeline[d], m),
         \A i \in Devices : i # d => pipeline'[i] = pipeline[i],
         \A arg \in m.args : arg[2] = means[arg[1]] /\ means'[arg[1]] = means[arg[1]],
         \A i \in Devices : i # d => \A b \in CardStates : Agrees(i, b) => Agrees(i, b)',
         \A b \in CardStates : Agrees(d, b) =>
           Expected(m, b) /\ \A c : c = After(stream'[d], m, b) => Agrees(d, c)'
  PROVE  Inv'
<1>1. \A i \in Devices :
         \/ /\ pipeline'[i] = pipeline[i]
            /\ \A b \in CardStates : Agrees(i, b) => Agrees(i, b)'
         \/ \E e \in Functions :
              /\ e.fn # "rtRenderFrame" /\ pipeline'[i] = Append(pipeline[i], e)
              /\ \A arg \in e.args : arg[2] = means[arg[1]] /\ means'[arg[1]] = means[arg[1]]
              /\ \A b \in CardStates : Agrees(i, b) =>
                   Expected(e, b) /\ \A c : c = After(stream'[i], e, b) => Agrees(i, c)'
  <2>. SUFFICES ASSUME NEW i \in Devices
                PROVE  \/ /\ pipeline'[i] = pipeline[i]
                          /\ \A b \in CardStates : Agrees(i, b) => Agrees(i, b)'
                       \/ \E e \in Functions :
                            /\ e.fn # "rtRenderFrame" /\ pipeline'[i] = Append(pipeline[i], e)
                            /\ \A arg \in e.args :
                                 arg[2] = means[arg[1]] /\ means'[arg[1]] = means[arg[1]]
                            /\ \A b \in CardStates : Agrees(i, b) =>
                                 /\ Expected(e, b)
                                 /\ \A c : c = After(stream'[i], e, b) => Agrees(i, c)'
    OBVIOUS
  <2>1. CASE i = d
    BY <2>1
  <2>2. CASE i # d
    BY <2>2
  <2>. QED
    BY <2>1, <2>2
<1>. QED
  BY <1>1, HostKeeps

LEMMA DataStartKeepsInv ==
  ASSUME Inv, DataStart
  PROVE  Inv'
<1>0. /\ Types /\ Allocated /\ InUse /\ InTransfer /\ Transferring /\ pc.op = "data"
      /\ pc' = [pc EXCEPT !.op = "write"]
      /\ EnqueueOn(pc.dev, Function("rtNewDataStart", pc.h, {}))
      /\ UNCHANGED <<calls, nextHandle, pool, counters, means, buffers, curBuffer, shown, local,
                     stream, sinkVars>>
  BY DEF Inv, InTransfer, DataStart, hostVars, chainVars
<1>1. /\ pc.h \in Handles /\ counters[pc.h] > 0 /\ means[pc.h] = None
      /\ pc.dev \in Devices /\ pc.n = 0 /\ calls \in Objects
  BY <1>0 DEF Transferring, Transfers
<1>2. /\ pc'.op = "write" /\ pc'.h = pc.h /\ pc'.dev = pc.dev /\ pc'.n = 0
      /\ pc' \in [op : Operations, h : {0} \cup Handles, dev : 0 .. NumDevices, n : Nat]
  BY <1>0, <1>1 DEF Types, Operations
<1>2a. PICK d \in Devices : d = pc.dev
  BY <1>1
<1>3. PICK m \in Functions :
        m.fn = "rtNewDataStart" /\ m.args = {} /\ m = Function("rtNewDataStart", pc.h, {})
  <2>1. /\ Function("rtNewDataStart", pc.h, {}).fn = "rtNewDataStart"
        /\ Function("rtNewDataStart", pc.h, {}).args = {}
    BY DEF Creates, Function
  <2>2. /\ pc.h \in Handles \cup {0} /\ None \in Objects \cup {None}
        /\ "rtNewDataStart" \notin Creators /\ {} \in SUBSET Held
    BY <1>1 DEF Creators
  <2>3. Function("rtNewDataStart", pc.h, {}) \in Functions
    BY <1>0, <2>2, CreatesType DEF Function
  <2>. QED
    BY <2>1, <2>3
<1>4. /\ pipeline' \in [Devices -> Seq(Functions)]
      /\ pipeline'[d] = Append(pipeline[d], m)
      /\ \A i \in Devices : i # d => pipeline'[i] = pipeline[i]
  BY <1>0, <1>2a, <1>3, EnqueueOnTypes
<1>5. Types'
  BY <1>0, <1>2, <1>4 DEF Types
<1>6. Allocated' /\ InUse'
  BY <1>0 DEF Allocated, InUse
<1>7. InTransfer'
  <2>1. NoneSet
    BY <1>0, NoneSetBefore
  <2>2. \A i \in Devices :
          \/ pipeline'[i] = pipeline[i]
          \/ \E e \in Functions : e.fn # "rtNewDataSet" /\ pipeline'[i] = Append(pipeline[i], e)
    BY <1>3, <1>4
  <2>3. NoneSet'
    BY <1>0, <2>1, <2>2, NoneSetAfter
  <2>4. Transferring'
    BY <1>0, <1>1, <1>2 DEF Transferring
  <2>. QED
    BY <2>3, <2>4 DEF InTransfer, NoneSet
<1>8. Streamed' /\ Mapped'
  BY <1>2 DEF Streamed, Mapped
<1>9. Known' = Known /\ Known <= Known' /\ calls <= calls'
  BY <1>0, <1>1, <1>2 DEF Known, Transfers, Objects
<1>10. Held' = Held /\ Chains' = Chains
  BY <1>0 DEF Held, Chains
<1>11. \A i \in Devices : Created(i)' <=> Created(i)
  BY <1>0, <1>2 DEF Created, Transfers
<1>12. ASSUME NEW i \in Devices, i # d, NEW b \in CardStates, Agrees(i, b)
       PROVE  Agrees(i, b)'
  BY <1>0, <1>2, <1>2a, <1>10, <1>11, <1>12 DEF Agrees
<1>13. ASSUME NEW b \in CardStates, Agrees(d, b)
       PROVE  Expected(m, b) /\ \A c : c = After(stream'[d], m, b) => Agrees(d, c)'
  <2>1. Expected(m, b)
    BY <1>3 DEF Expected
  <2>2. ASSUME NEW c, c = After(stream'[d], m, b) PROVE Agrees(d, c)'
    <3>1. c.obj = b.obj /\ c.live = b.live /\ c.buf = b.buf /\ c.data = [p \in Chunks |-> None]
      BY <1>3, <2>2 DEF After, Creators
    <3>2. c.data = Written(0)'
      BY <3>1 DEF Written, Chunks
    <3>3. Written(pc.n)' = Written(0)'
      BY <1>2
    <3>. QED
      BY <1>0, <1>1, <1>2, <1>2a, <1>10, <1>11, <1>13, <3>1, <3>2, <3>3 DEF Agrees
  <2>. QED
    BY <2>1, <2>2
<1>14. means' = [means EXCEPT ![pc.h] = None] /\ stream' = stream /\ UNCHANGED sinkVars
  BY <1>0, <1>1 DEF Types
<1>15. \A g \in Chains' : g \in Chains /\ means'[g] = means[g] /\ local'[g].image = local[g].image
  BY <1>0, <1>10
<1>16. \A arg \in m.args : arg[2] = means[arg[1]] /\ means'[arg[1]] = means[arg[1]]
  BY <1>3
<1>. QED
  BY <1>3, <1>4, <1>5, <1>6, <1>7, <1>8, <1>9, <1>12, <1>13, <1>14, <1>15, <1>16, EnqueueOnKeeps

LEMMA DataSetKeepsInv ==
  ASSUME Inv, DataSet
  PROVE  Inv'
<1>0. /\ Types /\ Allocated /\ InUse /\ InTransfer /\ Transferring
      /\ pc.op = "write" /\ pc.n < NumChunks /\ pc' = [pc EXCEPT !.op = "set"]
      /\ stream' = [stream EXCEPT ![pc.dev] = <<calls, pc.n>>]
      /\ EnqueueOn(pc.dev, [Function("rtNewDataSet", pc.h, {}) EXCEPT !.n = pc.n])
      /\ UNCHANGED <<calls, nextHandle, pool, counters, means, buffers, curBuffer, shown, local,
                     sinkVars>>
  BY DEF Inv, InTransfer, DataSet, hostVars, chainVars
<1>1. /\ pc.h \in Handles /\ counters[pc.h] > 0 /\ means[pc.h] = None
      /\ pc.dev \in Devices /\ calls \in Objects
  BY <1>0 DEF Transferring, Transfers
<1>2. PICK d \in Devices, n \in Chunks : d = pc.dev /\ n = pc.n
  <2>1. pc.n \in Nat /\ pc.n < NumChunks
    BY <1>0 DEF Types
  <2>2. pc.n \in Chunks
    BY <2>1 DEF Chunks
  <2>. QED
    BY <1>1, <2>2
<1>3. /\ pc'.op = "set" /\ pc'.h = pc.h /\ pc'.dev = d /\ pc'.n = n
      /\ pc' \in [op : Operations, h : {0} \cup Handles, dev : 0 .. NumDevices, n : Nat]
  BY <1>0, <1>2 DEF Types, Operations
<1>4. PICK m \in Functions : /\ m.fn = "rtNewDataSet" /\ m.args = {} /\ m.n = n
                             /\ m = [Function("rtNewDataSet", pc.h, {}) EXCEPT !.n = n]
  <2>1. PICK h \in Handles : h = pc.h
    BY <1>1
  <2>2. PICK f : f = Function("rtNewDataSet", h, {})
    OBVIOUS
  <2>3. f = [fn |-> "rtNewDataSet", id |-> h, obj |-> None, buf |-> 0, n |-> 0, args |-> {}]
    BY <2>2 DEF Function, Creates
  <2>4. PICK m : m = [f EXCEPT !.n = n]
    OBVIOUS
  <2>5. /\ m.fn = "rtNewDataSet" /\ m.id = h /\ m.obj = None /\ m.buf = 0 /\ m.n = n
        /\ m.args = {}
    BY <2>3, <2>4
  <2>6. f \in [fn : {"rtNewDataSet"}, id : {h}, obj : {None}, buf : {0}, n : Nat, args : {{}}]
    BY <2>3
  <2>7. n \in Nat
    BY DEF Chunks
  <2>8. m \in [fn : {"rtNewDataSet"}, id : {h}, obj : {None}, buf : {0}, n : Nat, args : {{}}]
    BY <2>4, <2>6, <2>7
  <2>9. 0 \in Buffers
    BY DEF Buffers
  <2>10. m = [fn |-> m.fn, id |-> m.id, obj |-> m.obj, buf |-> m.buf, n |-> m.n, args |-> m.args]
    BY <2>8
  <2>11. m \in Functions
    BY <2>5, <2>7, <2>9, <2>10 DEF Functions, Creators
  <2>. QED
    BY <2>1, <2>2, <2>4, <2>5, <2>11
<1>5. /\ pipeline' \in [Devices -> Seq(Functions)]
      /\ pipeline'[d] = Append(pipeline[d], m)
      /\ \A i \in Devices : i # d => pipeline'[i] = pipeline[i]
  BY <1>0, <1>2, <1>4, EnqueueOnTypes
<1>6. PICK part \in Parts : part = <<calls, n>>
  BY <1>1 DEF Parts
<1>7. stream'[d] = part /\ stream' \in [Devices -> Parts]
  BY <1>0, <1>2, <1>6 DEF Types
<1>8. Types'
  BY <1>0, <1>3, <1>5, <1>7 DEF Types
<1>9. Allocated' /\ InUse'
  BY <1>0 DEF Allocated, InUse
<1>10. NoneSet /\ InTransfer'
  <2>1. NoneSet
    BY <1>0, NoneSetBefore
  <2>2. ASSUME NEW i \in Devices, NEW j \in 1 .. Len(pipeline'[i]),
               pipeline'[i][j].fn = "rtNewDataSet"
        PROVE  j = Len(pipeline'[i]) /\ i = d
    <3>0. pipeline[i] \in Seq(Functions)
      BY <1>0 DEF Types
    <3>1. CASE i # d
      BY <1>5, <2>1, <2>2, <3>1 DEF NoneSet
    <3>2. CASE i = d
      <4>1. j \in 1 .. Len(pipeline[i]) => pipeline'[i][j] = pipeline[i][j]
        BY <1>5, <3>0, <3>2
      <4>2. j \notin 1 .. Len(pipeline[i])
        BY <2>1, <2>2, <4>1 DEF NoneSet
      <4>3. Len(pipeline'[i]) = Len(pipeline[i]) + 1
        BY <1>5, <3>0, <3>2
      <4>. QED
        BY <3>0, <3>2, <4>2, <4>3
    <3>. QED
      BY <3>1, <3>2
  <2>3. Transferring'
    BY <1>0, <1>1, <1>3 DEF Transferring
  <2>. QED
    BY <1>3, <2>1, <2>2, <2>3 DEF InTransfer
<1>11. Streamed' /\ Mapped'
  BY <1>0, <1>3, <1>6, <1>7 DEF Streamed, Mapped
<1>12. Known' = Known /\ Known <= Known' /\ calls <= calls'
  BY <1>0, <1>1, <1>3 DEF Known, Transfers, Objects
<1>13. Held' = Held /\ Chains' = Chains
  BY <1>0 DEF Held, Chains
<1>14. \A i \in Devices : Created(i)' <=> Created(i)
  BY <1>0, <1>2, <1>3 DEF Created, Transfers
<1>15. ASSUME NEW i \in Devices, i # d, NEW b \in CardStates, Agrees(i, b)
       PROVE  Agrees(i, b)'
  BY <1>0, <1>2, <1>3, <1>13, <1>14, <1>15 DEF Agrees
<1>16. ASSUME NEW b \in CardStates, Agrees(d, b)
       PROVE  Expected(m, b) /\ \A c : c = After(stream'[d], m, b) => Agrees(d, c)'
  <2>0. b.data = Written(n) /\ b.data \in Contents
    <3>1. b.data = Written(pc.n)
      BY <1>0, <1>2, <1>16 DEF Agrees
    <3>2. \A o \in Chunks : <<calls, o>> \in Parts /\ None \in Parts
      BY <1>1 DEF Parts
    <3>3. Written(n) \in Contents
      BY <3>2 DEF Written, Contents
    <3>. QED
      BY <1>2, <3>1, <3>3
  <2>1. Expected(m, b)
    BY <1>4, <2>0 DEF Expected
  <2>2. ASSUME NEW c, c = After(stream'[d], m, b) PROVE Agrees(d, c)'
    <3>1. /\ c.obj = b.obj /\ c.live = b.live /\ c.buf = b.buf
          /\ c.data = [b.data EXCEPT ![n] = <<calls, n>>]
      BY <1>4, <1>6, <1>7, <2>2 DEF After, Creators
    <3>2. c.data = [o \in Chunks |-> IF o < n + 1 THEN <<calls, o>> ELSE None]
      <4>0. b.data = [o \in Chunks |-> IF o < n THEN <<calls, o>> ELSE None]
        BY <2>0 DEF Written
      <4>1. n < n + 1 /\ \A o \in Chunks : o # n => (o < n <=> o < n + 1)
        BY DEF Chunks
      <4>2. ASSUME NEW o \in Chunks
            PROVE  c.data[o] = IF o < n + 1 THEN <<calls, o>> ELSE None
        <5>1. CASE o = n
          <6>1. c.data[n] = <<calls, n>>
            BY <3>1, <4>0
          <6>. QED
            BY <4>1, <5>1, <6>1
        <5>2. CASE o # n
          <6>1. c.data[o] = b.data[o]
            BY <3>1, <4>0, <5>2
          <6>2. b.data[o] = IF o < n THEN <<calls, o>> ELSE None
            BY <4>0
          <6>. QED
            BY <4>1, <5>2, <6>1, <6>2
        <5>. QED
          BY <5>1, <5>2
      <4>. QED
        BY <3>1, <4>0, <4>2
    <3>3. c.data = Written(pc.n + 1)'
      BY <1>0, <1>3, <3>2 DEF Written
    <3>. QED
      BY <1>0, <1>2, <1>3, <1>13, <1>14, <1>16, <3>1, <3>3 DEF Agrees
  <2>. QED
    BY <2>1, <2>2
<1>17. means' = [means EXCEPT ![pc.h] = None] /\ UNCHANGED sinkVars
  BY <1>0, <1>1 DEF Types
<1>18. \A g \in Chains' : g \in Chains /\ means'[g] = means[g] /\ local'[g].image = local[g].image
  BY <1>0, <1>13
<1>19. m.fn # "rtRenderFrame"
       /\ \A arg \in m.args : arg[2] = means[arg[1]] /\ means'[arg[1]] = means[arg[1]]
  BY <1>4
<1>. QED
  BY <1>5, <1>8, <1>9, <1>10, <1>11, <1>12, <1>15, <1>16, <1>17, <1>18, <1>19, EnqueueOnKeeps

\* A step of the host that only changes what it waits for.
LEMMA WaitKeeps ==
  ASSUME Inv, pc'.op \in Operations, pc'.h \in {0} \cup Handles,
         pc'.dev \in 0 .. NumDevices, pc'.n \in Nat,
         pc' = [op |-> pc'.op, h |-> pc'.h, dev |-> pc'.dev, n |-> pc'.n],
         shown' \in [Devices -> 0 .. MaxCalls],
         UNCHANGED <<calls, hostVars, buffers, curBuffer, local, pipeline, stream, sinkVars>>,
         InTransfer', Streamed', Mapped', Known' = Known,
         \A i \in Devices : \A b \in CardStates : Agrees(i, b) => Agrees(i, b)'
  PROVE  Inv'
<1>0. /\ Types /\ Allocated /\ InUse
      /\ UNCHANGED <<calls, nextHandle, pool, counters, means, buffers, curBuffer, local, pipeline,
                     stream, sinkVars>>
  BY DEF Inv, hostVars
<1>1. pc' \in [op : Operations, h : {0} \cup Handles, dev : 0 .. NumDevices, n : Nat]
  OBVIOUS
<1>2. Types'
  BY <1>0, <1>1 DEF Types
<1>3. Allocated' /\ InUse'
  BY <1>0 DEF Allocated, InUse
<1>4. Known <= Known' /\ calls <= calls'
  <2>1. calls \in Nat
    BY <1>0 DEF Types
  <2>. QED
    BY <1>0, <2>1 DEF Known
<1>5. means' = [means EXCEPT ![0] = None]
  BY <1>0 DEF Types, Handles
<1>6. Chains' = Chains
  BY <1>0 DEF Held, Chains
<1>7. \A g \in Chains' : g \in Chains /\ means'[g] = means[g] /\ local'[g].image = local[g].image
  BY <1>0, <1>6
<1>8. \A i \in Devices :
        pipeline'[i] = pipeline[i] /\ \A b \in CardStates : Agrees(i, b) => Agrees(i, b)'
  BY <1>0
<1>. QED
  BY <1>0, <1>2, <1>3, <1>4, <1>5, <1>7, <1>8, HostKeeps

LEMMA DataWaitKeepsInv ==
  ASSUME Inv, DataWait
  PROVE  Inv'
<1>0. /\ Types /\ InTransfer /\ Transferring /\ pc.op = "set" /\ pipeline[pc.dev] = <<>>
      /\ pc' = [pc EXCEPT !.op = "write", !.n = @ + 1]
      /\ UNCHANGED <<calls, nextHandle, pool, counters, means, buffers, curBuffer, shown, local,
                     pipeline, stream, sinkVars>>
  BY DEF Inv, InTransfer, DataWait, Completed, hostVars, chainVars
<1>1. /\ pc.h \in Handles /\ counters[pc.h] > 0 /\ means[pc.h] = None
      /\ pc.dev \in Devices /\ calls \in Objects /\ pc.n \in Chunks
  BY <1>0 DEF Transferring, Transfers
<1>2. PICK n \in Nat : n = pc.n /\ n < NumChunks
  BY <1>1 DEF Chunks
<1>3. /\ pc'.op = "write" /\ pc'.h = pc.h /\ pc'.dev = pc.dev /\ pc'.n = n + 1
      /\ pc' = [op |-> pc'.op, h |-> pc'.h, dev |-> pc'.dev, n |-> pc'.n]
  <2>1. pc \in [op : Operations, h : {0} \cup Handles, dev : 0 .. NumDevices, n : Nat]
    BY <1>0 DEF Types
  <2>. QED
    BY <1>0, <1>2, <2>1
<1>4. InTransfer'
  <2>1. NoneSet
    BY <1>0, NoneSetBefore
  <2>2. n + 1 <= NumChunks
    BY <1>2
  <2>3. Transferring'
    BY <1>0, <1>1, <1>3, <2>2 DEF Transferring
  <2>. QED
    BY <1>0, <2>1, <2>3 DEF InTransfer, NoneSet
<1>5. Streamed' /\ Mapped'
  BY <1>3 DEF Streamed, Mapped
<1>6. Known' = Known
  BY <1>0, <1>3 DEF Known, Transfers
<1>7. Held' = Held /\ Chains' = Chains
  BY <1>0 DEF Held, Chains
<1>8. \A i \in Devices : Created(i)' <=> Created(i)
  BY <1>0, <1>3 DEF Created, Transfers
<1>9. ASSUME NEW i \in Devices, NEW b \in CardStates, Agrees(i, b) PROVE Agrees(i, b)'
  <2>1. i = pc.dev => b.data = Written(n + 1)
    BY <1>0, <1>2, <1>9 DEF Agrees
  <2>2. i = pc.dev => b.data = Written(pc.n)'
    BY <1>0, <1>3, <2>1 DEF Written
  <2>. QED
    BY <1>0, <1>3, <1>7, <1>8, <1>9, <2>2 DEF Agrees
<1>10. /\ pc'.op \in Operations /\ pc'.dev \in 0 .. NumDevices /\ pc'.n \in Nat
       /\ shown' \in [Devices -> 0 .. MaxCalls]
  <2>1. pc'.op \in Operations /\ pc'.n \in Nat
    BY <1>3 DEF Operations
  <2>2. pc'.dev \in 0 .. NumDevices
    BY <1>1, <1>3 DEF Devices
  <2>3. shown' \in [Devices -> 0 .. MaxCalls]
    BY <1>0 DEF Types
  <2>. QED
    BY <2>1, <2>2, <2>3
<1>. QED
  BY <1>0, <1>1, <1>3, <1>4, <1>5, <1>6, <1>9, <1>10, WaitKeeps DEF hostVars

\* Card i has been sent the object if it comes no later than the current one.
Reached(i, b) ==
  /\ \A g \in Held : b.obj[g] = means[g]
  /\ b.live = {means[g] : g \in Held} \cup (IF i <= pc.dev THEN {calls} ELSE {})
  /\ i <= pc.dev => b.obj[pc.h] = calls
  /\ \A g \in Chains : b.buf[means[g]] = buffers[g]

\* The host turns to the next card.
LEMMA ToNextDevice ==
  ASSUME Inv, pc.op \in Transfers, NEW op \in {"data", "image"}, NextDevice(op),
         pc.dev + 1 < NumDevices, pipeline' \in [Devices -> Seq(Functions)], NoneSet',
         UNCHANGED <<calls, nextHandle, pool, counters, chainVars, stream>>
  PROVE  /\ Types' /\ Allocated' /\ InUse' /\ InTransfer' /\ Streamed' /\ Mapped'
         /\ Known' = Known /\ means' = means /\ Chains' = Chains
         /\ \A i \in Devices : \A b : Reached(i, b) => Agrees(i, b)'
<1>0. /\ Types /\ Allocated /\ InUse /\ InTransfer /\ Transferring /\ means' = means
      /\ pc' = [pc EXCEPT !.op = op, !.dev = @ + 1, !.n = 0]
      /\ UNCHANGED <<calls, nextHandle, pool, counters, buffers, curBuffer, shown, local, stream>>
  BY DEF Inv, InTransfer, NextDevice, chainVars
<1>1. /\ pc.h \in Handles /\ counters[pc.h] > 0 /\ means[pc.h] = None
      /\ pc.dev \in Devices /\ calls \in Objects
  BY <1>0 DEF Transferring, Transfers
<1>2. PICK d \in Devices, e \in Devices : d = pc.dev /\ e = d + 1
  <2>1. pc.dev + 1 \in Devices
    BY <1>1 DEF Devices
  <2>. QED
    BY <1>1, <2>1
<1>3. /\ pc'.op = op /\ pc'.h = pc.h /\ pc'.dev = e /\ pc'.n = 0
      /\ pc' \in [op : Operations, h : {0} \cup Handles, dev : 0 .. NumDevices, n : Nat]
  <2>1. op \in Operations /\ e \in 0 .. NumDevices /\ 0 \in Nat
    BY DEF Operations, Devices
  <2>2. pc \in [op : Operations, h : {0} \cup Handles, dev : 0 .. NumDevices, n : Nat]
    BY <1>0 DEF Types
  <2>3. pc' = [pc EXCEPT !.op = op, !.dev = e, !.n = 0]
    BY <1>0, <1>2, <2>2
  <2>. QED
    BY <2>1, <2>2, <2>3
<1>4. Types'
  BY <1>0, <1>3 DEF Types
<1>5. Allocated' /\ InUse'
  BY <1>0 DEF Allocated, InUse
<1>6. InTransfer'
  <2>1. Transferring'
    BY <1>0, <1>1, <1>3 DEF Transferring
  <2>. QED
    BY <2>1 DEF InTransfer, NoneSet
<1>7. Streamed' /\ Mapped'
  BY <1>3 DEF Streamed, Mapped
<1>8. Known' = Known
  BY <1>0, <1>3 DEF Known, Transfers
<1>9. Held' = Held /\ Chains' = Chains
  BY <1>0 DEF Held, Chains
<1>10. ASSUME NEW i \in Devices, NEW b, Reached(i, b) PROVE Agrees(i, b)'
  <2>1. Created(i)' <=> i <= d
    <3>1. i < e \/ (i = e /\ pc'.op = "image" /\ pc'.n = 1) <=> i <= d
      BY <1>2, <1>3 DEF Devices
    <3>. QED
      BY <1>3, <3>1 DEF Created, Transfers
  <2>. QED
    BY <1>0, <1>2, <1>3, <1>9, <1>10, <2>1 DEF Agrees, Reached
<1>. QED
  BY <1>0, <1>4, <1>5, <1>6, <1>7, <1>8, <1>9, <1>10

\* The host is done with all cards: the call returns the handle.
LEMMA AfterLastDevice ==
  ASSUME Inv, pc.op \in Transfers, NEW op \in {"data", "image"}, NextDevice(op),
         ~ (pc.dev + 1 < NumDevices), pipeline' \in [Devices -> Seq(Functions)], NoneSet',
         UNCHANGED <<calls, nextHandle, pool, counters, chainVars, stream>>
  PROVE  /\ Types' /\ Allocated' /\ InUse' /\ InTransfer' /\ Streamed' /\ Mapped'
         /\ calls \in Objects /\ Known' = calls /\ Known < Known'
         /\ means' = [means EXCEPT ![pc.h] = calls]
         /\ Chains' = Chains /\ \A g \in Held : means'[g] = means[g]
         /\ \A i \in Devices : \A b : Reached(i, b) => Agrees(i, b)'
<1>0. /\ Types /\ Allocated /\ InUse /\ InTransfer /\ Transferring
      /\ means' = [means EXCEPT ![pc.h] = calls] /\ pc' = Idle
      /\ UNCHANGED <<calls, nextHandle, pool, counters, buffers, curBuffer, shown, local, stream>>
  BY DEF Inv, InTransfer, NextDevice, chainVars
<1>1. /\ pc.h \in Handles /\ counters[pc.h] > 0 /\ means[pc.h] = None
      /\ pc.dev \in Devices /\ calls \in Objects
  BY <1>0 DEF Transferring, Transfers
<1>2. PICK h \in Handles, k \in Objects :
        /\ h = pc.h /\ k = calls /\ k # None /\ counters[h] > 0 /\ means[h] = None
        /\ means' = [means EXCEPT ![h] = k]
  <2>1. calls # None
    BY <1>1 DEF Objects
  <2>. QED
    BY <1>0, <1>1, <2>1
<1>3. /\ pc'.op = "idle"
      /\ pc' \in [op : Operations, h : {0} \cup Handles, dev : 0 .. NumDevices, n : Nat]
  BY <1>0 DEF Idle, Operations
<1>4. Types'
  BY <1>0, <1>2, <1>3 DEF Types
<1>5. means'[h] = k /\ \A g \in Handles \ {h} : means'[g] = means[g]
  BY <1>0, <1>2 DEF Types
<1>6. buffers[h] = None /\ h \notin Held
  BY <1>0, <1>2 DEF InUse, Held
<1>7. Allocated' /\ InUse'
  BY <1>0, <1>5, <1>6 DEF Allocated, InUse
<1>8. InTransfer'
  <2>1. Transferring'
    BY <1>3 DEF Transferring, Transfers
  <2>. QED
    BY <2>1 DEF InTransfer, NoneSet
<1>9. Streamed' /\ Mapped'
  BY <1>3 DEF Streamed, Mapped
<1>10. Known' = calls /\ Known < Known'
  BY <1>0, <1>1, <1>3 DEF Known, Transfers, Objects
<1>11. Held' = Held \cup {h} /\ Chains' = Chains /\ Held \subseteq Handles /\ h \notin Chains
  <2>1. \A g \in Handles : g \in Held' <=> g \in Held \/ g = h
    BY <1>0, <1>2, <1>5 DEF Held
  <2>2. Held' = Held \cup {h}
    BY <2>1 DEF Held
  <2>. QED
    BY <1>0, <1>6, <2>2 DEF Chains, Held
<1>12. \A g \in Held : means'[g] = means[g]
  BY <1>5, <1>6, <1>11
<1>13. {means'[g] : g \in Held'} = {means[g] : g \in Held} \cup {k}
  BY <1>5, <1>11, <1>12
<1>14. ASSUME NEW i \in Devices, NEW b, Reached(i, b) PROVE Agrees(i, b)'
  <2>1. ~ Created(i)'
    BY <1>3 DEF Created, Transfers
  <2>2. i <= pc.dev
    <3>1. pc.dev \in Nat /\ i \in Nat /\ i < NumDevices /\ NumDevices \in Nat
      BY <1>1 DEF Devices
    <3>. QED
      BY <3>1
  <2>3. b.obj[h] = k /\ b.live = {means[g] : g \in Held} \cup {k}
    BY <1>2, <1>14, <2>2 DEF Reached
  <2>4. \A g \in Held' : b.obj[g] = means'[g]
    BY <1>5, <1>11, <1>12, <1>14, <2>3 DEF Reached
  <2>5. \A g \in Chains' : b.buf[means'[g]] = buffers'[g]
    BY <1>0, <1>11, <1>12, <1>14 DEF Reached, Chains
  <2>. QED
    BY <1>3, <1>13, <2>1, <2>3, <2>4, <2>5 DEF Agrees
<1>. QED
  BY <1>0, <1>1, <1>4, <1>7, <1>8, <1>9, <1>10, <1>11, <1>12, <1>14

LEMMA DataEndKeepsInv ==
  ASSUME Inv, DataEnd
  PROVE  Inv'
<1>0. /\ Types /\ InTransfer /\ Transferring /\ pc.op = "write" /\ pc.n = NumChunks
      /\ EnqueueOn(pc.dev, Creates("rtNewDataEnd", pc.h, calls, {})) /\ NextDevice("data")
      /\ UNCHANGED <<calls, nextHandle, pool, counters, chainVars, stream, sinkVars>>
  BY DEF Inv, InTransfer, DataEnd
<1>1. /\ pc.h \in Handles /\ counters[pc.h] > 0 /\ means[pc.h] = None
      /\ pc.dev \in Devices /\ calls \in Objects /\ pc.op \in Transfers
  BY <1>0 DEF Transferring, Transfers
<1>2. PICK h \in Handles, d \in Devices, k \in Objects :
        h = pc.h /\ d = pc.dev /\ k = calls /\ means[h] = None
  BY <1>1
<1>3. PICK m \in Functions :
        /\ m.fn = "rtNewDataEnd" /\ m.id = h /\ m.obj = k /\ m.args = {}
        /\ m = Creates("rtNewDataEnd", h, k, {})
  <2>1. /\ Creates("rtNewDataEnd", h, k, {}).fn = "rtNewDataEnd"
        /\ Creates("rtNewDataEnd", h, k, {}).id = h
        /\ Creates("rtNewDataEnd", h, k, {}).obj = k
        /\ Creates("rtNewDataEnd", h, k, {}).args = {}
    BY DEF Creates
  <2>2. /\ h \in Handles \cup {0} /\ k \in Objects \cup {None}
        /\ "rtNewDataEnd" \in Creators /\ {} \in SUBSET Held
    BY DEF Creators
  <2>3. Creates("rtNewDataEnd", h, k, {}) \in Functions
    BY <1>0, <2>2, CreatesType
  <2>. QED
    BY <2>1, <2>3
<1>4. /\ pipeline' \in [Devices -> Seq(Functions)]
      /\ pipeline'[d] = Append(pipeline[d], m)
      /\ \A i \in Devices : i # d => pipeline'[i] = pipeline[i]
  BY <1>0, <1>2, <1>3, EnqueueOnTypes
<1>5. NoneSet'
  <2>1. NoneSet
    BY <1>0, NoneSetBefore
  <2>2. \A i \in Devices :
          \/ pipeline'[i] = pipeline[i]
          \/ \E e \in Functions : e.fn # "rtNewDataSet" /\ pipeline'[i] = Append(pipeline[i], e)
    BY <1>3, <1>4
  <2>. QED
    BY <1>0, <2>1, <2>2, NoneSetAfter
<1>6. ASSUME NEW i \in Devices, i # d, NEW b \in CardStates, Agrees(i, b)
      PROVE  Reached(i, b)
  <2>1. Created(i) <=> i <= pc.dev
    BY <1>0, <1>1, <1>2, <1>6 DEF Created, Devices
  <2>. QED
    BY <1>6, <2>1 DEF Agrees, Reached
<1>7. ASSUME NEW b \in CardStates, Agrees(d, b), NEW part, NEW c, c = After(part, m, b)
      PROVE  Expected(m, b) /\ Reached(d, c)
  <2>1. b.data = Full(k)
    <3>1. b.data = Written(pc.n)
      BY <1>0, <1>2, <1>7 DEF Agrees
    <3>2. Written(NumChunks) = Full(k)
      BY <1>2 DEF Written, Full, Chunks
    <3>. QED
      BY <1>0, <3>1, <3>2
  <2>2. Expected(m, b)
    BY <1>3, <2>1 DEF Expected
  <2>3. ~ Created(d)
    BY <1>0, <1>2 DEF Created, Devices
  <2>4. c.obj = [b.obj EXCEPT ![h] = k] /\ c.live = b.live \cup {k} /\ c.buf = b.buf
    BY <1>3, <1>7 DEF After, Creators
  <2>5. b.obj \in [Handles -> Objects \cup {None}] /\ h \notin Held /\ Held \subseteq Handles
    BY <1>2 DEF CardStates, Held
  <2>6. c.obj[h] = k /\ \A g \in Held : c.obj[g] = means[g]
    BY <1>7, <2>4, <2>5 DEF Agrees
  <2>7. b.live = {means[g] : g \in Held}
    BY <1>7, <2>3 DEF Agrees
  <2>8. c.live = {means[g] : g \in Held} \cup (IF d <= pc.dev THEN {calls} ELSE {})
    <3>1. d <= pc.dev
      BY <1>2 DEF Devices
    <3>. QED
      BY <1>2, <2>4, <2>7, <3>1
  <2>9. \A g \in Chains : c.buf[means[g]] = buffers[g]
    BY <1>7, <2>4 DEF Agrees
  <2>. QED
    BY <1>2, <2>2, <2>6, <2>8, <2>9 DEF Reached
<1>8. m.fn # "rtRenderFrame" /\ \A arg \in m.args : arg[2] = means[arg[1]] /\ means'[arg[1]] = means[arg[1]]
  BY <1>3
<1>9. /\ UNCHANGED sinkVars /\ stream' = stream /\ local' = local /\ calls <= calls'
      /\ means \in [Handles -> Objects \cup {None}] /\ calls \in Nat
  BY <1>0, <1>1 DEF chainVars, Types, Objects
<1>10. CASE pc.dev + 1 < NumDevices
  <2>1. /\ Types' /\ Allocated' /\ InUse' /\ InTransfer' /\ Streamed' /\ Mapped'
        /\ Known' = Known /\ means' = means /\ Chains' = Chains
        /\ \A i \in Devices : \A b : Reached(i, b) => Agrees(i, b)'
    BY <1>0, <1>1, <1>4, <1>5, <1>10, ToNextDevice
  <2>2. /\ means' = [means EXCEPT ![h] = None] /\ None \in Objects \cup {None}
        /\ \A g \in Chains' :
             g \in Chains /\ means'[g] = means[g] /\ local'[g].image = local[g].image
    BY <1>2, <1>9, <2>1
  <2>3. Known <= Known'
    BY <1>9, <2>1 DEF Known
  <2>4. \A i \in Devices : i # d => \A b \in CardStates : Agrees(i, b) => Agrees(i, b)'
    BY <1>6, <2>1
  <2>5. \A b \in CardStates : Agrees(d, b) =>
          Expected(m, b) /\ \A c : c = After(stream'[d], m, b) => Agrees(d, c)'
    BY <1>7, <2>1
  <2>. QED
    BY <1>4, <1>8, <1>9, <2>1, <2>2, <2>3, <2>4, <2>5, EnqueueOnKeeps
<1>11. CASE ~ (pc.dev + 1 < NumDevices)
  <2>1. /\ Types' /\ Allocated' /\ InUse' /\ InTransfer' /\ Streamed' /\ Mapped'
        /\ Known' = calls /\ Known < Known' /\ means' = [means EXCEPT ![pc.h] = calls]
        /\ Chains' = Chains /\ \A g \in Held : means'[g] = means[g]
        /\ \A i \in Devices : \A b : Reached(i, b) => Agrees(i, b)'
    BY <1>0, <1>1, <1>4, <1>5, <1>11, AfterLastDevice
  <2>2. /\ means' = [means EXCEPT ![h] = k] /\ k = Known' /\ k \in Objects \cup {None}
        /\ \A g \in Chains' :
             g \in Chains /\ means'[g] = means[g] /\ local'[g].image = local[g].image
    BY <1>2, <1>9, <2>1 DEF Chains
  <2>3. Known <= Known'
    BY <1>9, <2>1 DEF Known
  <2>4. \A i \in Devices : i # d => \A b \in CardStates : Agrees(i, b) => Agrees(i, b)'
    BY <1>6, <2>1
  <2>5. \A b \in CardStates : Agrees(d, b) =>
          Expected(m, b) /\ \A c : c = After(stream'[d], m, b) => Agrees(d, c)'
    BY <1>7, <2>1
  <2>. QED
    BY <1>4, <1>8, <1>9, <2>1, <2>2, <2>3, <2>4, <2>5, EnqueueOnKeeps
<1>. QED
  BY <1>10, <1>11

LEMMA ImageRunKeepsInv ==
  ASSUME Inv, ImageRun
  PROVE  Inv'
<1>0. /\ Types /\ Allocated /\ InUse /\ InTransfer /\ Transferring
      /\ pc.op = "image" /\ pc.n = 0 /\ pc' = [pc EXCEPT !.n = 1]
      /\ EnqueueOn(pc.dev, Creates("rtNew", pc.h, calls, {}))
      /\ UNCHANGED <<calls, nextHandle, pool, counters, means, buffers, curBuffer, shown, local,
                     stream, sinkVars>>
  BY DEF Inv, InTransfer, ImageRun, hostVars, chainVars
<1>1. /\ pc.h \in Handles /\ counters[pc.h] > 0 /\ means[pc.h] = None
      /\ pc.dev \in Devices /\ calls \in Objects
  BY <1>0 DEF Transferring, Transfers
<1>2. PICK h \in Handles, d \in Devices, k \in Objects :
        h = pc.h /\ d = pc.dev /\ k = calls /\ means[h] = None
  BY <1>1
<1>3. /\ pc'.op = "image" /\ pc'.h = h /\ pc'.dev = d /\ pc'.n = 1
      /\ pc' \in [op : Operations, h : {0} \cup Handles, dev : 0 .. NumDevices, n : Nat]
  BY <1>0, <1>2 DEF Types
<1>4. PICK m \in Functions :
        /\ m.fn = "rtNew" /\ m.id = h /\ m.obj = k /\ m.args = {}
        /\ m = Creates("rtNew", h, k, {})
  <2>1. /\ Creates("rtNew", h, k, {}).fn = "rtNew" /\ Creates("rtNew", h, k, {}).id = h
        /\ Creates("rtNew", h, k, {}).obj = k /\ Creates("rtNew", h, k, {}).args = {}
    BY DEF Creates
  <2>2. /\ h \in Handles \cup {0} /\ k \in Objects \cup {None}
        /\ "rtNew" \in Creators /\ {} \in SUBSET Held
    BY DEF Creators
  <2>3. Creates("rtNew", h, k, {}) \in Functions
    BY <1>0, <2>2, CreatesType
  <2>. QED
    BY <2>1, <2>3
<1>5. /\ pipeline' \in [Devices -> Seq(Functions)]
      /\ pipeline'[d] = Append(pipeline[d], m)
      /\ \A i \in Devices : i # d => pipeline'[i] = pipeline[i]
  BY <1>0, <1>2, <1>4, EnqueueOnTypes
<1>6. Types'
  BY <1>0, <1>3, <1>5 DEF Types
<1>7. Allocated' /\ InUse'
  BY <1>0 DEF Allocated, InUse
<1>8. InTransfer'
  <2>1. NoneSet
    BY <1>0, NoneSetBefore
  <2>2. \A i \in Devices :
          \/ pipeline'[i] = pipeline[i]
          \/ \E e \in Functions : e.fn # "rtNewDataSet" /\ pipeline'[i] = Append(pipeline[i], e)
    BY <1>4, <1>5
  <2>3. NoneSet'
    BY <1>0, <2>1, <2>2, NoneSetAfter
  <2>4. Transferring'
    BY <1>0, <1>1, <1>2, <1>3 DEF Transferring
  <2>. QED
    BY <2>3, <2>4 DEF InTransfer, NoneSet
<1>9. Streamed' /\ Mapped'
  BY <1>3 DEF Streamed, Mapped
<1>10. Known' = Known /\ Known <= Known' /\ calls <= calls'
  BY <1>0, <1>1, <1>3 DEF Known, Transfers, Objects
<1>11. Held' = Held /\ Chains' = Chains
  BY <1>0 DEF Held, Chains
<1>12. ASSUME NEW i \in Devices, i # d, NEW b \in CardStates, Agrees(i, b)
       PROVE  Agrees(i, b)'
  <2>1. Created(i)' <=> Created(i)
    BY <1>0, <1>2, <1>3, <1>12 DEF Created, Transfers
  <2>. QED
    BY <1>0, <1>2, <1>3, <1>11, <1>12, <2>1 DEF Agrees
<1>13. ASSUME NEW b \in CardStates, Agrees(d, b)
       PROVE  Expected(m, b) /\ \A c : c = After(stream'[d], m, b) => Agrees(d, c)'
  <2>1. Expected(m, b)
    BY <1>4 DEF Expected
  <2>2. ASSUME NEW c, c = After(stream'[d], m, b) PROVE Agrees(d, c)'
    <3>1. c.obj = [b.obj EXCEPT ![h] = k] /\ c.live = b.live \cup {k} /\ c.buf = b.buf
      BY <1>4, <2>2 DEF After, Creators
    <3>2. b.obj \in [Handles -> Objects \cup {None}] /\ h \notin Held /\ Held \subseteq Handles
      BY <1>2 DEF CardStates, Held
    <3>3. c.obj[h] = k /\ \A g \in Held : c.obj[g] = means[g]
      BY <1>13, <3>1, <3>2 DEF Agrees
    <3>4. ~ Created(d) /\ Created(d)'
      BY <1>0, <1>2, <1>3 DEF Created, Devices, Transfers
    <3>5. c.live = {means[g] : g \in Held} \cup {k}
      BY <1>13, <3>1, <3>4 DEF Agrees
    <3>6. \A g \in Chains : c.buf[means[g]] = buffers[g]
      BY <1>13, <3>1 DEF Agrees
    <3>. QED
      BY <1>0, <1>2, <1>3, <1>11, <3>3, <3>4, <3>5, <3>6 DEF Agrees
  <2>. QED
    BY <2>1, <2>2
<1>14. means' = [means EXCEPT ![h] = None] /\ stream' = stream /\ UNCHANGED sinkVars
  BY <1>0, <1>2 DEF Types
<1>15. \A g \in Chains' : g \in Chains /\ means'[g] = means[g] /\ local'[g].image = local[g].image
  BY <1>0, <1>11
<1>16. /\ m.fn # "rtRenderFrame"
       /\ \A arg \in m.args : arg[2] = means[arg[1]] /\ means'[arg[1]] = means[arg[1]]
  BY <1>4
<1>. QED
  BY <1>5, <1>6, <1>7, <1>8, <1>9, <1>10, <1>12, <1>13, <1>14, <1>15, <1>16, EnqueueOnKeeps

LEMMA ImageWaitKeepsInv ==
  ASSUME Inv, ImageWait
  PROVE  Inv'
<1>0. /\ Types /\ InTransfer /\ Transferring /\ pc.op = "image" /\ pc.n = 1
      /\ NextDevice("image")
      /\ UNCHANGED <<calls, nextHandle, pool, counters, chainVars, pipeline, stream, sinkVars>>
  BY DEF Inv, InTransfer, ImageWait
<1>1. /\ pc.h \in Handles /\ means[pc.h] = None /\ pc.dev \in Devices /\ calls \in Objects
      /\ pc.op \in Transfers
  BY <1>0 DEF Transferring, Transfers
<1>2. PICK h \in Handles, d \in Devices, k \in Objects :
        h = pc.h /\ d = pc.dev /\ k = calls /\ means[h] = None
  BY <1>1
<1>3. NoneSet' /\ pipeline' \in [Devices -> Seq(Functions)]
  <2>1. NoneSet
    BY <1>0, NoneSetBefore
  <2>2. pipeline' = pipeline
    BY <1>0
  <2>. QED
    BY <1>0, <2>1, <2>2 DEF NoneSet, Types
<1>4. ASSUME NEW i \in Devices, NEW b \in CardStates, Agrees(i, b)
      PROVE  Reached(i, b)
  <2>1. Created(i) <=> i <= pc.dev
    BY <1>0, <1>1, <1>2 DEF Created, Devices
  <2>. QED
    BY <1>4, <2>1 DEF Agrees, Reached
<1>5. /\ UNCHANGED sinkVars /\ stream' = stream /\ local' = local /\ calls <= calls'
      /\ means \in [Handles -> Objects \cup {None}] /\ calls \in Nat /\ pipeline' = pipeline
  BY <1>0, <1>1 DEF chainVars, Types, Objects
<1>6. CASE pc.dev + 1 < NumDevices
  <2>1. /\ Types' /\ Allocated' /\ InUse' /\ InTransfer' /\ Streamed' /\ Mapped'
        /\ Known' = Known /\ means' = means /\ Chains' = Chains
        /\ \A i \in Devices : \A b : Reached(i, b) => Agrees(i, b)'
    BY <1>0, <1>1, <1>3, <1>6, ToNextDevice
  <2>2. /\ means' = [means EXCEPT ![h] = None] /\ None \in Objects \cup {None}
        /\ \A g \in Chains' :
             g \in Chains /\ means'[g] = means[g] /\ local'[g].image = local[g].image
    BY <1>2, <1>5, <2>1
  <2>3. Known <= Known'
    BY <1>5, <2>1 DEF Known
  <2>4. \A i \in Devices :
          pipeline'[i] = pipeline[i] /\ \A b \in CardStates : Agrees(i, b) => Agrees(i, b)'
    BY <1>4, <1>5, <2>1
  <2>. QED
    BY <1>5, <2>1, <2>2, <2>3, <2>4, HostKeeps
<1>7. CASE ~ (pc.dev + 1 < NumDevices)
  <2>1. /\ Types' /\ Allocated' /\ InUse' /\ InTransfer' /\ Streamed' /\ Mapped'
        /\ Known' = calls /\ Known < Known' /\ means' = [means EXCEPT ![pc.h] = calls]
        /\ Chains' = Chains /\ \A g \in Held : means'[g] = means[g]
        /\ \A i \in Devices : \A b : Reached(i, b) => Agrees(i, b)'
    BY <1>0, <1>1, <1>3, <1>7, AfterLastDevice
  <2>2. /\ means' = [means EXCEPT ![h] = k] /\ k = Known' /\ k \in Objects \cup {None}
        /\ \A g \in Chains' :
             g \in Chains /\ means'[g] = means[g] /\ local'[g].image = local[g].image
    BY <1>2, <1>5, <2>1 DEF Chains
  <2>3. Known <= Known'
    BY <1>5, <2>1 DEF Known
  <2>4. \A i \in Devices :
          pipeline'[i] = pipeline[i] /\ \A b \in CardStates : Agrees(i, b) => Agrees(i, b)'
    BY <1>4, <1>5, <2>1
  <2>. QED
    BY <1>5, <2>1, <2>2, <2>3, <2>4, HostKeeps
<1>. QED
  BY <1>6, <1>7

\* When no transfer is under way the cards are what they are between two calls.
LEMMA AgreesAsBetween ==
  ASSUME pc.op \notin Transfers, pc'.op \notin Transfers,
         UNCHANGED <<counters, means, buffers>>
  PROVE  \A i \in Devices : \A b \in CardStates : Agrees(i, b) <=> Agrees(i, b)'
<1>1. Held' = Held /\ Chains' = Chains
  BY DEF Held, Chains
<1>2. \A i \in Devices : ~ Created(i) /\ ~ Created(i)'
  BY DEF Created
<1>3. pc.op \notin {"write", "set"} /\ pc'.op \notin {"write", "set"}
  BY DEF Transfers
<1>. QED
  BY <1>1, <1>2, <1>3 DEF Agrees

\* Nothing is transferred before and after.
LEMMA NoTransfer ==
  ASSUME Types, InTransfer, pc.op \notin Transfers, pc'.op \notin Transfers, pipeline' = pipeline
  PROVE  InTransfer' /\ Streamed'
<1>1. NoneSet
  <2>1. pc.op # "set"
    BY DEF Transfers
  <2>. QED
    BY <2>1, NoneSetBefore
<1>2. Transferring'
  BY DEF Transferring
<1>3. pc'.op # "set"
  BY DEF Transfers
<1>. QED
  BY <1>1, <1>2, <1>3 DEF InTransfer, NoneSet, Streamed

LEMMA MapDeviceKeepsInv ==
  ASSUME Inv, MapDevice
  PROVE  Inv'
<1>0. /\ Types /\ CardTypes /\ InTransfer /\ Painted /\ Mapped /\ pc.op = "map"
      /\ pc.dev < NumDevices /\ BufferIdle(pc.dev, pc.h, pc.n)
      /\ shown' = [shown EXCEPT ![pc.dev] = pixels[pc.dev][means[pc.h]][pc.n]]
      /\ pc' = [pc EXCEPT !.dev = @ + 1]
      /\ UNCHANGED <<calls, hostVars, buffers, curBuffer, local, pipeline, stream, sinkVars>>
      /\ UNCHANGED <<calls, counters, means, buffers, local, pipeline>>
  BY DEF Inv, MapDevice, hostVars
<1>1. pc.dev \in 0 .. NumDevices
  BY <1>0 DEF Types
<1>2. PICK d \in Devices, h \in Chains, n \in Buffers :
        d = pc.dev /\ h = pc.h /\ n = pc.n /\ h \in Handles /\ means[h] \in Objects
  <2>1. pc.dev \in Devices
    BY <1>0, <1>1 DEF Devices
  <2>2. pc.h \in Chains /\ pc.n \in Buffers
    BY <1>0 DEF Mapped
  <2>3. pc.h \in Handles /\ means[pc.h] \in Objects
    BY <1>0, <2>2 DEF Chains, Held, Types
  <2>. QED
    BY <2>1, <2>2, <2>3
<1>3. /\ pc'.op = "map" /\ pc'.h = pc.h /\ pc'.dev = d + 1 /\ pc'.n = pc.n
      /\ pc' = [op |-> pc'.op, h |-> pc'.h, dev |-> pc'.dev, n |-> pc'.n]
  <2>1. pc \in [op : Operations, h : {0} \cup Handles, dev : 0 .. NumDevices, n : Nat]
    BY <1>0 DEF Types
  <2>. QED
    BY <1>0, <1>2, <2>1
<1>4. pixels[d][means[h]][n] = local[h].image[n]
  <2>1. Shows(d, h, n)
    BY <1>0, <1>2 DEF Painted
  <2>2. \A j \in 1 .. Len(pipeline[d]) : ~ Renders(pipeline[d][j], h, n)
    BY <1>0, <1>2 DEF BufferIdle, Renders
  <2>. QED
    BY <2>1, <2>2 DEF Shows
<1>5. pixels[d][means[h]][n] \in 0 .. MaxCalls
  BY <1>0, <1>2 DEF CardTypes
<1>6. shown' \in [Devices -> 0 .. MaxCalls] /\ shown'[d] = local[h].image[n]
      /\ \A i \in Devices : i # d => shown'[i] = shown[i]
  BY <1>0, <1>2, <1>4, <1>5 DEF Types
<1>7. Mapped'
  <2>1. Chains' = Chains
    BY <1>0 DEF Held, Chains
  <2>2. ASSUME NEW i \in Devices, i < d + 1 PROVE shown'[i] = local'[h].image[n]
    <3>1. i = d \/ i < d
      BY <2>2 DEF Devices
    <3>2. i < d => i # d /\ shown[i] = local[h].image[n]
      BY <1>0, <1>2 DEF Mapped, Devices
    <3>. QED
      BY <1>0, <1>6, <3>1, <3>2
  <2>. QED
    BY <1>2, <1>3, <2>1, <2>2 DEF Mapped
<1>8. InTransfer' /\ Streamed'
  BY <1>0, <1>3, NoTransfer DEF Transfers
<1>9. Known' = Known
  BY <1>0, <1>3 DEF Known, Transfers
<1>10. /\ pc'.op \in Operations /\ pc'.dev \in 0 .. NumDevices /\ pc'.n \in Nat
  <2>1. pc'.op \in Operations
    BY <1>3 DEF Operations
  <2>2. pc'.dev \in 0 .. NumDevices /\ pc'.n \in Nat
    BY <1>2, <1>3 DEF Devices, Buffers
  <2>. QED
    BY <2>1, <2>2
<1>11. \A i \in Devices : \A b \in CardStates : Agrees(i, b) => Agrees(i, b)'
  BY <1>0, <1>3, AgreesAsBetween DEF Transfers
<1>12. pc'.h \in {0} \cup Handles
  BY <1>2, <1>3
<1>. QED
  BY <1>0, <1>3, <1>6, <1>7, <1>8, <1>9, <1>10, <1>11, <1>12, WaitKeeps

\* MapReturns, UnmapFrameBuffer, PickWait and Close.
LEMMA PcKeepsInv ==
  ASSUME Inv, pc.op \notin Transfers, pc'.op \in Operations \ Transfers, pc'.h \in {0} \cup Handles,
         pc'.dev \in 0 .. NumDevices, pc'.n \in Nat,
         pc' = [op |-> pc'.op, h |-> pc'.h, dev |-> pc'.dev, n |-> pc'.n], Mapped',
         UNCHANGED <<calls, hostVars, chainVars, pipeline, stream, sinkVars>>
  PROVE  Inv'
<1>0. /\ Types /\ InTransfer
      /\ UNCHANGED <<calls, counters, means, buffers, curBuffer, shown, local, pipeline, stream,
                     sinkVars, hostVars>>
      /\ UNCHANGED <<counters, means, buffers>>
  BY DEF Inv, hostVars, chainVars
<1>1. InTransfer' /\ Streamed'
  BY <1>0, NoTransfer
<1>2. Known' = Known
  BY <1>0 DEF Known
<1>3. \A i \in Devices : \A b \in CardStates : Agrees(i, b) => Agrees(i, b)'
  BY <1>0, AgreesAsBetween
<1>4. shown' \in [Devices -> 0 .. MaxCalls]
  BY <1>0 DEF Types
<1>. QED
  BY <1>0, <1>1, <1>2, <1>3, <1>4, WaitKeeps

LEMMA MapReturnsKeepsInv ==
  ASSUME Inv, MapReturns
  PROVE  Inv'
<1>0. /\ Types /\ Mapped /\ pc.op = "map" /\ pc.dev = NumDevices
      /\ pc' = [pc EXCEPT !.op = "mapped"]
      /\ UNCHANGED <<calls, hostVars, chainVars, pipeline, stream, sinkVars>>
      /\ UNCHANGED <<counters, means, buffers, local, shown>>
  BY DEF Inv, MapReturns, hostVars, chainVars
<1>1. /\ pc'.op = "mapped" /\ pc'.h = pc.h /\ pc'.dev = pc.dev /\ pc'.n = pc.n
      /\ pc' = [op |-> pc'.op, h |-> pc'.h, dev |-> pc'.dev, n |-> pc'.n]
      /\ pc'.h \in {0} \cup Handles /\ pc'.dev \in 0 .. NumDevices /\ pc'.n \in Nat
  <2>1. pc \in [op : Operations, h : {0} \cup Handles, dev : 0 .. NumDevices, n : Nat]
    BY <1>0 DEF Types
  <2>. QED
    BY <1>0, <2>1
<1>2. Mapped'
  <2>1. Chains' = Chains
    BY <1>0 DEF Held, Chains
  <2>2. \A i \in Devices : i < pc.dev
    BY <1>0 DEF Devices
  <2>. QED
    BY <1>0, <1>1, <2>1, <2>2 DEF Mapped
<1>3. pc'.op \in Operations \ Transfers /\ pc.op \notin Transfers
  BY <1>0, <1>1 DEF Operations, Transfers
<1>. QED
  BY <1>0, <1>1, <1>2, <1>3, PcKeepsInv

\* The call returns, or the destructor begins.
LEMMA BackKeepsInv ==
  ASSUME Inv, UnmapFrameBuffer \/ PickWait \/ Close
  PROVE  Inv'
<1>0. /\ pc' = Idle \/ pc' = [Idle EXCEPT !.op = "closing"]
      /\ pc.op \in {"mapped", "pick", "idle"}
      /\ UNCHANGED <<calls, hostVars, chainVars, pipeline, stream, sinkVars>>
  BY DEF UnmapFrameBuffer, PickWait, Close, Idle
<1>1. /\ pc'.op \in {"idle", "closing"} /\ pc'.h = 0 /\ pc'.dev = 0 /\ pc'.n = 0
      /\ pc' = [op |-> pc'.op, h |-> pc'.h, dev |-> pc'.dev, n |-> pc'.n]
  BY <1>0 DEF Idle
<1>2. Mapped'
  BY <1>1 DEF Mapped
<1>3. pc'.op \in Operations \ Transfers /\ pc.op \notin Transfers
  BY <1>0, <1>1 DEF Operations, Transfers
<1>4. pc'.h \in {0} \cup Handles /\ pc'.dev \in 0 .. NumDevices /\ pc'.n \in Nat
  BY <1>1
<1>. QED
  BY <1>0, <1>1, <1>2, <1>3, <1>4, PcKeepsInv

LEMMA MapFrameBufferKeepsInv ==
  ASSUME Inv, NEW h \in Handles, NEW b \in Buffers \cup {-1}, MapFrameBuffer(h, b)
  PROVE  Inv'
<1>0. /\ Types /\ Allocated /\ InUse /\ InTransfer /\ pc = Idle /\ pc.op = "idle"
      /\ calls < MaxCalls /\ calls' = calls + 1 /\ h \in Chains
      /\ pc' = [op |-> "map", h |-> h, dev |-> 0, n |-> IF b < 0 THEN buffers[h] ELSE b]
      /\ UNCHANGED <<nextHandle, pool, counters, means, buffers, curBuffer, shown, local, pipeline,
                     stream, sinkVars>>
  BY DEF Inv, Call, MapFrameBuffer, hostVars, chainVars, Idle
<1>1. PICK n \in Buffers : n = IF b < 0 THEN buffers[h] ELSE b
  <2>1. buffers[h] \in Buffers
    BY <1>0 DEF Types, Chains
  <2>2. b < 0 \/ b \in Buffers
    OBVIOUS
  <2>. QED
    BY <2>1, <2>2
<1>2. pc'.op = "map" /\ pc'.h = h /\ pc'.dev = 0 /\ pc'.n = n
  BY <1>0, <1>1
<1>3. pc' \in [op : Operations, h : {0} \cup Handles, dev : 0 .. NumDevices, n : Nat]
  <2>1. n \in Nat
    BY DEF Buffers
  <2>. QED
    BY <1>0, <1>1, <2>1 DEF Operations
<1>4. calls \in Nat /\ calls' \in 0 .. MaxCalls /\ \A g \in Handles : counters'[g] <= calls'
  BY <1>0 DEF Types
<1>5. Types'
  BY <1>0, <1>3, <1>4 DEF Types
<1>6. Allocated' /\ InUse'
  BY <1>0 DEF Allocated, InUse
<1>7. InTransfer' /\ Streamed'
  BY <1>0, <1>2, NoTransfer DEF Transfers
<1>8. Chains' = Chains
  BY <1>0 DEF Held, Chains
<1>9. Mapped'
  <2>1. \A i \in Devices : ~ (i < 0)
    BY DEF Devices
  <2>. QED
    BY <1>0, <1>2, <1>8, <2>1 DEF Mapped
<1>10. Known <= Known' /\ calls <= calls'
  BY <1>0, <1>2, <1>4 DEF Known, Transfers
<1>11. \A i \in Devices :
         pipeline'[i] = pipeline[i] /\ \A c \in CardStates : Agrees(i, c) => Agrees(i, c)'
  BY <1>0, <1>2, AgreesAsBetween DEF Transfers
<1>12. means' = [means EXCEPT ![0] = None] /\ stream' = stream /\ UNCHANGED sinkVars
  BY <1>0 DEF Types, Handles
<1>13. \A g \in Chains' : g \in Chains /\ means'[g] = means[g] /\ local'[g].image = local[g].image
  BY <1>0, <1>8
<1>. QED
  BY <1>5, <1>6, <1>7, <1>9, <1>10, <1>11, <1>12, <1>13, HostKeeps

LEMMA PickKeepsInv ==
  ASSUME Inv, NEW camera \in Handles, NEW scene \in Handles, Pick(camera, scene)
  PROVE  Inv'
<1>0. /\ Types /\ Allocated /\ InUse /\ InTransfer /\ pc = Idle /\ pc.op = "idle"
      /\ calls < MaxCalls /\ calls' = calls + 1 /\ {camera, scene} \in SUBSET Held
      /\ EnqueueOn(0, Function("rtPick", 0, {camera, scene}))
      /\ pc' = [Idle EXCEPT !.op = "pick"]
      /\ UNCHANGED <<nextHandle, pool, counters, means, buffers, curBuffer, shown, local,
                     stream, sinkVars>>
  BY DEF Inv, Call, Pick, hostVars, chainVars, Idle
<1>1. PICK d \in Devices : d = 0
  BY DEF Devices
<1>2. /\ pc'.op = "pick" /\ pc'.dev = 0
      /\ pc' \in [op : Operations, h : {0} \cup Handles, dev : 0 .. NumDevices, n : Nat]
  BY <1>0 DEF Idle, Operations
<1>3. PICK args \in SUBSET Held : args = {camera, scene}
  BY <1>0
<1>4. PICK m \in Functions :
        /\ m = Creates("rtPick", 0, None, args) /\ m.fn = "rtPick"
        /\ \A arg \in m.args : arg[1] \in args /\ arg[2] = means[arg[1]]
  <2>1. PICK fn \in {"rtPick"}, none \in Handles \cup {0} : none = 0
    OBVIOUS
  <2>2. /\ None \in Objects \cup {None} /\ fn \notin Creators
        /\ fn \notin {"rtDecRef", "rtSwapBuffers"} /\ Types
        /\ fn \in Creators \cup {"rtNewDataStart", "rtDecRef", "rtSet", "rtSetReference",
                                 "rtPick", "rtSwapBuffers"}
    BY <1>0 DEF Creators
  <2>3. PICK m \in Functions :
          /\ m = Creates(fn, none, None, args)
          /\ \A arg \in m.args : arg[1] \in args /\ arg[2] = means[arg[1]]
    BY <2>2, CreatesType
  <2>4. m.fn = "rtPick"
    BY <2>3 DEF Creates
  <2>. QED
    BY <2>1, <2>3, <2>4
<1>5. /\ pipeline' \in [Devices -> Seq(Functions)]
      /\ pipeline'[d] = Append(pipeline[d], m)
      /\ \A i \in Devices : i # d => pipeline'[i] = pipeline[i]
  <2>1. EnqueueOn(d, m)
    BY <1>0, <1>1, <1>3, <1>4 DEF Function
  <2>. QED
    BY <1>0, <2>1, EnqueueOnTypes
<1>6. calls \in Nat /\ calls' \in 0 .. MaxCalls /\ \A g \in Handles : counters'[g] <= calls'
  BY <1>0 DEF Types
<1>7. Types'
  BY <1>0, <1>2, <1>5, <1>6 DEF Types
<1>8. Allocated' /\ InUse'
  BY <1>0 DEF Allocated, InUse
<1>9. InTransfer' /\ Streamed' /\ Mapped'
  <2>1. NoneSet
    BY <1>0, NoneSetBefore
  <2>2. \A i \in Devices :
          \/ pipeline'[i] = pipeline[i]
          \/ \E e \in Functions : e.fn # "rtNewDataSet" /\ pipeline'[i] = Append(pipeline[i], e)
    BY <1>4, <1>5
  <2>3. NoneSet'
    BY <1>0, <2>1, <2>2, NoneSetAfter
  <2>4. Transferring' /\ Streamed' /\ Mapped'
    BY <1>2 DEF Transferring, Transfers, Streamed, Mapped
  <2>. QED
    BY <2>3, <2>4 DEF InTransfer, NoneSet
<1>10. Known <= Known' /\ calls <= calls'
  BY <1>0, <1>2, <1>6 DEF Known, Transfers
<1>11. \A i \in Devices : \A b \in CardStates : Agrees(i, b) <=> Agrees(i, b)'
  BY <1>0, <1>2, AgreesAsBetween DEF Transfers
<1>12. ASSUME NEW b \in CardStates, Agrees(d, b)
       PROVE  Expected(m, b) /\ \A c : c = After(stream'[d], m, b) => Agrees(d, c)'
  <2>1. Holds(b)
    BY <1>0, <1>12 DEF Agrees, Holds, Created, Transfers
  <2>2. Expected(m, b)
    BY <1>0, <1>4, <2>1, HeldExpected
  <2>3. ASSUME NEW c, c = After(stream'[d], m, b) PROVE Agrees(d, c)'
    <3>1. c.obj = b.obj /\ c.live = b.live /\ c.buf = b.buf /\ c.data = b.data
      BY <1>4, <2>3 DEF After, Creators
    <3>2. Agrees(d, b)'
      BY <1>11, <1>12
    <3>. QED
      BY <3>1, <3>2 DEF Agrees
  <2>. QED
    BY <2>2, <2>3
<1>13. means' = [means EXCEPT ![0] = None] /\ stream' = stream /\ UNCHANGED sinkVars
  BY <1>0 DEF Types, Handles
<1>14. \A g \in Chains' : g \in Chains /\ means'[g] = means[g] /\ local'[g].image = local[g].image
  BY <1>0 DEF Held, Chains
<1>15. /\ m.fn # "rtRenderFrame"
       /\ \A arg \in m.args : arg[2] = means[arg[1]] /\ means'[arg[1]] = means[arg[1]]
  BY <1>0, <1>4
<1>. QED
  BY <1>5, <1>7, <1>8, <1>9, <1>10, <1>11, <1>12, <1>13, <1>14, <1>15, EnqueueOnKeeps

-----------------------------------------------------------------------------
(* A card executes a function.                                             *)

\* What the host sees does not change.
LEMMA RunLeavesHost ==
  ASSUME NEW i \in Devices, Run(i)
  PROVE  /\ UNCHANGED <<calls, pc, nextHandle, pool, counters, means, buffers, curBuffer, shown,
                        local, stream>>
         /\ Held' = Held /\ Chains' = Chains /\ Known' = Known
         /\ \A d : \A b : Agrees(d, b)' <=> Agrees(d, b)
<1>1. UNCHANGED <<calls, pc, nextHandle, pool, counters, means, buffers, curBuffer, shown, local,
                  stream>>
  BY DEF Run, hostVars, chainVars
<1>2. Held' = Held /\ Chains' = Chains /\ Known' = Known
  BY <1>1 DEF Held, Chains, Known
<1>3. \A d : \A b : Agrees(d, b)' <=> Agrees(d, b)
  BY <1>1, <1>2 DEF Agrees, Created, Written
<1>. QED
  BY <1>1, <1>2, <1>3

\* Of the functions on their way the first one is gone.
LEMMA RunTakesFirst ==
  ASSUME Types, NEW i \in Devices, Run(i)
  PROVE  /\ pipeline[i] \in Seq(Functions) /\ pipeline[i] # <<>> /\ Head(pipeline[i]) \in Functions
         /\ pipeline' \in [Devices -> Seq(Functions)] /\ pipeline'[i] = Tail(pipeline[i])
         /\ Len(pipeline[i]) \in Nat \ {0} /\ Len(pipeline'[i]) = Len(pipeline[i]) - 1
         /\ pipeline[i][1] = Head(pipeline[i])
         /\ \A j \in 1 .. Len(pipeline[i]) - 1 :
              j + 1 \in 1 .. Len(pipeline[i]) /\ pipeline'[i][j] = pipeline[i][j + 1]
         /\ \A d \in Devices : d # i => pipeline'[d] = pipeline[d]
<1>1. /\ pipeline \in [Devices -> Seq(Functions)] /\ pipeline[i] # <<>>
      /\ pipeline' = [pipeline EXCEPT ![i] = Tail(pipeline[i])]
  BY DEF Types, Run
<1>2. PICK seq \in Seq(Functions) : seq = pipeline[i] /\ seq # <<>>
  BY <1>1
<1>3. /\ Tail(seq) \in Seq(Functions) /\ Head(seq) \in Functions /\ Head(seq) = seq[1]
      /\ Len(seq) \in Nat \ {0} /\ Len(Tail(seq)) = Len(seq) - 1
      /\ \A j \in 1 .. Len(seq) - 1 : j + 1 \in 1 .. Len(seq) /\ Tail(seq)[j] = seq[j + 1]
  BY <1>2
<1>. QED
  BY <1>1, <1>2, <1>3

\* The function finds what it takes for granted, and the rest leads on.
LEMMA RunExpected ==
  ASSUME Inv, NEW i \in Devices, pipeline[i] # <<>>
  PROVE  LET m == Head(pipeline[i]) IN
         /\ Expected(m, Card(i)) /\ Card(i) \in CardStates
         /\ After(stream[i], m, Card(i)) \in CardStates
         /\ \E b \in CardStates :
              /\ Leads(stream[i], After(stream[i], m, Card(i)), Tail(pipeline[i]), b)
              /\ Agrees(i, b)
<1>0. Types /\ CardTypes /\ Behind
  BY DEF Inv
<1>1. PICK b \in CardStates : Leads(stream[i], Card(i), pipeline[i], b) /\ Agrees(i, b)
  BY <1>0 DEF Behind
<1>2. PICK seq \in Seq(Functions), part \in Parts :
        seq = pipeline[i] /\ seq # <<>> /\ part = stream[i] /\ Head(seq) \in Functions
  BY <1>0 DEF Types
<1>3. PICK a \in CardStates : a = Card(i)
  BY <1>0 DEF CardTypes, CardStates, Card
<1>4. Leads(part, a, seq, b)
  BY <1>1, <1>2, <1>3
<1>5. Expected(Head(seq), a) /\ Leads(part, After(part, Head(seq), a), Tail(seq), b)
  BY <1>2, <1>4, LeadsOn
<1>6. After(part, Head(seq), a) \in CardStates
  BY <1>2, <1>5, AfterType
<1>. QED
  BY <1>1, <1>2, <1>3, <1>5, <1>6

\* The card is afterwards what Leads says.
LEMMA RunIsAfter ==
  ASSUME CardTypes, NEW i \in Devices, Run(i), NEW m, m = Head(pipeline[i]), NEW c,
         c = After(stream[i], m, Card(i))
  PROVE  /\ gHandles' = [gHandles EXCEPT ![i] = c.obj]
         /\ live' = [live EXCEPT ![i] = c.live]
         /\ buf' = [buf EXCEPT ![i] = c.buf]
         /\ gData' = [gData EXCEPT ![i] = c.data]
<1>0. /\ gHandles = [gHandles EXCEPT ![i] = gHandles[i]] /\ live = [live EXCEPT ![i] = live[i]]
      /\ buf = [buf EXCEPT ![i] = buf[i]] /\ gData = [gData EXCEPT ![i] = gData[i]]
  BY DEF CardTypes
<1>1. CASE RunNew(i, m)
  <2>1. /\ c.obj = [gHandles[i] EXCEPT ![m.id] = m.obj] /\ c.live = live[i] \cup {m.obj}
        /\ c.buf = buf[i] /\ c.data = gData[i]
    BY <1>1 DEF RunNew, After, Creators, Card
  <2>. QED
    BY <1>0, <1>1, <2>1 DEF RunNew, SetHandle
<1>2. CASE RunNewFrameBuffer(i, m)
  <2>1. /\ c.obj = [gHandles[i] EXCEPT ![m.id] = m.obj] /\ c.live = live[i] \cup {m.obj}
        /\ c.buf = [buf[i] EXCEPT ![m.obj] = 0] /\ c.data = gData[i]
    BY <1>2 DEF RunNewFrameBuffer, After, Creators, Card
  <2>. QED
    BY <1>0, <1>2, <2>1 DEF RunNewFrameBuffer, SetHandle
<1>3. CASE RunDecRef(i, m)
  <2>1. /\ c.obj = gHandles[i] /\ c.live = live[i] \ {gHandles[i][m.id]}
        /\ c.buf = buf[i] /\ c.data = gData[i]
    BY <1>3 DEF RunDecRef, After, Creators, Card
  <2>. QED
    BY <1>0, <1>3, <2>1 DEF RunDecRef
<1>4. CASE RunSetValue(i, m) \/ RunSetReference(i, m) \/ RunPick(i, m)
  <2>1. m.fn \in {"rtSet", "rtSetReference", "rtPick"} /\ UNCHANGED <<gHandles, live, buf, gData>>
    BY <1>4 DEF RunSetValue, RunSetReference, RunPick, sinkVars
  <2>2. c.obj = gHandles[i] /\ c.live = live[i] /\ c.buf = buf[i] /\ c.data = gData[i]
    BY <2>1 DEF After, Creators, Card
  <2>. QED
    BY <1>0, <2>1, <2>2
<1>5. CASE RunNewDataStart(i, m)
  <2>1. /\ c.obj = gHandles[i] /\ c.live = live[i] /\ c.buf = buf[i]
        /\ c.data = [o \in Chunks |-> None]
    BY <1>5 DEF RunNewDataStart, After, Creators, Card
  <2>. QED
    BY <1>0, <1>5, <2>1 DEF RunNewDataStart
<1>6. CASE RunNewDataSet(i, m)
  <2>1. /\ c.obj = gHandles[i] /\ c.live = live[i] /\ c.buf = buf[i]
        /\ c.data = [gData[i] EXCEPT ![m.n] = stream[i]]
    BY <1>6 DEF RunNewDataSet, After, Creators, Card
  <2>. QED
    BY <1>0, <1>6, <2>1 DEF RunNewDataSet
<1>7. CASE RunNewDataEnd(i, m)
  <2>1. /\ c.obj = [gHandles[i] EXCEPT ![m.id] = m.obj] /\ c.live = live[i] \cup {m.obj}
        /\ c.buf = buf[i] /\ c.data = None
    BY <1>7 DEF RunNewDataEnd, After, Creators, Card
  <2>. QED
    BY <1>0, <1>7, <2>1 DEF RunNewDataEnd, SetHandle
<1>8. CASE RunRenderFrame(i, m)
  <2>1. c.obj = gHandles[i] /\ c.live = live[i] /\ c.buf = buf[i] /\ c.data = gData[i]
    BY <1>8 DEF RunRenderFrame, After, Creators, Card
  <2>. QED
    BY <1>0, <1>8, <2>1 DEF RunRenderFrame
<1>9. CASE RunSwapBuffers(i, m)
  <2>1. /\ c.obj = gHandles[i] /\ c.live = live[i] /\ c.data = gData[i]
        /\ c.buf = [buf[i] EXCEPT ![gHandles[i][m.id]] = (@ + 1) % Depth]
    BY <1>9 DEF RunSwapBuffers, After, Creators, Card
  <2>. QED
    BY <1>0, <1>9, <2>1 DEF RunSwapBuffers
<1>. QED
  BY <1>1, <1>2, <1>3, <1>4, <1>5, <1>6, <1>7, <1>8, <1>9 DEF Run

\* A frame is rendered to the buffer that the host has passed, of the object that
\* it meant; a data object gets what has been received.
LEMMA RunWrites ==
  ASSUME CardTypes, NEW i \in Devices, Run(i), NEW m \in Functions, m = Head(pipeline[i]),
         Expected(m, Card(i))
  PROVE  /\ \/ pixels' = pixels /\ m.fn # "rtRenderFrame"
            \/ /\ m.fn = "rtRenderFrame"
               /\ \E h \in Handles, k \in Objects :
                    /\ m.args = {<<h, k>>}
                    /\ pixels' = [pixels EXCEPT ![i][k][m.buf] = m.n]
         /\ \/ content' = content
            \/ \E k \in Objects : content' = [content EXCEPT ![i][k] = Full(k)]
<1>1. CASE RunRenderFrame(i, m)
  <2>1. m.fn = "rtRenderFrame" /\ content' = content
        /\ pixels' = [pixels EXCEPT ![i][gHandles[i][m.id]][buf[i][gHandles[i][m.id]]] = m.n]
    BY <1>1 DEF RunRenderFrame
  <2>2. PICK k \in Objects : m.id \in Handles /\ m.args = {<<m.id, k>>}
    BY <2>1 DEF Functions
  <2>3. gHandles[i][m.id] = k
    <3>1. <<m.id, k>> \in m.args
      BY <2>2
    <3>. QED
      BY <3>1 DEF Expected, Card
  <2>4. buf[i][k] = m.buf
    BY <2>1, <2>3 DEF Expected, Card
  <2>. QED
    BY <2>1, <2>2, <2>3, <2>4
<1>2. CASE RunNewDataEnd(i, m)
  <2>1. /\ m.fn = "rtNewDataEnd" /\ pixels' = pixels /\ m.obj \in Objects
        /\ content' = [content EXCEPT ![i][m.obj] = gData[i]]
    BY <1>2 DEF RunNewDataEnd, Functions, Creators
  <2>2. gData[i] = Full(m.obj)
    BY <2>1 DEF Expected, Card
  <2>. QED
    BY <2>1, <2>2
<1>3. CASE ~ RunRenderFrame(i, m) /\ ~ RunNewDataEnd(i, m)
  BY <1>3 DEF Run, RunNew, RunNewFrameBuffer, RunDecRef, RunSetValue, RunSetReference, RunPick,
              RunNewDataStart, RunNewDataSet, RunSwapBuffers, sinkVars
<1>. QED
  BY <1>1, <1>2, <1>3

\* The last frame of a buffer is still what it is going to show.
LEMMA RunShows ==
  ASSUME Inv, NEW i \in Devices, Run(i), NEW m \in Functions, m = Head(pipeline[i]),
         Expected(m, Card(i)), NEW h \in Chains, NEW b \in Buffers
  PROVE  Shows(i, h, b)'
<1>0. /\ Types /\ CardTypes /\ Named /\ Shows(i, h, b) /\ h \in Handles
      /\ means[h] \in Objects /\ means' = means /\ local' = local
  BY RunLeavesHost DEF Inv, Painted, Chains, Held, Types
<1>1. PICK p \in Nat : /\ Len(pipeline[i]) = p + 1 /\ Len(pipeline'[i]) = p
                       /\ \A j \in 1 .. p : pipeline'[i][j] = pipeline[i][j + 1]
                       /\ pipeline[i][1] = m
  <2>1. /\ Len(pipeline[i]) \in Nat \ {0} /\ Len(pipeline'[i]) = Len(pipeline[i]) - 1
        /\ pipeline[i][1] = m
        /\ \A j \in 1 .. Len(pipeline[i]) - 1 : pipeline'[i][j] = pipeline[i][j + 1]
    BY <1>0, RunTakesFirst
  <2>2. Len(pipeline[i]) - 1 \in Nat /\ Len(pipeline[i]) = (Len(pipeline[i]) - 1) + 1
    BY <2>1
  <2>. QED
    BY <2>1, <2>2
<1>2. \A j \in 1 .. p : Renders(pipeline[i][j], h, b)' <=> Renders(pipeline[i][j + 1], h, b)
  BY <1>0, <1>1 DEF Renders
<1>3. ASSUME NEW j \in 1 .. p, Renders(pipeline[i][j], h, b)',
             \A l \in 1 .. p : Renders(pipeline[i][l], h, b)' => l <= j
      PROVE  pipeline'[i][j].n = local'[h].image[b]
  <2>1. Renders(pipeline[i][j + 1], h, b) /\ j + 1 \in 1 .. p + 1
    BY <1>2, <1>3
  <2>2. ASSUME NEW l \in 1 .. p + 1, Renders(pipeline[i][l], h, b) PROVE l <= j + 1
    <3>1. CASE l = 1
      BY <3>1
    <3>2. CASE l # 1
      <4>1. PICK q \in 1 .. p : l = q + 1
        <5>1. l - 1 \in 1 .. p /\ l = (l - 1) + 1
          BY <3>2
        <5>. QED
          BY <5>1
      <4>2. Renders(pipeline[i][q], h, b)'
        BY <1>2, <2>2, <4>1
      <4>3. q <= j
        BY <1>3, <4>2
      <4>. QED
        BY <4>1, <4>3
    <3>. QED
      BY <3>1, <3>2
  <2>3. pipeline[i][j + 1].n = local[h].image[b]
    BY <1>0, <1>1, <2>1, <2>2 DEF Shows
  <2>. QED
    BY <1>0, <1>1, <2>3
<1>4. ASSUME \A j \in 1 .. p : ~ Renders(pipeline[i][j], h, b)'
      PROVE  pixels'[i][means'[h]][b] = local'[h].image[b]
  <2>0. \A l \in 1 .. p + 1 : l # 1 => ~ Renders(pipeline[i][l], h, b)
    <3>. SUFFICES ASSUME NEW l \in 1 .. p + 1, l # 1 PROVE ~ Renders(pipeline[i][l], h, b)
      OBVIOUS
    <3>1. PICK q \in 1 .. p : l = q + 1
      <4>1. l - 1 \in 1 .. p /\ l = (l - 1) + 1
        OBVIOUS
      <4>. QED
        BY <4>1
    <3>. QED
      BY <1>2, <1>4, <3>1
  <2>1. \/ pixels' = pixels /\ m.fn # "rtRenderFrame"
        \/ /\ m.fn = "rtRenderFrame"
           /\ \E g \in Handles, k \in Objects :
                m.args = {<<g, k>>} /\ pixels' = [pixels EXCEPT ![i][k][m.buf] = m.n]
    BY <1>0, RunWrites
  <2>2. CASE Renders(m, h, b)
    <3>1. pipeline[i][1].n = local[h].image[b]
      <4>1. 1 \in 1 .. p + 1 /\ Renders(pipeline[i][1], h, b)
        BY <1>1, <2>2
      <4>2. \A l \in 1 .. p + 1 : Renders(pipeline[i][l], h, b) => l <= 1
        BY <2>0
      <4>. QED
        BY <1>0, <1>1, <4>1, <4>2 DEF Shows
    <3>2. m.fn = "rtRenderFrame" /\ m.args = {<<h, means[h]>>} /\ m.buf = b
      BY <2>2 DEF Renders
    <3>3. PICK g \in Handles, k \in Objects :
            m.args = {<<g, k>>} /\ pixels' = [pixels EXCEPT ![i][k][m.buf] = m.n]
      BY <2>1, <3>2
    <3>4. k = means[h]
      <4>1. <<g, k>> = <<h, means[h]>>
        BY <3>2, <3>3
      <4>. QED
        BY <4>1
    <3>5. pixels'[i][means[h]][b] = m.n
      BY <1>0, <3>2, <3>3, <3>4 DEF CardTypes
    <3>. QED
      BY <1>0, <1>1, <3>1, <3>5
  <2>3. CASE ~ Renders(m, h, b)
    <3>1. \A l \in 1 .. p + 1 : ~ Renders(pipeline[i][l], h, b)
      BY <1>1, <2>0, <2>3
    <3>2. pixels[i][means[h]][b] = local[h].image[b]
      BY <1>0, <1>1, <3>1 DEF Shows
    <3>3. pixels'[i][means[h]][b] = pixels[i][means[h]][b]
      <4>1. CASE pixels' = pixels
        BY <4>1
      <4>2. ASSUME m.fn = "rtRenderFrame", NEW g \in Handles, NEW k \in Objects,
                   m.args = {<<g, k>>}, pixels' = [pixels EXCEPT ![i][k][m.buf] = m.n]
            PROVE  pixels'[i][means[h]][b] = pixels[i][means[h]][b]
        <5>1. ~ (k = means[h] /\ m.buf = b)
          <6>. SUFFICES ASSUME k = means[h], m.buf = b PROVE FALSE
            OBVIOUS
          <6>1. <<g, k>> \in pipeline[i][1].args /\ 1 \in 1 .. Len(pipeline[i])
            BY <1>1, <4>2
          <6>2. <<g, k>>[1] = h
            BY <1>0, <6>1 DEF Named
          <6>. QED
            BY <2>3, <4>2, <6>2 DEF Renders
        <5>2. m.buf \in Buffers
          BY DEF Functions
        <5>. QED
          BY <1>0, <4>2, <5>1, <5>2 DEF CardTypes
      <4>. QED
        BY <2>1, <4>1, <4>2
    <3>. QED
      BY <1>0, <3>2, <3>3
  <2>. QED
    BY <2>2, <2>3
<1>. QED
  BY <1>1, <1>3, <1>4 DEF Shows

LEMMA RunKeepsInv ==
  ASSUME Inv, NEW i \in Devices, Run(i)
  PROVE  Inv'
<1>0. /\ Types /\ CardTypes /\ Allocated /\ Named /\ InUse /\ InTransfer /\ Streamed /\ Behind
      /\ Painted /\ Mapped /\ Arrived
  BY DEF Inv
<1>1. /\ UNCHANGED <<calls, pc, nextHandle, pool, counters, means, buffers, curBuffer, shown,
                     local, stream>>
      /\ Held' = Held /\ Chains' = Chains /\ Known' = Known
      /\ \A d : \A b : Agrees(d, b)' <=> Agrees(d, b)
  BY RunLeavesHost
<1>2. /\ pipeline[i] \in Seq(Functions) /\ pipeline[i] # <<>> /\ Head(pipeline[i]) \in Functions
      /\ pipeline' \in [Devices -> Seq(Functions)] /\ pipeline'[i] = Tail(pipeline[i])
      /\ Len(pipeline[i]) \in Nat \ {0} /\ Len(pipeline'[i]) = Len(pipeline[i]) - 1
      /\ pipeline[i][1] = Head(pipeline[i])
      /\ \A j \in 1 .. Len(pipeline[i]) - 1 :
           j + 1 \in 1 .. Len(pipeline[i]) /\ pipeline'[i][j] = pipeline[i][j + 1]
      /\ \A d \in Devices : d # i => pipeline'[d] = pipeline[d]
  BY <1>0, RunTakesFirst
<1>3. PICK m \in Functions, c \in CardStates :
        /\ m = Head(pipeline[i]) /\ Expected(m, Card(i)) /\ c = After(stream[i], m, Card(i))
        /\ \E b \in CardStates : Leads(stream[i], c, Tail(pipeline[i]), b) /\ Agrees(i, b)
  BY <1>2, RunExpected
<1>4. /\ gHandles' = [gHandles EXCEPT ![i] = c.obj] /\ live' = [live EXCEPT ![i] = c.live]
      /\ buf' = [buf EXCEPT ![i] = c.buf] /\ gData' = [gData EXCEPT ![i] = c.data]
  BY <1>0, <1>3, RunIsAfter
<1>5. /\ \/ pixels' = pixels
         \/ \E h \in Handles, k \in Objects :
              m.fn = "rtRenderFrame" /\ m.args = {<<h, k>>}
              /\ pixels' = [pixels EXCEPT ![i][k][m.buf] = m.n]
      /\ \/ content' = content
         \/ \E k \in Objects : content' = [content EXCEPT ![i][k] = Full(k)]
  <2>1. CardTypes /\ m = Head(pipeline[i]) /\ Expected(m, Card(i))
    BY <1>0, <1>3
  <2>2. /\ \/ pixels' = pixels /\ m.fn # "rtRenderFrame"
           \/ /\ m.fn = "rtRenderFrame"
              /\ \E h \in Handles, k \in Objects :
                   /\ m.args = {<<h, k>>}
                   /\ pixels' = [pixels EXCEPT ![i][k][m.buf] = m.n]
        /\ \/ content' = content
           \/ \E k \in Objects : content' = [content EXCEPT ![i][k] = Full(k)]
    BY <2>1, RunWrites, Zenon
  <2>. QED
    BY <2>2, Zenon
<1>6. Types' /\ Allocated' /\ InUse' /\ Streamed' /\ Mapped'
  BY <1>0, <1>1, <1>2 DEF Types, Allocated, InUse, Streamed, Mapped
<1>7. pixels' \in [Devices -> [Objects -> [Buffers -> 0 .. MaxCalls]]]
  <2>1. CASE pixels' = pixels
    BY <1>0, <2>1 DEF CardTypes
  <2>2. ASSUME NEW k \in Objects, m.fn = "rtRenderFrame",
               pixels' = [pixels EXCEPT ![i][k][m.buf] = m.n]
        PROVE  pixels' \in [Devices -> [Objects -> [Buffers -> 0 .. MaxCalls]]]
    <3>1. m.buf \in Buffers /\ m.n \in 0 .. MaxCalls
      BY <2>2 DEF Functions, Objects
    <3>. QED
      BY <1>0, <2>2, <3>1 DEF CardTypes
  <2>. QED
    BY <1>5, <2>1, <2>2
<1>8. content' \in [Devices -> [Objects -> Contents \cup {None}]] /\ Arrived'
  <2>1. CASE content' = content
    BY <1>0, <2>1 DEF CardTypes, Arrived
  <2>2. ASSUME NEW k \in Objects, content' = [content EXCEPT ![i][k] = Full(k)]
        PROVE  content' \in [Devices -> [Objects -> Contents \cup {None}]] /\ Arrived'
    <3>1. Full(k) \in Contents
      BY DEF Full, Contents, Parts
    <3>2. content' \in [Devices -> [Objects -> Contents \cup {None}]]
      BY <1>0, <2>2, <3>1 DEF CardTypes
    <3>3. ASSUME NEW d \in Devices, NEW o \in Objects PROVE content'[d][o] \in {None, Full(o)}
      <4>1. CASE d = i /\ o = k
        BY <1>0, <2>2, <4>1 DEF CardTypes
      <4>2. CASE ~ (d = i /\ o = k)
        <5>1. content'[d][o] = content[d][o]
          BY <1>0, <2>2, <4>2 DEF CardTypes
        <5>. QED
          BY <1>0, <5>1 DEF Arrived
      <4>. QED
        BY <4>1, <4>2
    <3>. QED
      BY <3>2, <3>3 DEF Arrived
  <2>. QED
    BY <1>5, <2>1, <2>2
<1>9. CardTypes'
  <2>1. /\ c.obj \in [Handles -> Objects \cup {None}] /\ c.live \in SUBSET Objects
        /\ c.buf \in [Objects -> Buffers \cup {None}] /\ c.data \in Contents \cup {None}
    BY DEF CardStates
  <2>. QED
    BY <1>0, <1>4, <1>7, <1>8, <2>1 DEF CardTypes
<1>10. Named'
  <2>1. ASSUME NEW d \in Devices, NEW j \in 1 .. Len(pipeline'[d]), NEW arg \in pipeline'[d][j].args
        PROVE  arg[2] <= Known' /\ \A h \in Handles : means'[h] = arg[2] => arg[1] = h
    <3>1. PICK l \in 1 .. Len(pipeline[d]) : arg \in pipeline[d][l].args
      <4>1. CASE d = i
        BY <1>2, <2>1, <4>1
      <4>2. CASE d # i
        BY <1>2, <2>1, <4>2
      <4>. QED
        BY <4>1, <4>2
    <3>. QED
      BY <1>0, <1>1, <3>1 DEF Named
  <2>. QED
    BY <1>0, <1>1, <2>1 DEF Named
<1>11. InTransfer'
  <2>1. ASSUME NEW d \in Devices, NEW j \in 1 .. Len(pipeline'[d]),
               pipeline'[d][j].fn = "rtNewDataSet"
        PROVE  j = Len(pipeline'[d]) /\ pc.op = "set" /\ pc.dev = d
    <3>1. CASE d = i
      <4>1. /\ j \in 1 .. Len(pipeline[i]) - 1 /\ j + 1 \in 1 .. Len(pipeline[i])
            /\ pipeline'[i][j] = pipeline[i][j + 1]
        BY <1>2, <2>1, <3>1
      <4>2. j + 1 = Len(pipeline[i]) /\ pc.op = "set" /\ pc.dev = i
        BY <1>0, <2>1, <3>1, <4>1 DEF InTransfer
      <4>. QED
        BY <1>2, <3>1, <4>1, <4>2
    <3>2. CASE d # i
      BY <1>0, <1>2, <2>1, <3>2 DEF InTransfer
    <3>. QED
      BY <3>1, <3>2
  <2>. QED
    BY <1>0, <1>1, <2>1 DEF InTransfer, Transferring
<1>12. Behind'
  <2>. SUFFICES ASSUME NEW d \in Devices
                PROVE (\E b \in CardStates :
                         Leads(stream[d], Card(d), pipeline[d], b) /\ Agrees(d, b))'
    BY DEF Behind
  <2>1. CASE d = i
    <3>1. c = [obj |-> c.obj, live |-> c.live, buf |-> c.buf, data |-> c.data]
      BY DEF CardStates
    <3>2. Card(i)' = c
      BY <1>0, <1>4, <3>1 DEF Card, CardTypes
    <3>3. PICK b \in CardStates : Leads(stream[i], c, Tail(pipeline[i]), b) /\ Agrees(i, b)
      BY <1>3
    <3>4. Leads(stream'[i], Card(i)', pipeline'[i], b) /\ Agrees(i, b)'
      BY <1>1, <1>2, <3>2, <3>3
    <3>. QED
      BY <2>1, <3>4
  <2>2. CASE d # i
    <3>1. Card(d)' = Card(d)
      BY <1>0, <1>4, <2>2 DEF Card, CardTypes
    <3>2. PICK b \in CardStates : Leads(stream[d], Card(d), pipeline[d], b) /\ Agrees(d, b)
      BY <1>0 DEF Behind
    <3>3. Leads(stream'[d], Card(d)', pipeline'[d], b) /\ Agrees(d, b)'
      BY <1>1, <1>2, <2>2, <3>1, <3>2
    <3>. QED
      BY <3>3
  <2>. QED
    BY <2>1, <2>2
<1>13. Painted'
  <2>1. ASSUME NEW d \in Devices, NEW h \in Chains, NEW b \in Buffers PROVE Shows(d, h, b)'
    <3>1. CASE d = i
      BY <1>3, <3>1, RunShows
    <3>2. CASE d # i
      <4>1. pixels'[d] = pixels[d]
        BY <1>0, <1>5, <3>2 DEF CardTypes
      <4>2. Shows(d, h, b) /\ pipeline'[d] = pipeline[d] /\ pipeline[d] \in Seq(Functions)
        BY <1>0, <1>2, <3>2 DEF Painted, Types
      <4>. QED
        BY <1>1, <4>1, <4>2, ShowsKept
    <3>. QED
      BY <3>1, <3>2
  <2>2. ASSUME NEW d \in Devices, NEW k \in Objects, k > calls' PROVE pixels'[d][k] = Blank
    <3>1. pixels[d][k] = Blank
      BY <1>0, <1>1, <2>2 DEF Painted
    <3>2. ASSUME NEW h \in Handles, NEW o \in Objects, m.args = {<<h, o>>},
                 pixels' = [pixels EXCEPT ![i][o][m.buf] = m.n]
          PROVE  pixels'[d][k] = pixels[d][k]
      <4>1. <<h, o>> \in pipeline[i][1].args /\ 1 \in 1 .. Len(pipeline[i])
        BY <1>2, <1>3, <3>2
      <4>2. <<h, o>>[2] <= Known
        BY <1>0, <4>1 DEF Named
      <4>3. calls \in Nat /\ Known <= calls /\ Known \in Int /\ o \in Int /\ k \in Int
        BY <1>0 DEF Known, Types, Objects
      <4>4. o # k
        BY <1>1, <2>2, <4>2, <4>3
      <4>. QED
        BY <1>0, <3>2, <4>4 DEF CardTypes
    <3>. QED
      BY <1>5, <3>1, <3>2
  <2>. QED
    BY <1>1, <2>1, <2>2 DEF Painted
<1>. QED
  BY <1>6, <1>8, <1>9, <1>10, <1>11, <1>12, <1>13 DEF Inv

-----------------------------------------------------------------------------
(* The theorems.                                                           *)

LEMMA StepKeepsInv == Inv /\ [Next]_vars => Inv'
<1>. SUFFICES ASSUME Inv, [Next]_vars PROVE Inv'
  OBVIOUS
<1>1. ASSUME NEW h \in Handles, New(h) PROVE Inv'
  <2>1. {} \in SUBSET Held /\ h \notin {}
    OBVIOUS
  <2>. QED
    BY <1>1, <2>1, NewObjectKeepsInv DEF New
<1>2. ASSUME NEW h \in Handles, NEW args \in SUBSET Held, NewPrimitive(h, args) PROVE Inv'
  BY <1>2, NewObjectKeepsInv DEF NewPrimitive, PrimitiveFunction
<1>3. ASSUME NEW h \in Handles, SetValue(h) PROVE Inv'
  <2>1. /\ h \in Held /\ {h} \in SUBSET Held /\ Call
        /\ Enqueue(Function("rtSet", h, {h}))
        /\ UNCHANGED <<pc, hostVars, chainVars, stream, sinkVars>>
    BY <1>3 DEF SetValue, ValueFunction
  <2>. QED
    BY <2>1, UseKeepsInv
<1>4. ASSUME NEW h \in Handles, NEW a \in Handles, SetReference(h, a) PROVE Inv'
  <2>1. /\ h \in Held /\ {h, a} \in SUBSET Held /\ Call
        /\ Enqueue(Function("rtSetReference", h, {h, a}))
        /\ UNCHANGED <<pc, hostVars, chainVars, stream, sinkVars>>
    BY <1>4 DEF SetReference, ReferenceFunction
  <2>. QED
    BY <2>1, UseKeepsInv
<1>5. ASSUME NEW h \in Handles, DecRef(h) PROVE Inv'
  BY <1>5, LastRefKeepsInv, OtherRefKeepsInv
<1>6. CASE HostCall
  <2>1. ASSUME NEW h \in Handles,
               \/ New(h) \/ NewThrows(h) \/ NewFrameBuffer(h)
               \/ \E args \in SUBSET Held : NewPrimitive(h, args)
               \/ \E op \in {"data", "image"} : Transfer(op, h)
               \/ IncRef(h) \/ DecRef(h) \/ SetValue(h) \/ RenderFrame(h) \/ SwapBuffers(h)
               \/ \E a \in Handles : SetReference(h, a) \/ Pick(h, a)
               \/ \E b \in Buffers \cup {-1} : MapFrameBuffer(h, b)
        PROVE  Inv'
    BY <1>1, <1>2, <1>3, <1>4, <1>5, <2>1, NewThrowsKeepsInv, NewFrameBufferKeepsInv,
       TransferKeepsInv, IncRefKeepsInv, RenderFrameKeepsInv, SwapBuffersKeepsInv, PickKeepsInv,
       MapFrameBufferKeepsInv
  <2>. QED
    BY <1>6, <2>1, BackKeepsInv DEF HostCall
<1>7. CASE HostStep
  BY <1>7, DataStartKeepsInv, DataSetKeepsInv, DataWaitKeepsInv, DataEndKeepsInv,
     ImageRunKeepsInv, ImageWaitKeepsInv, MapDeviceKeepsInv, MapReturnsKeepsInv, BackKeepsInv
     DEF HostStep
<1>8. CASE UnmapFrameBuffer
  BY <1>8, BackKeepsInv
<1>9. ASSUME NEW i \in Devices, Run(i) PROVE Inv'
  BY <1>9, RunKeepsInv
<1>10. CASE Terminated \/ UNCHANGED vars
  <2>1. UNCHANGED <<calls, pc, nextHandle, pool, counters, means, buffers, curBuffer, shown, local,
                    pipeline, stream, gHandles, gData, live, content, buf, pixels>>
    BY <1>10 DEF Terminated, vars, hostVars, chainVars, sinkVars
  <2>2. Held' = Held /\ Chains' = Chains
    BY <2>1 DEF Held, Chains
  <2>3. Types' /\ CardTypes' /\ Allocated' /\ InUse' /\ Streamed' /\ Mapped' /\ Arrived'
    BY <2>1, <2>2 DEF Inv, Types, CardTypes, Allocated, InUse, Streamed, Mapped, Arrived
  <2>4. Named' /\ InTransfer'
    BY <2>1 DEF Inv, Named, Known, InTransfer, Transferring
  <2>5. Behind'
    <3>. SUFFICES ASSUME NEW d \in Devices
                  PROVE (\E b \in CardStates :
                           Leads(stream[d], Card(d), pipeline[d], b) /\ Agrees(d, b))'
      BY DEF Behind
    <3>1. Card(d)' = Card(d)
      BY <2>1 DEF Card
    <3>2. PICK b \in CardStates : Leads(stream[d], Card(d), pipeline[d], b) /\ Agrees(d, b)
      BY DEF Inv, Behind
    <3>3. Agrees(d, b)'
      BY <2>1, <2>2, <3>2 DEF Agrees, Created, Written
    <3>4. Leads(stream'[d], Card(d)', pipeline'[d], b)
      BY <2>1, <3>1, <3>2
    <3>. QED
      BY <3>3, <3>4
  <2>6. Painted'
    BY <2>1, <2>2 DEF Inv, Painted, Shows, Renders
  <2>. QED
    BY <2>3, <2>4, <2>5, <2>6 DEF Inv
<1>. QED
  BY <1>6, <1>7, <1>8, <1>9, <1>10 DEF Next

THEOREM Invariance == Spec => []Inv
  BY InvInit, StepKeepsInv, PTL DEF Spec

LEMMA InvTypeOK == Inv => TypeOK
<1>. SUFFICES ASSUME Inv PROVE TypeOK
  OBVIOUS
<1>1. Types /\ CardTypes /\ Allocated /\ MaxCalls \in Nat
  BY DEF Inv
<1>2. Len(pool) < nextHandle
  <2>1. PICK n \in Nat : nextHandle = n + 1
    <3>1. nextHandle - 1 \in Nat /\ nextHandle = (nextHandle - 1) + 1
      BY <1>1 DEF Types
    <3>. QED
      BY <3>1
  <2>2. PICK l \in Nat : Len(pool) = l
    BY <1>1 DEF Types
  <2>3. \A j \in 1 .. l : pool[j] \in 1 .. n
    <3>1. pool \in Seq(Handles) /\ \A j \in 1 .. Len(pool) : pool[j] < nextHandle
      BY <1>1 DEF Types, Allocated
    <3>2. \A j \in 1 .. l : pool[j] \in Handles
      BY <2>2, <3>1
    <3>3. \A h \in Handles : h \in Int /\ 1 <= h
      BY <1>1 DEF Types, Handles
    <3>4. ASSUME NEW j \in 1 .. l PROVE pool[j] \in 1 .. n
      <4>1. pool[j] \in Int /\ 1 <= pool[j] /\ pool[j] < n + 1
        BY <2>1, <2>2, <3>1, <3>2, <3>3
      <4>. QED
        BY <4>1
    <3>. QED
      BY <3>4
  <2> DEFINE f == [j \in 1 .. l |-> pool[j]]
  <2>4. f \in Injection(1 .. l, 1 .. n)
    <3>1. f \in [1 .. l -> 1 .. n]
      BY <2>3
    <3>2. \A j, k \in 1 .. l : f[j] = f[k] => j = k
      BY <1>1, <2>2 DEF Allocated
    <3>. QED
      BY <3>1, <3>2 DEF Injection, IsInjective
  <2>5. /\ IsFiniteSet(1 .. n) /\ Cardinality(1 .. n) = n
        /\ IsFiniteSet(1 .. l) /\ Cardinality(1 .. l) = l
    BY FS_Interval
  <2>6. Cardinality(1 .. l) <= Cardinality(1 .. n)
    BY <2>4, <2>5, FS_Injection
  <2>. QED
    BY <2>1, <2>2, <2>5, <2>6
<1>3. counters \in [Handles -> 0 .. MaxCalls]
  <2>1. ASSUME NEW h \in Handles PROVE counters[h] \in 0 .. MaxCalls
    BY <1>1 DEF Types
  <2>. QED
    BY <1>1, <2>1 DEF Types
<1>. QED
  BY <1>1, <1>2, <1>3 DEF TypeOK, Types, CardTypes

\* A function finds, under every handle it names, the object the application
\* meant, alive: COIProcess::rtDecRef returns a handle to the pool at once, and the
\* card releases the object only when the function has its turn.  A card that has
\* executed everything holds what the application holds.
THEOREM FunctionsFindTheirObjects == Spec => []HandlesMeanTheSame
<1>1. ASSUME Inv, NEW i \in Devices, pipeline[i] # <<>>, NEW arg \in Head(pipeline[i]).args
      PROVE  gHandles[i][arg[1]] = arg[2] /\ arg[2] \in live[i]
  <2>1. Expected(Head(pipeline[i]), Card(i))
    BY <1>1, RunExpected
  <2>. QED
    BY <1>1, <2>1 DEF Expected, Card
<1>2. ASSUME Inv, NEW i \in Devices, pipeline[i] = <<>>, pc = Idle
      PROVE  live[i] = {means[h] : h \in Held}
  <2>1. PICK b \in CardStates : Leads(stream[i], Card(i), <<>>, b) /\ Agrees(i, b)
    BY <1>2 DEF Inv, Behind
  <2>2. Card(i) \in CardStates
    BY <1>2 DEF Inv, CardTypes, Card, CardStates
  <2>3. Card(i) = b
    BY <2>1, <2>2, LeadsNowhere
  <2>4. ~ Created(i)
    BY <1>2 DEF Created, Transfers, Idle
  <2>5. b.live = {means[h] : h \in Held}
    BY <2>1, <2>4 DEF Agrees
  <2>. QED
    BY <2>3, <2>5 DEF Card
<1>3. Inv => HandlesMeanTheSame
  BY <1>1, <1>2, InvTypeOK DEF HandlesMeanTheSame, CardsMirrorHost
<1>. QED
  BY <1>3, Invariance, PTL

\* The buffer rtMapFrameBuffer hands to the application shows, for every card, what
\* the same buffer of a local device would show, and every frame is rendered to the
\* COI buffer the host passed along: although host and card advance the swap chain
\* at different times, and frames are not waited for.
THEOREM MappedBuffersAreComplete == Spec => []ShowsLocalImage
<1>1. ASSUME Inv, NEW i \in Devices, pipeline[i] # <<>>, Head(pipeline[i]).fn = "rtRenderFrame"
      PROVE  Head(pipeline[i]).buf = buf[i][gHandles[i][Head(pipeline[i]).id]]
  <2>1. Expected(Head(pipeline[i]), Card(i))
    BY <1>1, RunExpected
  <2>. QED
    BY <1>1, <2>1 DEF Expected, Card
<1>2. ASSUME Inv, pc.op = "mapped", NEW i \in Devices
      PROVE  shown[i] = local[pc.h].image[pc.n]
  BY <1>2 DEF Inv, Mapped
<1>3. Inv => ShowsLocalImage
  BY <1>1, <1>2 DEF ShowsLocalImage, PassedBufferIsRendered
<1>. QED
  BY <1>3, Invariance, PTL

\* A data object has all its chunks, each of them its own, although every chunk of
\* every object passes through the one stream buffer of a card.
THEOREM ChunksArrive == Spec => []DataArrives
<1>1. ASSUME Inv, NEW i \in Devices, NEW k \in live[i]
      PROVE  content[i][k] \in {None, [c \in Chunks |-> <<k, c>>]}
  <2>1. k \in Objects
    BY <1>1 DEF Inv, CardTypes
  <2>. QED
    BY <1>1, <2>1 DEF Inv, Arrived, Full
<1>2. Inv => DataArrives
  BY <1>1 DEF DataArrives
<1>. QED
  BY <1>2, Invariance, PTL
=============================================================================
