---------------------------- MODULE NetworkProofs ----------------------------
(***************************************************************************)
(* Every server of a network device executes the commands the application  *)
(* meant, on the objects it meant, and releases them all in the end; and   *)
(* the client shows what a local device would: for any number of servers,  *)
(* handles, calls and buffers.                                             *)
(***************************************************************************)
EXTENDS NetworkDevice, RowInterleave, FiniteSetTheorems, SequenceTheorems, TLAPS

-----------------------------------------------------------------------------
(* Division.                                                               *)

\* Quotient and remainder.
LEMMA DivMod ==
  ASSUME NEW x \in Int, NEW n \in Nat \ {0}
  PROVE  /\ x \div n \in Int /\ x % n \in 0 .. n-1
         /\ x = n * (x \div n) + (x % n)
  OBVIOUS

\* They are determined by that.
LEMMA DivUnique ==
  ASSUME NEW n \in Nat \ {0}, NEW q \in Int, NEW r \in 0 .. n-1,
         NEW x \in Int, x = n * q + r
  PROVE  x \div n = q /\ x % n = r
  OBVIOUS

LEMMA Quotient ==
  ASSUME NEW x \in Int, NEW n \in Nat \ {0}
  PROVE  \E q \in Int, r \in 0 .. n-1 :
           x = n * q + r /\ x \div n = q /\ x % n = r
  BY DivMod

\* The remainder of the next number.
LEMMA NextRemainder ==
  ASSUME NEW n \in Nat \ {0}, NEW x \in Int
  PROVE  ((x % n) + 1) % n = (x + 1) % n
<1>1. PICK q \in Int, r \in 0 .. n-1 : x = n * q + r /\ x % n = r
  BY Quotient
<1>2. PICK z \in Int : z = x + 1
  BY x + 1 \in Int
<1>3. CASE r + 1 < n
  <2>1. (r + 1) % n = r + 1 /\ r + 1 \in 0 .. n-1
    BY <1>3
  <2>2. z = n * q + (r + 1)
    BY <1>1, <1>2
  <2>3. z % n = r + 1
    BY <2>1, <2>2, DivUnique
  <2>. QED
    BY <1>1, <1>2, <2>1, <2>3
<1>4. CASE r + 1 = n
  <2>1. (r + 1) % n = 0 /\ 0 \in 0 .. n-1
    BY <1>4
  <2>2. PICK p \in Int : p = q + 1
    BY q + 1 \in Int
  <2>3. n * (q + 1) = n * q + n
    OBVIOUS
  <2>4. z = n * p + 0
    BY <1>1, <1>2, <1>4, <2>2, <2>3
  <2>5. z % n = 0
    BY <2>1, <2>4, DivUnique
  <2>. QED
    BY <1>1, <1>2, <2>1, <2>5
<1>. QED
  BY <1>3, <1>4

LEMMA RemainderMoves ==
  ASSUME NEW n \in Nat \ {0}, NEW x \in Int, (x + 1) % n = x % n
  PROVE  n = 1
<1>1. PICK r \in 0 .. n-1 : x % n = r
  BY DivMod
<1>2. (r + 1) % n = r
  BY <1>1, NextRemainder
<1>3. CASE r + 1 < n
  <2>1. (r + 1) % n = r + 1
    BY <1>3
  <2>. QED
    BY <1>2, <2>1
<1>4. CASE r + 1 = n
  <2>1. (r + 1) % n = 0
    BY <1>4
  <2>. QED
    BY <1>2, <1>4, <2>1
<1>. QED
  BY <1>3, <1>4

USE NetworkAssumption

-----------------------------------------------------------------------------
(* The invariant.                                                          *)

Commands ==
  [cmd : {"new"}, id : Handles, kind : Kinds \cup {"unknown"}] \cup
  [cmd : {"incref", "decref", "use", "render", "swap", "pick"}, id : Handles, obj : Objects]

Packets ==
  [cmd : {"frame"}, id : Handles, buf : Buffers, picture : Pictures] \cup
  [cmd : {"pick result"}]

ClientTypes ==
  /\ calls \in 0 .. MaxCalls
  /\ pool \in Seq(Handles) /\ nextHandle \in 1 .. MaxHandles + 1
  /\ counters \in [Handles -> Nat]
  /\ means \in [Handles -> Objects \cup {None}]
  /\ buffers \in [Handles -> ClientChains \cup {None}]
  /\ pc \in {"idle", "swap", "pick", "closed"} /\ recv \in 0 .. NumServers

ChannelTypes ==
  /\ chan \in [Servers -> Seq(Commands)] /\ back \in [Servers -> Seq(Packets)]
  /\ due \in [Servers -> Nat] /\ \A i \in Servers : due[i] <= Len(chan[i])

ServerTypes ==
  /\ executed \in [Servers -> Nat]
  /\ handles \in [Servers -> [Handles -> Objects \cup {None}]]
  /\ numRefs \in [Servers -> [Handles -> Nat]]
  /\ swapChains \in [Servers -> [Handles -> ServerChains \cup {None}]]
  /\ refs \in [Servers -> [Objects -> Nat]]
  /\ serving \in [Servers -> BOOLEAN] /\ failed \in [Servers -> BOOLEAN]

Types == ClientTypes /\ ChannelTypes /\ ServerTypes

\* A handle is in use, in the pool, or has never been used.
Allocated ==
  /\ \A j \in 1 .. Len(pool) : pool[j] < nextHandle /\ counters[pool[j]] = 0
  /\ \A j, k \in 1 .. Len(pool) : pool[j] = pool[k] => j = k
  /\ \A h \in Handles : h >= nextHandle => counters[h] = 0

\* The client keeps nothing of the handles that are not in use.
InUse == \A h \in Handles : counters[h] = 0 => buffers[h] = None

\* Every call is a command to every server, but a pick is one to the first.
Sent ==
  \A i \in Servers :
    executed[i] + Len(chan[i]) = IF pc = "pick" /\ i # 0 THEN calls - 1 ELSE calls

\* The client waits for the answer of a command that is the last one it has
\* sent, or for an answer on its way; otherwise there is none.
Asking(i) == i >= recv /\ (pc = "swap" \/ (pc = "pick" /\ i = 0))

Answers ==
  /\ pc = "swap" => fb \in Handles /\ buffers[fb] # None
  /\ pc = "pick" => recv <= 1
  /\ \A i \in Servers : \A j \in 1 .. Len(chan[i]) :
       chan[i][j].cmd \in {"swap", "pick"} =>
         /\ j = Len(chan[i]) /\ back[i] = <<>>
         /\ Asking(i) /\ chan[i][j].cmd = pc
         /\ pc = "swap" => chan[i][j].id = fb
  /\ \A i \in Servers : back[i] # <<>> =>
       /\ Len(back[i]) = 1 /\ chan[i] = <<>> /\ Asking(i)
       /\ Head(back[i]).cmd = "frame" => pc = "swap" /\ Head(back[i]).id = fb

\* The handles as the client and a server see them.
HandleStates ==
  [count : [Handles -> Nat], obj : [Handles -> Objects \cup {None}],
   chain : [Handles -> BOOLEAN]]

ClientState ==
  [count |-> counters,
   obj |-> [h \in Handles |-> IF counters[h] > 0 THEN means[h] ELSE None],
   chain |-> [h \in Handles |-> buffers[h] # None]]

ServerState(i) ==
  [count |-> numRefs[i], obj |-> handles[i],
   chain |-> [h \in Handles |-> swapChains[i][h] # None]]

\* Command m, the n-th of a server, finds what it expects in s and leads to t; the
\* server that gets one of an unknown type throws.
Executes(n, s, m, t) ==
  LET h == m.id IN
  IF m.cmd = "new"
  THEN /\ s.count[h] = 0
       /\ t = [count |-> [s.count EXCEPT ![h] = 1],
               obj |-> [s.obj EXCEPT ![h] = IF m.kind = "unknown" THEN None ELSE n],
               chain |-> [s.chain EXCEPT ![h] = (m.kind = "framebuffer")]]
  ELSE /\ s.count[h] > 0 /\ s.obj[h] = m.obj
       /\ m.cmd \in {"render", "swap"} => s.chain[h]
       /\ t = IF m.cmd = "incref"
              THEN [count |-> [s.count EXCEPT ![h] = @ + 1], obj |-> s.obj,
                    chain |-> s.chain]
              ELSE IF m.cmd # "decref" THEN s
              ELSE [count |-> [s.count EXCEPT ![h] = @ - 1],
                    obj |-> IF s.count[h] = 1 THEN [s.obj EXCEPT ![h] = None] ELSE s.obj,
                    chain |-> IF s.count[h] = 1 THEN [s.chain EXCEPT ![h] = FALSE]
                                                ELSE s.chain]

\* The commands of seq, of which the first is number n + 1, lead from a to b.
Leads(n, a, seq, b) ==
  \E s \in [0 .. Len(seq) -> HandleStates] :
    /\ s[0] = a /\ s[Len(seq)] = b
    /\ \A j \in 1 .. Len(seq) : Executes(n + j, s[j - 1], seq[j], s[j])

\* The commands on their way make the handles of a server those of the client.
Behind == \A i \in Servers : serving[i] =>
            Leads(executed[i], ServerState(i), chan[i], ClientState)

\* The references rc of the objects are those of the handles s and of the swap
\* chains, after n commands.
Exact(s, rc, n) ==
  /\ \A h \in Handles : s.obj[h] # None =>
       /\ s.count[h] > 0 /\ s.obj[h] <= n
       /\ rc[s.obj[h]] = s.count[h] + (IF s.chain[h] THEN 1 ELSE 0)
  /\ \A h \in Handles : s.obj[h] = None => s.count[h] = 0 /\ ~s.chain[h]
  /\ \A g, h \in Handles : s.obj[g] = s.obj[h] => g = h \/ s.obj[g] = None
  /\ \A k \in Objects : (\A h \in Handles : s.obj[h] # k) => rc[k] = 0

Released(i) ==
  \A k \in Objects : refs[i][k] = 0

Counted == \A i \in Servers : 
  IF serving[i] THEN Exact(ServerState(i), refs[i], executed[i]) ELSE Released(i)

Inv == Types /\ Allocated /\ InUse /\ Sent /\ Answers /\ Behind /\ Counted

-----------------------------------------------------------------------------
(* Commands on their way.                                                  *)

LEMMA LeadsNowhere ==
  ASSUME NEW n, NEW a \in HandleStates, NEW b
  PROVE  Leads(n, a, <<>>, b) <=> a = b
<1>1. ASSUME Leads(n, a, <<>>, b) PROVE a = b
  BY <1>1 DEF Leads
<1>2. ASSUME a = b PROVE Leads(n, a, <<>>, b)
  <2> DEFINE s == [j \in 0 .. 0 |-> a]
  <2>1. s \in [0 .. Len(<<>>) -> HandleStates] /\ s[0] = a /\ Len(<<>>) = 0
    OBVIOUS
  <2> HIDE DEF s
  <2>. QED
    BY <1>2, <2>1 DEF Leads
<1>. QED
  BY <1>1, <1>2

\* Another command is sent.
LEMMA LeadsFurther ==
  ASSUME NEW n \in Nat, NEW a, NEW b, NEW c \in HandleStates,
         NEW seq \in Seq(Commands), NEW m \in Commands,
         Leads(n, a, seq, b), Executes(n + Len(seq) + 1, b, m, c)
  PROVE  Leads(n, a, Append(seq, m), c)
<1>1. PICK s \in [0 .. Len(seq) -> HandleStates] :
        /\ s[0] = a /\ s[Len(seq)] = b
        /\ \A j \in 1 .. Len(seq) : Executes(n + j, s[j - 1], seq[j], s[j])
  BY DEF Leads
<1>2. /\ Len(seq) \in Nat /\ Len(Append(seq, m)) = Len(seq) + 1
      /\ \A j \in 1 .. Len(seq) : Append(seq, m)[j] = seq[j]
      /\ Append(seq, m)[Len(seq) + 1] = m
  OBVIOUS
<1> DEFINE u == [j \in 0 .. Len(seq) + 1 |-> IF j = Len(seq) + 1 THEN c ELSE s[j]]
<1>3. u \in [0 .. Len(Append(seq, m)) -> HandleStates]
  BY <1>1, <1>2
<1>4. u[0] = a /\ u[Len(Append(seq, m))] = c
  BY <1>1, <1>2
<1>5. ASSUME NEW j \in 1 .. Len(Append(seq, m))
      PROVE  Executes(n + j, u[j - 1], Append(seq, m)[j], u[j])
  <2>1. CASE j \in 1 .. Len(seq)
    BY <1>1, <1>2, <2>1
  <2>2. CASE j = Len(seq) + 1
    <3>1. u[j - 1] = b /\ u[j] = c /\ Append(seq, m)[j] = m /\ n + j = n + Len(seq) + 1
      BY <1>1, <1>2, <2>2
    <3>. QED
      BY <3>1
  <2>3. j \in 1 .. Len(seq) \/ j = Len(seq) + 1
    BY <1>2
  <2>. QED
    BY <2>1, <2>2, <2>3
<1> HIDE DEF u
<1>. QED
  BY <1>3, <1>4, <1>5 DEF Leads

\* The first command is executed.
LEMMA LeadsOn ==
  ASSUME NEW n \in Nat, NEW a, NEW b, NEW seq \in Seq(Commands), seq # <<>>,
         Leads(n, a, seq, b)
  PROVE  \E t \in HandleStates :
           Executes(n + 1, a, Head(seq), t) /\ Leads(n + 1, t, Tail(seq), b)
<1>1. PICK s \in [0 .. Len(seq) -> HandleStates] :
        /\ s[0] = a /\ s[Len(seq)] = b
        /\ \A j \in 1 .. Len(seq) : Executes(n + j, s[j - 1], seq[j], s[j])
  BY DEF Leads
<1>2. /\ Len(seq) \in Nat \ {0} /\ Len(Tail(seq)) = Len(seq) - 1 /\ seq[1] = Head(seq)
      /\ \A j \in 1 .. Len(seq) - 1 : Tail(seq)[j] = seq[j + 1]
  OBVIOUS
<1> DEFINE u == [j \in 0 .. Len(seq) - 1 |-> s[j + 1]]
<1>3. u \in [0 .. Len(Tail(seq)) -> HandleStates]
  BY <1>1, <1>2
<1>4. u[0] = s[1] /\ u[Len(Tail(seq))] = b
  BY <1>1, <1>2
<1>5. ASSUME NEW j \in 1 .. Len(Tail(seq))
      PROVE  Executes(n + 1 + j, u[j - 1], Tail(seq)[j], u[j])
  <2>1. /\ j + 1 \in 1 .. Len(seq) /\ u[j - 1] = s[j] /\ u[j] = s[j + 1]
        /\ Tail(seq)[j] = seq[j + 1] /\ (j + 1) - 1 = j /\ n + (j + 1) = n + 1 + j
    BY <1>2
  <2>2. Executes(n + (j + 1), s[(j + 1) - 1], seq[j + 1], s[j + 1])
    BY <1>1, <2>1
  <2>. QED
    BY <2>1, <2>2
<1>6. Executes(n + 1, a, Head(seq), s[1]) /\ s[1] \in HandleStates
  <2>1. 1 \in 1 .. Len(seq) /\ 1 - 1 = 0
    BY <1>2
  <2>. QED
    BY <1>1, <1>2, <2>1
<1> HIDE DEF u
<1>7. Leads(n + 1, s[1], Tail(seq), b)
  BY <1>3, <1>4, <1>5 DEF Leads
<1>. QED
  BY <1>6, <1>7

-----------------------------------------------------------------------------
(* The initial state.                                                      *)

LEMMA StateTypes ==
  ASSUME Types
  PROVE  ClientState \in HandleStates /\ \A i \in Servers : ServerState(i) \in HandleStates
  BY DEF Types, ClientTypes, ServerTypes, ClientState, ServerState, HandleStates

LEMMA InvInit == Init => Inv
<1>. SUFFICES ASSUME Init PROVE Inv
  OBVIOUS
<1>1. Types
  <2>1. ClientTypes
    BY DEF Init, ClientTypes
  <2>2. ChannelTypes
    BY DEF Init, ChannelTypes
  <2>3. ServerTypes
    BY DEF Init, ServerTypes
  <2>. QED
    BY <2>1, <2>2, <2>3 DEF Types
<1>2. Allocated /\ InUse /\ Sent
  BY DEF Init, Allocated, InUse, Sent
<1>3. Answers
  BY DEF Init, Answers
<1>4. Behind
  <2>. SUFFICES ASSUME NEW i \in Servers
                PROVE  Leads(executed[i], ServerState(i), chan[i], ClientState)
    BY DEF Behind
  <2>1. ServerState(i) = ClientState /\ chan[i] = <<>>
    BY DEF Init, ServerState, ClientState
  <2>. QED
    BY <1>1, <2>1, StateTypes, LeadsNowhere
<1>5. Counted
  BY NoneAssumption DEF Init, Counted, Exact, ServerState
<1>. QED
  BY <1>1, <1>2, <1>3, <1>4, <1>5 DEF Inv

-----------------------------------------------------------------------------
(* The calls of the application.                                           *)

LEMMA NothingAsked ==
  ASSUME Inv, pc \notin {"swap", "pick"}, NEW i \in Servers
  PROVE  back[i] = <<>> /\ \A j \in 1 .. Len(chan[i]) : chan[i][j].cmd \notin {"swap", "pick"}
  BY DEF Inv, Answers, Asking

\* A command sent to all servers, and what it makes of the handles of the client.
Sends(m) ==
  /\ pc = "idle" /\ calls' = calls + 1
  /\ m \in Commands /\ Broadcast(m) /\ (Flush \/ UNCHANGED due)
  /\ Executes(calls + 1, ClientState, m, ClientState')
  /\ IF m.cmd = "swap"
     THEN pc' = "swap" /\ recv' = 0 /\ fb' = m.id /\ fb' \in Handles /\ buffers'[fb'] # None
     ELSE m.cmd # "pick" /\ UNCHANGED callVars
  /\ UNCHANGED <<back, serverVars>>

LEMMA SendsKeepsInv ==
  ASSUME Inv, ClientTypes', Allocated', InUse', NEW m, Sends(m)
  PROVE  Inv'
<1>0. /\ Types /\ ClientTypes /\ ChannelTypes /\ ServerTypes
      /\ pc = "idle" /\ calls' = calls + 1 /\ calls \in Nat
      /\ m \in Commands /\ UNCHANGED <<back, serverVars>>
      /\ chan' = [i \in Servers |-> Append(chan[i], m)]
  BY DEF Inv, Types, ClientTypes, Sends, Broadcast
<1>1. ASSUME NEW i \in Servers
      PROVE  /\ chan'[i] = Append(chan[i], m) /\ chan[i] \in Seq(Commands)
             /\ Len(chan[i]) \in Nat /\ Len(chan'[i]) = Len(chan[i]) + 1
             /\ \A j \in 1 .. Len(chan[i]) : chan'[i][j] = chan[i][j]
             /\ chan'[i][Len(chan[i]) + 1] = m
             /\ chan'[i] \in Seq(Commands)
  <2>1. chan'[i] = Append(chan[i], m) /\ chan[i] \in Seq(Commands)
    BY <1>0 DEF ChannelTypes
  <2>. QED
    BY <1>0, <2>1
<1>2. ChannelTypes'
  <2>1. chan' \in [Servers -> Seq(Commands)] /\ back' \in [Servers -> Seq(Packets)]
    BY <1>0, <1>1 DEF ChannelTypes
  <2>2. CASE Flush
    BY <1>0, <1>1, <2>1, <2>2 DEF ChannelTypes, Flush, Flushed
  <2>3. CASE UNCHANGED due
    BY <1>0, <1>1, <2>1, <2>3 DEF ChannelTypes
  <2>. QED
    BY <2>2, <2>3 DEF Sends
<1>3. Types'
  BY <1>0, <1>2 DEF Types, ServerTypes, serverVars
<1>4. pc' # "pick"
  BY <1>0 DEF Sends, callVars
<1>5. Sent'
  BY <1>0, <1>1, <1>4 DEF Inv, Sent, serverVars, ServerTypes
<1>6. Answers'
  <2>1. ASSUME NEW i \in Servers
        PROVE  back'[i] = <<>> /\ \A j \in 1 .. Len(chan[i]) : chan[i][j].cmd \notin {"swap", "pick"}
    BY <1>0, NothingAsked
  <2>2. CASE m.cmd = "swap"
    <3>1. pc' = "swap" /\ recv' = 0 /\ fb' = m.id /\ fb' \in Handles /\ buffers'[fb'] # None
      BY <2>2 DEF Sends
    <3>2. \A i \in Servers : Asking(i)'
      BY <3>1 DEF Asking, Servers
    <3>3. ASSUME NEW i \in Servers, NEW j \in 1 .. Len(chan'[i]), chan'[i][j].cmd \in {"swap", "pick"}
          PROVE  j = Len(chan'[i]) /\ chan'[i][j].cmd = pc' /\ chan'[i][j].id = fb'
      BY <1>1, <2>1, <2>2, <3>1, <3>3
    <3>. QED
      BY <2>1, <3>1, <3>2, <3>3 DEF Answers
  <2>3. CASE m.cmd # "swap"
    <3>1. m.cmd # "pick" /\ pc' = "idle"
      BY <1>0, <2>3 DEF Sends, callVars
    <3>2. \A i \in Servers : \A j \in 1 .. Len(chan'[i]) : chan'[i][j].cmd \notin {"swap", "pick"}
      BY <1>1, <2>1, <2>3, <3>1
    <3>. QED
      BY <2>1, <3>1, <3>2 DEF Answers
  <2>. QED
    BY <2>2, <2>3
<1>7. Behind'
  <2>. SUFFICES ASSUME NEW i \in Servers, serving[i]
                PROVE  Leads(executed[i], ServerState(i), Append(chan[i], m), ClientState')
    BY <1>0, <1>1 DEF Behind, serverVars, ServerState
  <2>1. executed[i] \in Nat /\ executed[i] + Len(chan[i]) + 1 = calls + 1
    BY <1>0, <1>1 DEF Inv, Sent, ServerTypes
  <2>2. ClientState' \in HandleStates
    BY <1>3, StateTypes DEF ClientState, HandleStates, Types, ClientTypes
  <2>3. Executes(executed[i] + Len(chan[i]) + 1, ClientState, m, ClientState')
    BY <2>1 DEF Sends
  <2>4. Leads(executed[i], ServerState(i), chan[i], ClientState)
    BY DEF Inv, Behind
  <2>. QED
    BY <1>0, <1>1, <2>1, <2>2, <2>3, <2>4, LeadsFurther
<1>8. Counted'
  BY <1>0 DEF Inv, Counted, ServerState, Released, serverVars
<1>. QED
  BY <1>3, <1>5, <1>6, <1>7, <1>8 DEF Inv

LEMMA OneElement ==
  ASSUME NEW T, NEW s \in Seq(T), Len(s) = 1
  PROVE  Head(s) \in T /\ Tail(s) = <<>>
<1>1. s # <<>>
  OBVIOUS
<1>2. Head(s) \in T /\ Tail(s) \in Seq(T) /\ Len(Tail(s)) = 0
  BY <1>1, HeadTailProperties
<1>3. Tail(s) # <<>> => Len(Tail(s)) \in Nat \ {0}
  BY <1>2, EmptySeq, Zenon
<1>. QED
  BY <1>2, <1>3

LEMMA WithoutLast ==
  ASSUME NEW T, NEW s \in Seq(T), s # <<>>
  PROVE  /\ Len(s) \in Nat \ {0}
         /\ SubSeq(s, 1, Len(s) - 1) \in Seq(T)
         /\ Len(SubSeq(s, 1, Len(s) - 1)) = Len(s) - 1
         /\ \A j \in 1 .. Len(s) - 1 : SubSeq(s, 1, Len(s) - 1)[j] = s[j]
<1>1. PICK n \in Nat : Len(s) = n + 1 /\ \A j \in 1 .. n + 1 : s[j] \in T
  <2>1. Len(s) \in Nat /\ Len(s) # 0 /\ \A j \in 1 .. Len(s) : s[j] \in T
    OBVIOUS
  <2>2. Len(s) - 1 \in Nat /\ Len(s) = (Len(s) - 1) + 1
    BY <2>1
  <2>. QED
    BY <2>1, <2>2
<1>2. /\ SubSeq(s, 1, n) \in Seq(T)
      /\ Len(SubSeq(s, 1, n)) = IF 1 <= n THEN n - 1 + 1 ELSE 0
      /\ \A j \in 1 .. n - 1 + 1 : SubSeq(s, 1, n)[j] = s[1 + j - 1]
  BY <1>1, SubSeqProperties
<1>3. \A j \in 1 .. n : SubSeq(s, 1, n)[j] = s[j]
  BY <1>2
<1>. QED
  BY <1>1, <1>2, <1>3

\* The handle allocated is not in use, and not left in the pool.
LEMMA AllocatesFresh ==
  ASSUME Inv, NEW a, a = AllocHandle, a.id \in Handles
  PROVE  /\ counters[a.id] = 0
         /\ a.pool \in Seq(Handles) /\ a.next \in 1 .. MaxHandles + 1
         /\ a.id < a.next /\ nextHandle <= a.next
         /\ \A j \in 1 .. Len(a.pool) :
              a.pool[j] < a.next /\ counters[a.pool[j]] = 0 /\ a.pool[j] # a.id
         /\ \A j, k \in 1 .. Len(a.pool) : a.pool[j] = a.pool[k] => j = k
<1>0. ClientTypes /\ Allocated /\ MaxHandles \in Nat
  BY DEF Inv, Types
<1>1. CASE pool = <<>>
  <2>1. a.id = nextHandle /\ a.pool = <<>> /\ a.next = nextHandle + 1
    BY <1>1 DEF AllocHandle
  <2>. QED
    BY <1>0, <2>1 DEF ClientTypes, Allocated, Handles
<1>2. CASE pool # <<>>
  <2>1. /\ a.id = pool[Len(pool)] /\ a.pool = SubSeq(pool, 1, Len(pool) - 1)
        /\ a.next = nextHandle
    BY <1>2 DEF AllocHandle
  <2>2. /\ Len(pool) \in 1 .. Len(pool) /\ Len(a.pool) = Len(pool) - 1
        /\ a.pool \in Seq(Handles)
        /\ \A j \in 1 .. Len(pool) - 1 : a.pool[j] = pool[j] /\ j \in 1 .. Len(pool)
    BY <1>0, <1>2, <2>1, WithoutLast DEF ClientTypes
  <2>3. counters[a.id] = 0 /\ a.id < a.next
    BY <1>0, <2>1, <2>2 DEF Allocated
  <2>4. ASSUME NEW j \in 1 .. Len(a.pool)
        PROVE  a.pool[j] < a.next /\ counters[a.pool[j]] = 0 /\ a.pool[j] # a.id
    BY <1>0, <2>1, <2>2 DEF Allocated
  <2>5. ASSUME NEW j \in 1 .. Len(a.pool), NEW k \in 1 .. Len(a.pool), a.pool[j] = a.pool[k]
        PROVE  j = k
    BY <1>0, <2>1, <2>2, <2>5 DEF Allocated
  <2>. QED
    BY <1>0, <2>1, <2>2, <2>3, <2>4, <2>5 DEF ClientTypes
<1>. QED
  BY <1>1, <1>2

LEMMA NewKeepsInv ==
  ASSUME Inv, NEW kind \in Kinds, New(kind)
  PROVE  Inv'
<1> DEFINE h == AllocHandle.id
           m == [cmd |-> "new", id |-> h, kind |-> kind]
           chain == [buf |-> 0, image |-> [i \in Servers |-> Blank]]
<1>0. /\ ClientTypes /\ Allocated /\ InUse /\ h \in Handles /\ MaxCalls \in Nat
      /\ pc = "idle" /\ calls < MaxCalls /\ calls' = calls + 1
      /\ pool' = AllocHandle.pool /\ nextHandle' = AllocHandle.next
      /\ counters' = [counters EXCEPT ![h] = 1] /\ means' = [means EXCEPT ![h] = calls + 1]
      /\ buffers' = IF kind = "framebuffer" THEN [buffers EXCEPT ![h] = chain] ELSE buffers
      /\ UNCHANGED <<callVars, back, serverVars>>
  BY DEF New, Inv, Types, Call
<1>1. /\ counters[h] = 0
      /\ pool' \in Seq(Handles) /\ nextHandle' \in 1 .. MaxHandles + 1
      /\ h < nextHandle' /\ nextHandle <= nextHandle'
      /\ \A j \in 1 .. Len(pool') :
           pool'[j] < nextHandle' /\ counters[pool'[j]] = 0 /\ pool'[j] # h
      /\ \A j, k \in 1 .. Len(pool') : pool'[j] = pool'[k] => j = k
  BY <1>0, AllocatesFresh
<1>2. chain \in ClientChains /\ chain # None /\ buffers[h] = None
  <2>1. chain \in ClientChains
    BY DEF ClientChains, Blank, Buffers, Pictures
  <2>. QED
    BY <1>0, <1>1, <2>1, NoneAssumption DEF InUse
<1>3. calls + 1 \in Objects /\ calls + 1 # 0 /\ calls' \in 0 .. MaxCalls
  BY <1>0 DEF ClientTypes, Objects
<1> HIDE DEF h, chain
<1>4. ClientTypes'
  BY <1>0, <1>1, <1>2, <1>3 DEF ClientTypes, callVars
<1>5. Allocated'
  <2>1. \A j \in 1 .. Len(pool') : pool'[j] \in Handles
    BY <1>1
  <2>2. \A g \in Handles : g # h => counters'[g] = counters[g]
    BY <1>0 DEF ClientTypes
  <2>3. \A g \in Handles : g >= nextHandle' => g >= nextHandle /\ g # h
    BY <1>0, <1>1 DEF ClientTypes, Handles
  <2>. QED
    BY <1>0, <1>1, <2>1, <2>2, <2>3 DEF Allocated
<1>6. InUse'
  BY <1>0, <1>3 DEF InUse, ClientTypes
<1>7. Executes(calls + 1, ClientState, m, ClientState')
  <2>1. ClientState.count[h] = 0
    BY <1>1 DEF ClientState
  <2>2. ClientState'.count = [ClientState.count EXCEPT ![h] = 1]
    BY <1>0 DEF ClientState
  <2>3. ClientState'.obj = [ClientState.obj EXCEPT ![h] = calls + 1]
    <3>1. \A g \in Handles : ClientState'.obj[g] = [ClientState.obj EXCEPT ![h] = calls + 1][g]
      BY <1>0 DEF ClientState, ClientTypes
    <3>. QED
      BY <3>1 DEF ClientState
  <2>4. ClientState'.chain = [ClientState.chain EXCEPT ![h] = (kind = "framebuffer")]
    BY <1>0, <1>2 DEF ClientState, ClientTypes
  <2>5. ClientState' = [count |-> ClientState'.count, obj |-> ClientState'.obj,
                        chain |-> ClientState'.chain]
    BY DEF ClientState
  <2>6. kind # "unknown"
    OBVIOUS
  <2>. QED
    BY <2>1, <2>2, <2>3, <2>4, <2>5, <2>6 DEF Executes
<1>8. Sends(m)
  <2>1. m \in Commands
    BY <1>0 DEF Commands
  <2>2. Broadcast(m) /\ (Flush \/ UNCHANGED due)
    BY DEF New, h
  <2>. QED
    BY <1>0, <1>7, <2>1, <2>2 DEF Sends
<1>. QED
  BY <1>4, <1>5, <1>6, <1>8, SendsKeepsInv

\* The handle of a call that throws is counted, and stands for nothing.
LEMMA NewThrowsKeepsInv ==
  ASSUME Inv, NewThrows
  PROVE  Inv'
<1> DEFINE h == AllocHandle.id
           m == [cmd |-> "new", id |-> h, kind |-> "unknown"]
<1>0. /\ ClientTypes /\ Allocated /\ InUse /\ h \in Handles /\ MaxCalls \in Nat
      /\ pc = "idle" /\ calls < MaxCalls /\ calls' = calls + 1
      /\ pool' = AllocHandle.pool /\ nextHandle' = AllocHandle.next
      /\ counters' = [counters EXCEPT ![h] = 1] /\ means' = [means EXCEPT ![h] = None]
      /\ UNCHANGED <<buffers, callVars, back, serverVars>>
  BY DEF NewThrows, Inv, Types, Call
<1>1. /\ counters[h] = 0
      /\ pool' \in Seq(Handles) /\ nextHandle' \in 1 .. MaxHandles + 1
      /\ h < nextHandle' /\ nextHandle <= nextHandle'
      /\ \A j \in 1 .. Len(pool') :
           pool'[j] < nextHandle' /\ counters[pool'[j]] = 0 /\ pool'[j] # h
      /\ \A j, k \in 1 .. Len(pool') : pool'[j] = pool'[k] => j = k
  BY <1>0, AllocatesFresh
<1>2. buffers[h] = None
  BY <1>0, <1>1 DEF InUse
<1>3. calls' \in 0 .. MaxCalls
  BY <1>0 DEF ClientTypes
<1> HIDE DEF h
<1>4. ClientTypes'
  BY <1>0, <1>1, <1>3 DEF ClientTypes, callVars
<1>5. Allocated'
  <2>1. \A j \in 1 .. Len(pool') : pool'[j] \in Handles
    BY <1>1
  <2>2. \A g \in Handles : g # h => counters'[g] = counters[g]
    BY <1>0 DEF ClientTypes
  <2>3. \A g \in Handles : g >= nextHandle' => g >= nextHandle /\ g # h
    BY <1>0, <1>1 DEF ClientTypes, Handles
  <2>. QED
    BY <1>0, <1>1, <2>1, <2>2, <2>3 DEF Allocated
<1>6. InUse'
  BY <1>0 DEF InUse, ClientTypes
<1>7. Executes(calls + 1, ClientState, m, ClientState')
  <2>1. ClientState.count[h] = 0
    BY <1>1 DEF ClientState
  <2>2. ClientState'.count = [ClientState.count EXCEPT ![h] = 1]
    BY <1>0 DEF ClientState
  <2>3. ClientState'.obj = [ClientState.obj EXCEPT ![h] = None]
    <3>1. \A g \in Handles : ClientState'.obj[g] = [ClientState.obj EXCEPT ![h] = None][g]
      BY <1>0 DEF ClientState, ClientTypes
    <3>. QED
      BY <3>1 DEF ClientState
  <2>4. ClientState'.chain = [ClientState.chain EXCEPT ![h] = FALSE]
    BY <1>0, <1>2 DEF ClientState, ClientTypes
  <2>5. ClientState' = [count |-> ClientState'.count, obj |-> ClientState'.obj,
                        chain |-> ClientState'.chain]
    BY DEF ClientState
  <2>6. /\ m.cmd = "new" /\ m.id = h /\ m.kind = "unknown"
        /\ (m.kind = "framebuffer") = FALSE
    OBVIOUS
  <2>. QED
    BY <2>1, <2>2, <2>3, <2>4, <2>5, <2>6 DEF Executes
<1>8. Sends(m)
  <2>1. m \in Commands
    BY <1>0 DEF Commands
  <2>2. Broadcast(m) /\ (Flush \/ UNCHANGED due)
    BY DEF NewThrows, h
  <2>. QED
    BY <1>0, <1>7, <2>1, <2>2 DEF Sends
<1>. QED
  BY <1>4, <1>5, <1>6, <1>8, SendsKeepsInv

LEMMA CommandOfHeld ==
  ASSUME Inv, NEW h \in Held,
         NEW c \in {"incref", "decref", "use", "render", "swap", "pick"}
  PROVE  /\ Command(c, h) \in Commands /\ Command(c, h).cmd = c /\ Command(c, h).id = h
         /\ ClientState.count[h] > 0 /\ ClientState.obj[h] = Command(c, h).obj
         /\ h \in Chains => ClientState.chain[h]
  BY DEF Inv, Types, ClientTypes, Held, Chains, Command, Commands, ClientState

LEMMA IncRefKeepsInv ==
  ASSUME Inv, NEW h \in Handles, IncRef(h)
  PROVE  Inv'
<1> DEFINE m == Command("incref", h)
<1>0. /\ ClientTypes /\ Allocated /\ InUse /\ h \in Held /\ MaxCalls \in Nat
      /\ pc = "idle" /\ calls < MaxCalls /\ calls' = calls + 1
      /\ counters' = [counters EXCEPT ![h] = @ + 1]
      /\ UNCHANGED <<pool, nextHandle, means, buffers, callVars, local, due, back, serverVars>>
  BY DEF IncRef, Inv, Types, Call
<1>1. /\ m \in Commands /\ m.cmd = "incref" /\ m.id = h
      /\ ClientState.count[h] > 0 /\ ClientState.obj[h] = m.obj
  BY <1>0, CommandOfHeld
<1>2. ClientTypes' /\ InUse'
  BY <1>0 DEF ClientTypes, InUse, callVars, Held
<1>3. Allocated'
  BY <1>0 DEF Allocated, ClientTypes, Held
<1> HIDE DEF m
<1>4. Executes(calls + 1, ClientState, m, ClientState')
  <2>1. ClientState' = [count |-> [ClientState.count EXCEPT ![h] = @ + 1],
                        obj |-> ClientState.obj, chain |-> ClientState.chain]
    <3>1. \A g \in Handles : counters'[g] > 0 <=> counters[g] > 0
      BY <1>0 DEF ClientTypes, Held
    <3>2. /\ ClientState'.count = [ClientState.count EXCEPT ![h] = @ + 1]
          /\ ClientState'.obj = ClientState.obj /\ ClientState'.chain = ClientState.chain
      BY <1>0, <3>1 DEF ClientState
    <3>. QED
      BY <3>2 DEF ClientState
  <2>. QED
    BY <1>1, <2>1 DEF Executes
<1>5. Sends(m)
  BY <1>0, <1>1, <1>4 DEF Sends, IncRef, m
<1>. QED
  BY <1>2, <1>3, <1>5, SendsKeepsInv

LEMMA DecRefKeepsInv ==
  ASSUME Inv, NEW h \in Handles, DecRef(h)
  PROVE  Inv'
<1> DEFINE m == Command("decref", h)
<1>0. /\ ClientTypes /\ Allocated /\ InUse /\ h \in Held /\ MaxCalls \in Nat
      /\ pc = "idle" /\ calls < MaxCalls /\ calls' = calls + 1
      /\ counters' = [counters EXCEPT ![h] = @ - 1]
      /\ pool' = (IF Freed(h) THEN Append(pool, h) ELSE pool)
      /\ buffers' = (IF Freed(h) THEN [buffers EXCEPT ![h] = None] ELSE buffers)
      /\ UNCHANGED <<nextHandle, means, callVars, back, serverVars>>
  BY DEF DecRef, Inv, Types, Call
<1>1. /\ m \in Commands /\ m.cmd = "decref" /\ m.id = h
      /\ ClientState.count[h] > 0 /\ ClientState.obj[h] = m.obj
  BY <1>0, CommandOfHeld
<1>2. counters[h] \in Nat \ {0} /\ counters[h] - 1 \in Nat
  BY <1>0 DEF ClientTypes, Held
<1>3. ClientTypes' /\ InUse'
  BY <1>0, <1>2 DEF ClientTypes, InUse, callVars, Freed
<1>4. Allocated'
  <2>1. h < nextHandle
    BY <1>0, <1>2 DEF Allocated, ClientTypes, Handles
  <2>2. \A j \in 1 .. Len(pool) : pool[j] # h
    BY <1>0, <1>2 DEF Allocated
  <2>3. CASE Freed(h)
    <3>1. /\ Len(pool') = Len(pool) + 1 /\ pool'[Len(pool) + 1] = h
          /\ Len(pool) \in Nat
          /\ \A j \in 1 .. Len(pool) : pool'[j] = pool[j] /\ pool[j] \in Handles
      BY <1>0, <2>3 DEF ClientTypes
    <3>2. \A g \in Handles : counters'[g] = IF g = h THEN 0 ELSE counters[g]
      BY <1>0, <2>3 DEF ClientTypes, Freed
    <3>3. \A j \in 1 .. Len(pool') : j \in 1 .. Len(pool) \/ j = Len(pool) + 1
      BY <3>1
    <3>4. \A j \in 1 .. Len(pool') : pool'[j] < nextHandle /\ counters'[pool'[j]] = 0
      <4>1. ASSUME NEW j \in 1 .. Len(pool) PROVE pool[j] < nextHandle /\ counters'[pool[j]] = 0
        BY <1>0, <3>1, <3>2 DEF Allocated
      <4>2. counters'[h] = 0
        BY <3>2
      <4>. QED
        BY <2>1, <3>1, <3>3, <4>1, <4>2
    <3>5. \A j, k \in 1 .. Len(pool') : pool'[j] = pool'[k] => j = k
      BY <1>0, <2>2, <3>1, <3>3 DEF Allocated
    <3>6. \A g \in Handles : g >= nextHandle => counters'[g] = 0
      BY <1>0, <3>2 DEF Allocated
    <3>. QED
      BY <1>0, <3>4, <3>5, <3>6 DEF Allocated
  <2>4. CASE ~Freed(h)
    <3>1. \A g \in Handles : g # h => counters'[g] = counters[g]
      BY <1>0 DEF ClientTypes
    <3>2. \A g \in Handles : g >= nextHandle => g # h
      BY <1>0, <2>1 DEF Handles, ClientTypes
    <3>. QED
      BY <1>0, <2>2, <2>4, <3>1, <3>2 DEF Allocated, ClientTypes
  <2>. QED
    BY <2>3, <2>4
<1> HIDE DEF m
<1>5. Executes(calls + 1, ClientState, m, ClientState')
  <2>1. ClientState'.count = [ClientState.count EXCEPT ![h] = @ - 1]
    BY <1>0 DEF ClientState
  <2>2. ClientState'.obj = IF ClientState.count[h] = 1 THEN [ClientState.obj EXCEPT ![h] = None]
                                                      ELSE ClientState.obj
    <3>1. ASSUME NEW g \in Handles
          PROVE  ClientState'.obj[g] = IF g = h /\ counters[h] = 1 THEN None
                                                                   ELSE ClientState.obj[g]
      BY <1>0, <1>2 DEF ClientState, ClientTypes
    <3>. QED
      BY <3>1 DEF ClientState
  <2>3. ClientState'.chain = IF ClientState.count[h] = 1
                             THEN [ClientState.chain EXCEPT ![h] = FALSE]
                             ELSE ClientState.chain
    <3>1. ASSUME NEW g \in Handles
          PROVE  ClientState'.chain[g] = IF g = h /\ counters[h] = 1 THEN FALSE
                                                                     ELSE ClientState.chain[g]
      BY <1>0, <1>2 DEF ClientState, ClientTypes, Freed
    <3>. QED
      BY <3>1 DEF ClientState
  <2>4. ClientState' = [count |-> ClientState'.count, obj |-> ClientState'.obj,
                        chain |-> ClientState'.chain]
    BY DEF ClientState
  <2>. QED
    BY <1>1, <2>1, <2>2, <2>3, <2>4 DEF Executes
<1>6. Sends(m)
  BY <1>0, <1>1, <1>5 DEF Sends, DecRef, m
<1>. QED
  BY <1>3, <1>4, <1>6, SendsKeepsInv

\* The commands that leave the handles as they are.
LEMMA MentionKeepsInv ==
  ASSUME Inv, NEW h \in Held, NEW c \in {"use", "render", "swap"},
         Call, Broadcast(Command(c, h)), Flush \/ UNCHANGED due,
         UNCHANGED <<handleVars, buffers, back, serverVars>>,
         c # "use" => h \in Chains,
         IF c = "swap" THEN pc' = "swap" /\ recv' = 0 /\ fb' = h ELSE UNCHANGED callVars
  PROVE  Inv'
<1> DEFINE m == Command(c, h)
<1>0. /\ ClientTypes /\ Allocated /\ InUse /\ MaxCalls \in Nat /\ h \in Handles
      /\ pc = "idle" /\ calls < MaxCalls /\ calls' = calls + 1
      /\ UNCHANGED <<pool, nextHandle, counters, means>>
  BY DEF Inv, Types, Call, handleVars, Held
<1>1. /\ m \in Commands /\ m.cmd = c /\ m.id = h
      /\ ClientState.count[h] > 0 /\ ClientState.obj[h] = m.obj
      /\ h \in Chains => ClientState.chain[h]
  BY CommandOfHeld
<1>2. ClientTypes'
  BY <1>0 DEF ClientTypes, callVars
<1>3. Allocated' /\ InUse'
  BY <1>0 DEF Allocated, InUse
<1> HIDE DEF m
<1>4. ClientState' = ClientState
  BY <1>0 DEF ClientState
<1>5. Executes(calls + 1, ClientState, m, ClientState')
  BY <1>1, <1>4 DEF Executes
<1>6. Broadcast(m)
  BY DEF m
<1>7. c = "swap" => buffers'[fb'] # None
  BY DEF Chains
<1>8. Sends(m)
  BY <1>0, <1>1, <1>5, <1>6, <1>7 DEF Sends
<1>. QED
  BY <1>2, <1>3, <1>8, SendsKeepsInv

\* With several servers a pick is never answered by all.
LEMMA PickKeepsInv ==
  ASSUME Inv, NEW h \in Handles, Pick(h)
  PROVE  Inv'
<1> DEFINE m == Command("pick", h)
<1>0. /\ ClientTypes /\ ChannelTypes /\ ServerTypes /\ MaxCalls \in Nat /\ 0 \in Servers
      /\ h \in Held /\ pc = "idle" /\ calls < MaxCalls /\ calls' = calls + 1 /\ calls \in Nat
      /\ chan' = [chan EXCEPT ![0] = Append(@, m)] /\ due' = [due EXCEPT ![0] = Flushed(0)]
      /\ pc' = "pick" /\ recv' = 0
      /\ UNCHANGED <<fb, handleVars, buffers, back, serverVars>>
  BY DEF Pick, Inv, Types, Call, ClientTypes, Servers
<1>1. /\ m \in Commands /\ m.cmd = "pick" /\ m.id = h
      /\ ClientState.count[h] > 0 /\ ClientState.obj[h] = m.obj
  BY <1>0, CommandOfHeld
<1> HIDE DEF m
<1>2. /\ chan[0] \in Seq(Commands) /\ Len(chan[0]) \in Nat
      /\ chan'[0] = Append(chan[0], m) /\ Len(chan'[0]) = Len(chan[0]) + 1
      /\ \A j \in 1 .. Len(chan[0]) : chan'[0][j] = chan[0][j]
      /\ chan'[0][Len(chan[0]) + 1] = m
      /\ chan'[0] \in Seq(Commands)
      /\ \A i \in Servers : i # 0 => chan'[i] = chan[i]
  <2>1. /\ chan[0] \in Seq(Commands) /\ chan'[0] = Append(chan[0], m)
        /\ \A i \in Servers : i # 0 => chan'[i] = chan[i]
    BY <1>0 DEF ChannelTypes
  <2>. QED
    BY <1>1, <2>1
<1>3. Types'
  <2>1. ClientTypes'
    BY <1>0 DEF ClientTypes, handleVars
  <2>2. ChannelTypes'
    BY <1>0, <1>2 DEF ChannelTypes, Flushed
  <2>3. ServerTypes'
    BY <1>0 DEF ServerTypes, serverVars
  <2>. QED
    BY <2>1, <2>2, <2>3 DEF Types
<1>4. Allocated' /\ InUse'
  BY <1>0 DEF Inv, Allocated, InUse, handleVars
<1>5. Sent'
  <2>1. \A i \in Servers : Len(chan[i]) \in Nat /\ executed[i] \in Nat
    BY <1>0 DEF ChannelTypes, ServerTypes
  <2>2. \A i \in Servers : executed[i] + Len(chan[i]) = calls /\ executed'[i] = executed[i]
    BY <1>0 DEF Inv, Sent, serverVars
  <2>3. \A i \in Servers : Len(chan'[i]) = IF i = 0 THEN Len(chan[i]) + 1 ELSE Len(chan[i])
    BY <1>2
  <2>4. \A i \in Servers : executed'[i] + Len(chan'[i]) = IF i = 0 THEN calls + 1 ELSE calls
    BY <2>1, <2>2, <2>3
  <2>. QED
    BY <1>0, <2>4 DEF Sent
<1>6. Answers'
  <2>1. ASSUME NEW i \in Servers
        PROVE  back'[i] = <<>> /\ \A j \in 1 .. Len(chan[i]) : chan[i][j].cmd \notin {"swap", "pick"}
    BY <1>0, NothingAsked
  <2>2. Asking(0)'
    BY <1>0 DEF Asking
  <2>3. ASSUME NEW i \in Servers, NEW j \in 1 .. Len(chan'[i]), chan'[i][j].cmd \in {"swap", "pick"}
        PROVE  i = 0 /\ j = Len(chan'[i]) /\ chan'[i][j].cmd = "pick"
    <3>1. i = 0
      BY <1>2, <2>1, <2>3
    <3>2. j \notin 1 .. Len(chan[0])
      BY <1>2, <2>1, <2>3, <3>1
    <3>3. j = Len(chan[0]) + 1
      BY <1>2, <3>1, <3>2
    <3>. QED
      BY <1>1, <1>2, <3>1, <3>3
  <2>. QED
    BY <1>0, <2>1, <2>2, <2>3 DEF Answers
<1>7. Behind'
  <2>1. ClientState' = ClientState /\ \A i \in Servers : ServerState(i)' = ServerState(i)
    BY <1>0 DEF ClientState, ServerState, handleVars, serverVars
  <2>. SUFFICES ASSUME NEW i \in Servers, serving[i]
                PROVE  Leads(executed[i], ServerState(i), chan'[i], ClientState)
    BY <1>0, <2>1 DEF Behind, serverVars
  <2>2. Leads(executed[i], ServerState(i), chan[i], ClientState)
    BY DEF Inv, Behind
  <2>3. CASE i = 0
    <3>1. Executes(executed[0] + Len(chan[0]) + 1, ClientState, m, ClientState)
      BY <1>1 DEF Executes
    <3>2. executed[0] \in Nat /\ ClientState \in HandleStates
      BY <1>0, StateTypes DEF ServerTypes, Inv
    <3>3. Leads(executed[0], ServerState(0), chan[0], ClientState)
      BY <2>2, <2>3
    <3>4. Leads(executed[0], ServerState(0), Append(chan[0], m), ClientState)
      BY <1>1, <1>2, <3>1, <3>2, <3>3, LeadsFurther
    <3>. QED
      BY <1>2, <2>3, <3>4
  <2>4. CASE i # 0
    BY <1>2, <2>2, <2>4
  <2>. QED
    BY <2>3, <2>4
<1>8. Counted'
  BY <1>0 DEF Inv, Counted, ServerState, Released, serverVars
<1>. QED
  BY <1>3, <1>4, <1>5, <1>6, <1>7, <1>8 DEF Inv

-----------------------------------------------------------------------------
(* Answers.                                                                *)

\* What the client does to its swap chains changes no handle.
LEMMA ChainsKeepState ==
  ASSUME Inv, buffers' \in [Handles -> ClientChains \cup {None}],
         \A h \in Handles : buffers'[h] = None <=> buffers[h] = None,
         ChannelTypes', UNCHANGED <<calls, handleVars, chan, due, serverVars>>,
         pc' \in {"idle", "swap", "pick", "closed"}, recv' \in 0 .. NumServers
  PROVE  Types' /\ Allocated' /\ InUse' /\ Behind' /\ Counted'
<1>1. Types'
  BY DEF Inv, Types, ClientTypes, ServerTypes, handleVars, serverVars
<1>2. Allocated' /\ InUse'
  BY DEF Inv, Allocated, InUse, handleVars
<1>3. ClientState' = ClientState /\ \A i \in Servers : ServerState(i)' = ServerState(i)
  BY DEF ClientState, ServerState, handleVars, serverVars
<1>4. Behind'
  BY <1>3 DEF Inv, Behind, serverVars
<1>5. Counted'
  BY DEF Inv, Counted, ServerState, Released, serverVars
<1>. QED
  BY <1>1, <1>2, <1>4, <1>5

LEMMA ReceiveKeepsInv ==
  ASSUME Inv, ReceiveCommand
  PROVE  Inv'
<1> DEFINE i == recv
           p == Head(back[i])
<1>0. /\ ClientTypes /\ ChannelTypes /\ Answers
      /\ pc \in {"swap", "pick"} /\ i \in Servers /\ back[i] # <<>>
      /\ back' = [back EXCEPT ![i] = Tail(@)]
      /\ buffers' = IF p.cmd = "frame"
                    THEN [buffers EXCEPT ![p.id].image[i][p.buf] = p.picture]
                    ELSE buffers
      /\ recv' = recv + 1 /\ recv' \in 0 .. NumServers
      /\ UNCHANGED <<calls, handleVars, pc, fb, chan, due, serverVars>>
  BY DEF ReceiveCommand, Inv, Types, ClientTypes, Servers
<1>1. /\ back[i] \in Seq(Packets) /\ Len(back[i]) = 1 /\ chan[i] = <<>>
      /\ pc = "pick" => i = 0
      /\ p.cmd = "frame" => pc = "swap" /\ p.id = fb
  BY <1>0 DEF Answers, ChannelTypes, Asking
<1>2. /\ p \in Packets /\ Tail(back[i]) = <<>>
      /\ back'[i] = <<>> /\ \A k \in Servers : k # i => back'[k] = back[k]
  <2>1. p \in Packets /\ Tail(back[i]) = <<>>
    BY <1>1, OneElement
  <2>. QED
    BY <1>0, <2>1 DEF ChannelTypes
<1> HIDE DEF p
<1>3. /\ buffers' \in [Handles -> ClientChains \cup {None}]
      /\ \A h \in Handles : buffers'[h] = None <=> buffers[h] = None
  <2>1. CASE p.cmd = "frame"
    <3>1. /\ fb \in Handles /\ buffers[fb] \in ClientChains /\ p.id = fb
          /\ p.buf \in Buffers /\ p.picture \in Pictures
      BY <1>0, <1>1, <1>2, <2>1 DEF Answers, ClientTypes, Packets
    <3> DEFINE chain == [buffers[fb] EXCEPT !.image[i][p.buf] = p.picture]
    <3>2. chain \in ClientChains
      BY <1>0, <3>1 DEF ClientChains
    <3>3. buffers' = [buffers EXCEPT ![fb] = chain]
      BY <1>0, <2>1, <3>1
    <3> HIDE DEF chain
    <3>4. chain # None /\ buffers[fb] # None
      BY <3>1, <3>2, NoneAssumption
    <3>. QED
      BY <1>0, <3>1, <3>2, <3>3, <3>4 DEF ClientTypes
  <2>2. CASE p.cmd # "frame"
    BY <1>0, <2>2 DEF ClientTypes
  <2>. QED
    BY <2>1, <2>2
<1>4. ChannelTypes'
  BY <1>0, <1>2 DEF ChannelTypes
<1>5. Types' /\ Allocated' /\ InUse' /\ Behind' /\ Counted'
  BY <1>0, <1>3, <1>4, ChainsKeepState
<1>6. Sent'
  BY <1>0 DEF Inv, Sent, serverVars
<1>7. Answers'
  <2>1. \A k \in Servers : k # i => (Asking(k)' <=> Asking(k))
    BY <1>0 DEF Asking, Servers
  <2>2. pc' = "swap" => fb' \in Handles /\ buffers'[fb'] # None
    BY <1>0, <1>3 DEF Answers
  <2>3. pc' = "pick" => recv' <= 1
    BY <1>0, <1>1
  <2>4. ASSUME NEW k \in Servers, NEW j \in 1 .. Len(chan'[k]), chan'[k][j].cmd \in {"swap", "pick"}
        PROVE  /\ k # i /\ j = Len(chan'[k]) /\ back'[k] = <<>>
               /\ Asking(k)' /\ chan'[k][j].cmd = pc'
               /\ pc' = "swap" => chan'[k][j].id = fb'
    <3>1. k # i
      BY <1>0, <1>1, <2>4
    <3>. QED
      BY <1>0, <1>2, <2>1, <2>4, <3>1 DEF Answers
  <2>5. ASSUME NEW k \in Servers, back'[k] # <<>>
        PROVE  /\ Len(back'[k]) = 1 /\ chan'[k] = <<>> /\ Asking(k)'
               /\ Head(back'[k]).cmd = "frame" => pc' = "swap" /\ Head(back'[k]).id = fb'
    <3>1. k # i /\ back'[k] = back[k]
      BY <1>2, <2>5
    <3>. QED
      BY <1>0, <2>1, <2>5, <3>1 DEF Answers
  <2>. QED
    BY <2>2, <2>3, <2>4, <2>5 DEF Answers
<1>. QED
  BY <1>5, <1>6, <1>7 DEF Inv

LEMMA ReturnKeepsInv ==
  ASSUME Inv, Return
  PROVE  Inv'
<1>0. /\ ClientTypes /\ ChannelTypes /\ Answers
      /\ pc \in {"swap", "pick"} /\ recv = NumServers
      /\ buffers' = IF pc = "swap" THEN [buffers EXCEPT ![fb].buf = (@ + 1) % Depth]
                                   ELSE buffers
      /\ pc' = "idle" /\ recv' = 0
      /\ UNCHANGED <<calls, handleVars, chan, due, back, serverVars>>
  BY DEF Return, Inv, Types
<1>1. \A i \in Servers : ~Asking(i)
  BY <1>0 DEF Asking, Servers
<1>2. /\ buffers' \in [Handles -> ClientChains \cup {None}]
      /\ \A h \in Handles : buffers'[h] = None <=> buffers[h] = None
  <2>1. CASE pc = "swap"
    <3>1. fb \in Handles /\ buffers[fb] \in ClientChains
      BY <1>0, <2>1 DEF Answers, ClientTypes
    <3> DEFINE chain == [buffers[fb] EXCEPT !.buf = (@ + 1) % Depth]
    <3>2. PICK b \in Buffers : b = buffers[fb].buf
      BY <3>1 DEF ClientChains
    <3>3. (b + 1) % Depth \in Buffers
      BY <3>2 DEF Buffers
    <3>4. chain \in ClientChains
      BY <3>1, <3>2, <3>3 DEF ClientChains
    <3>5. buffers' = [buffers EXCEPT ![fb] = chain]
      BY <1>0, <2>1, <3>1
    <3> HIDE DEF chain
    <3>. QED
      BY <1>0, <3>1, <3>4, <3>5, NoneAssumption DEF ClientTypes
  <2>2. CASE pc # "swap"
    BY <1>0, <2>2 DEF ClientTypes
  <2>. QED
    BY <2>1, <2>2
<1>3. ChannelTypes' /\ recv' \in 0 .. NumServers
  BY <1>0 DEF ChannelTypes
<1>4. Types' /\ Allocated' /\ InUse' /\ Behind' /\ Counted'
  BY <1>0, <1>2, <1>3, ChainsKeepState
<1>5. Sent'
  <2>1. pc = "pick" => \A i \in Servers : i = 0
    BY <1>0 DEF Answers, Servers
  <2>. QED
    BY <1>0, <2>1 DEF Inv, Sent, serverVars
<1>6. Answers'
  BY <1>0, <1>1 DEF Answers
<1>. QED
  BY <1>4, <1>5, <1>6 DEF Inv

LEMMA CloseKeepsInv ==
  ASSUME Inv, Close
  PROVE  Inv'
<1>0. /\ ClientTypes /\ ChannelTypes /\ Answers /\ pc = "idle" /\ pc' = "closed"
      /\ UNCHANGED <<calls, handleVars, buffers, recv, fb, chan, due, back, serverVars>>
  BY DEF Close, Inv, Types
<1>1. Types' /\ Allocated' /\ InUse' /\ Behind' /\ Counted'
  BY <1>0, ChainsKeepState DEF ChannelTypes, ClientTypes
<1>2. Sent'
  BY <1>0 DEF Inv, Sent, serverVars
<1>3. Answers'
  BY <1>0 DEF Answers, Asking
<1>. QED
  BY <1>1, <1>2, <1>3 DEF Inv

-----------------------------------------------------------------------------
(* Commands are executed.                                                  *)

With(rc, k, d) == [o \in Objects |-> rc[o] + IF o = k THEN d ELSE 0]

\* The objects that gain or lose references with a command are those of its handle.
LEMMA NewIsExact ==
  ASSUME NEW s \in HandleStates, NEW t \in HandleStates, NEW n \in Nat, n + 1 \in Objects,
         NEW rc \in [Objects -> Nat], Exact(s, rc, n),
         NEW m \in Commands, m.cmd = "new", m.kind # "unknown", Executes(n + 1, s, m, t),
         NEW d, d = IF m.kind = "framebuffer" THEN 2 ELSE 1
  PROVE  Exact(t, With(rc, n + 1, d), n + 1) /\ With(rc, n + 1, d) \in [Objects -> Nat]
<1>0. PICK h \in Handles : h = m.id
  BY DEF Commands
<1>1. /\ s.count[h] = 0 /\ s.obj[h] = None
      /\ \A g \in Handles : g # h => /\ t.count[g] = s.count[g] /\ t.obj[g] = s.obj[g]
                                     /\ t.chain[g] = s.chain[g]
      /\ t.count[h] = 1 /\ t.obj[h] = n + 1 /\ t.chain[h] = (m.kind = "framebuffer")
  BY <1>0 DEF Executes, Exact, HandleStates
<1>2. ASSUME NEW g \in Handles, s.obj[g] # None
      PROVE  s.obj[g] \in Objects /\ s.obj[g] # n + 1 /\ s.obj[g] <= n + 1
  <2>1. s.obj[g] \in Objects
    BY <1>2 DEF HandleStates
  <2>2. s.obj[g] <= n
    BY <1>2 DEF Exact
  <2>. QED
    BY <2>1, <2>2 DEF Objects
<1>8. None \notin Objects
  BY NoneAssumption
<1>9. rc[n + 1] = 0
  <2>1. \A g \in Handles : s.obj[g] # n + 1
    BY <1>2, <1>8
  <2>. QED
    BY <2>1 DEF Exact
<1>3. /\ \A o \in Objects : o # n + 1 => With(rc, n + 1, d)[o] = rc[o]
      /\ With(rc, n + 1, d)[n + 1] = d
      /\ With(rc, n + 1, d) \in [Objects -> Nat]
  BY <1>9 DEF With
<1>4. ASSUME NEW g \in Handles, t.obj[g] # None
      PROVE  /\ t.count[g] > 0 /\ t.obj[g] <= n + 1
             /\ With(rc, n + 1, d)[t.obj[g]] = t.count[g] + (IF t.chain[g] THEN 1 ELSE 0)
  <2>1. CASE g = h
    <3>1. t.count[g] = 1 /\ t.obj[g] = n + 1
      BY <1>1, <2>1
    <3>2. d = 1 + (IF t.chain[g] THEN 1 ELSE 0)
      <4>1. t.chain[g] = (m.kind = "framebuffer")
        BY <1>1, <2>1
      <4>2. CASE m.kind = "framebuffer"
        <5>. t.chain[g] /\ d = 2
          BY <4>1, <4>2
        <5>. QED
          OBVIOUS
      <4>3. CASE m.kind # "framebuffer"
        <5>. ~t.chain[g] /\ d = 1
          BY <4>1, <4>3
        <5>. QED
          OBVIOUS
      <4>. QED
        BY <4>2, <4>3
    <3>. QED
      BY <1>3, <3>1, <3>2
  <2>2. CASE g # h
    BY <1>1, <1>2, <1>3, <1>4, <2>2 DEF Exact
  <2>. QED
    BY <2>1, <2>2
<1>5. \A g \in Handles : t.obj[g] = None => t.count[g] = 0 /\ ~t.chain[g]
  BY <1>1, <1>2, <1>8 DEF Exact
<1>6. \A f, g \in Handles : t.obj[f] = t.obj[g] => f = g \/ t.obj[f] = None
  BY <1>1, <1>2, <1>8 DEF Exact
<1>7. ASSUME NEW k \in Objects, \A g \in Handles : t.obj[g] # k
      PROVE  With(rc, n + 1, d)[k] = 0
  BY <1>1, <1>2, <1>8, <1>3, <1>7 DEF Exact
<1>. QED
  BY <1>3, <1>4, <1>5, <1>6, <1>7 DEF Exact

LEMMA IncRefIsExact ==
  ASSUME NEW s \in HandleStates, NEW t \in HandleStates, NEW n \in Nat, n + 1 \in Objects,
         NEW rc \in [Objects -> Nat], Exact(s, rc, n),
         NEW m \in Commands, m.cmd = "incref", Executes(n + 1, s, m, t)
  PROVE  /\ Exact(t, With(rc, s.obj[m.id], 1), n + 1)
         /\ With(rc, s.obj[m.id], 1) \in [Objects -> Nat]
<1> DEFINE h == m.id
           k == s.obj[h]
<1>0. h \in Handles
  BY DEF Commands
<1>1. /\ s.count[h] > 0 /\ k # None /\ k \in Objects /\ t.obj = s.obj /\ t.chain = s.chain
      /\ \A g \in Handles : g # h => t.count[g] = s.count[g] /\ (s.obj[g] # k \/ s.obj[g] = None)
      /\ t.count[h] = s.count[h] + 1
  BY <1>0 DEF Executes, Exact, HandleStates
<1>2. \A g \in Handles : s.obj[g] # None => s.obj[g] \in Objects /\ s.obj[g] <= n + 1
  BY DEF Exact, HandleStates, Objects
<1>3. /\ \A o \in Objects : o # k => With(rc, k, 1)[o] = rc[o]
      /\ With(rc, k, 1)[k] = rc[k] + 1
      /\ With(rc, k, 1) \in [Objects -> Nat]
  BY <1>1 DEF With
<1> HIDE DEF h, k
<1>4. \A g \in Handles : t.obj[g] # None =>
        /\ t.count[g] > 0 /\ t.obj[g] <= n + 1
        /\ With(rc, k, 1)[t.obj[g]] = t.count[g] + (IF t.chain[g] THEN 1 ELSE 0)
  <2>1. k = s.obj[h]
    BY DEF h, k
  <2>. QED
    BY <1>0, <1>1, <1>2, <1>3, <2>1 DEF Exact, HandleStates
<1>5. \A g \in Handles : t.obj[g] = None => t.count[g] = 0 /\ ~t.chain[g]
  <2>1. k = s.obj[h]
    BY DEF h, k
  <2>. QED
    BY <1>0, <1>1, <2>1 DEF Exact
<1>6. \A f, g \in Handles : t.obj[f] = t.obj[g] => f = g \/ t.obj[f] = None
  BY <1>1 DEF Exact
<1>7. ASSUME NEW o \in Objects, \A g \in Handles : t.obj[g] # o
      PROVE  With(rc, k, 1)[o] = 0
  <2>1. o # k
    BY <1>0, <1>1, <1>7 DEF h, k
  <2>. QED
    BY <1>1, <1>3, <1>7, <2>1 DEF Exact
<1>8. Exact(t, With(rc, k, 1), n + 1)
  BY <1>4, <1>5, <1>6, <1>7 DEF Exact
<1>. QED
  BY <1>3, <1>8 DEF h, k

LEMMA DecRefIsExact ==
  ASSUME NEW s \in HandleStates, NEW t \in HandleStates, NEW n \in Nat, n + 1 \in Objects,
         NEW rc \in [Objects -> Nat], Exact(s, rc, n),
         NEW m \in Commands, m.cmd = "decref", Executes(n + 1, s, m, t),
         NEW d, d = IF s.count[m.id] = 1 /\ s.chain[m.id] THEN -2 ELSE -1
  PROVE  /\ Exact(t, With(rc, s.obj[m.id], d), n + 1)
         /\ With(rc, s.obj[m.id], d) \in [Objects -> Nat]
<1>0. PICK h \in Handles : h = m.id
  BY DEF Commands
<1>1. /\ s.count[h] \in Nat /\ s.count[h] > 0 /\ s.chain[h] \in BOOLEAN
      /\ t = [count |-> [s.count EXCEPT ![h] = @ - 1],
              obj |-> IF s.count[h] = 1 THEN [s.obj EXCEPT ![h] = None] ELSE s.obj,
              chain |-> IF s.count[h] = 1 THEN [s.chain EXCEPT ![h] = FALSE] ELSE s.chain]
  BY <1>0 DEF Executes, HandleStates
<1>2. PICK k \in Objects : k = s.obj[h] /\ k # None
  <2>1. s.obj[h] # None
    BY <1>1 DEF Exact
  <2>. QED
    BY <2>1 DEF HandleStates
<1>3. /\ \A g \in Handles : g # h => /\ t.count[g] = s.count[g] /\ t.obj[g] = s.obj[g]
                                     /\ t.chain[g] = s.chain[g] /\ s.obj[g] # k
      /\ t.count[h] = s.count[h] - 1
      /\ t.obj[h] = IF s.count[h] = 1 THEN None ELSE k
      /\ t.chain[h] = IF s.count[h] = 1 THEN FALSE ELSE s.chain[h]
  <2>1. ASSUME NEW g \in Handles, g # h PROVE s.obj[g] # k
    BY <1>2, <2>1 DEF Exact
  <2>. QED
    BY <1>1, <1>2, <2>1 DEF HandleStates
<1>4. rc[k] = s.count[h] + (IF s.chain[h] THEN 1 ELSE 0)
  BY <1>2 DEF Exact
<1>5. \A g \in Handles : s.obj[g] # None => s.obj[g] \in Objects /\ s.obj[g] <= n + 1
  BY DEF Exact, HandleStates, Objects
<1>6. /\ \A o \in Objects : o # k => With(rc, k, d)[o] = rc[o]
      /\ With(rc, k, d)[k] = t.count[h] + (IF t.chain[h] THEN 1 ELSE 0)
      /\ With(rc, k, d) \in [Objects -> Nat]
  <2>1. rc[k] + d = t.count[h] + (IF t.chain[h] THEN 1 ELSE 0) /\ rc[k] + d \in Nat /\ d \in Int
    <3>1. d = IF s.count[h] = 1 /\ s.chain[h] THEN -2 ELSE -1
      BY <1>0
    <3>2. CASE s.count[h] = 1
      <4>1. t.count[h] = 0 /\ ~t.chain[h]
        BY <1>3, <3>2
      <4>2. rc[k] = IF s.chain[h] THEN 2 ELSE 1
        BY <1>4, <3>2
      <4>3. d = IF s.chain[h] THEN -2 ELSE -1
        BY <3>1, <3>2
      <4>. QED
        BY <4>1, <4>2, <4>3
    <3>3. CASE s.count[h] # 1
      <4>1. t.count[h] = s.count[h] - 1 /\ t.chain[h] = s.chain[h] /\ d = -1
        BY <1>3, <3>1, <3>3
      <4>2. CASE s.chain[h]
        BY <1>1, <1>4, <3>3, <4>1, <4>2
      <4>3. CASE ~s.chain[h]
        BY <1>1, <1>4, <3>3, <4>1, <4>3
      <4>. QED
        BY <4>2, <4>3
    <3>. QED
      BY <3>2, <3>3
  <2>. QED
    BY <2>1 DEF With
<1>7. ASSUME NEW g \in Handles, t.obj[g] # None
      PROVE  /\ t.count[g] > 0 /\ t.obj[g] <= n + 1
             /\ With(rc, k, d)[t.obj[g]] = t.count[g] + (IF t.chain[g] THEN 1 ELSE 0)
  <2>1. CASE g = h
    <3>1. s.count[h] # 1 /\ t.obj[h] = k
      BY <1>3, <1>7, <2>1
    <3>2. t.count[h] > 0 /\ k <= n + 1
      BY <1>1, <1>2, <1>3, <1>5, <3>1
    <3>. QED
      BY <1>6, <2>1, <3>1, <3>2
  <2>2. CASE g # h
    <3>1. t.obj[g] = s.obj[g] /\ s.obj[g] # k /\ s.obj[g] # None /\ s.obj[g] \in Objects
      BY <1>3, <1>5, <1>7, <2>2
    <3>2. /\ s.count[g] > 0 /\ s.obj[g] <= n + 1
          /\ rc[s.obj[g]] = s.count[g] + (IF s.chain[g] THEN 1 ELSE 0)
      BY <1>5, <3>1 DEF Exact
    <3>. QED
      BY <1>3, <1>6, <2>2, <3>1, <3>2
  <2>. QED
    BY <2>1, <2>2
<1>8. ASSUME NEW g \in Handles, t.obj[g] = None
      PROVE  t.count[g] = 0 /\ ~t.chain[g]
  <2>1. CASE g = h
    <3>1. s.count[h] = 1
      BY <1>2, <1>3, <1>8, <2>1
    <3>2. t.count[h] = 1 - 1 /\ t.chain[h] = FALSE
      BY <1>3, <3>1
    <3>. QED
      BY <2>1, <3>2
  <2>2. CASE g # h
    BY <1>3, <1>8, <2>2 DEF Exact
  <2>. QED
    BY <2>1, <2>2
<1>9. \A f, g \in Handles : t.obj[f] = t.obj[g] => f = g \/ t.obj[f] = None
  BY <1>2, <1>3 DEF Exact
<1>10. ASSUME NEW o \in Objects, \A g \in Handles : t.obj[g] # o
       PROVE  With(rc, k, d)[o] = 0
  <2>1. CASE o = k
    <3>1. s.count[h] = 1
      BY <1>3, <1>10, <2>1
    <3>2. t.count[h] = 0 /\ ~t.chain[h]
      BY <1>3, <3>1
    <3>. QED
      BY <1>6, <2>1, <3>2
  <2>2. CASE o # k
    <3>1. \A g \in Handles : s.obj[g] # o
      BY <1>2, <1>3, <1>10, <2>2
    <3>. QED
      BY <1>6, <2>2, <3>1 DEF Exact
  <2>. QED
    BY <2>1, <2>2
<1>11. Exact(t, With(rc, k, d), n + 1)
  BY <1>7, <1>8, <1>9, <1>10 DEF Exact
<1>. QED
  BY <1>0, <1>2, <1>6, <1>11

\* A command that changes no handle.
LEMMA OtherIsExact ==
  ASSUME NEW s \in HandleStates, NEW t \in HandleStates, NEW n \in Nat,
         NEW rc \in [Objects -> Nat], Exact(s, rc, n), NEW m \in Commands,
         m.cmd \notin {"new", "incref", "decref"}, Executes(n + 1, s, m, t)
  PROVE  Exact(t, rc, n + 1)
<1>1. t = s
  BY DEF Executes
<1>2. \A h \in Handles : s.obj[h] # None => s.obj[h] <= n + 1
  BY DEF Exact, HandleStates, Objects
<1>. QED
  BY <1>1, <1>2 DEF Exact

LEMMA SameOutcome ==
  ASSUME NEW n, NEW s, NEW m, NEW t, NEW u, Executes(n, s, m, t), Executes(n, s, m, u)
  PROVE  t = u
<1>1. CASE m.cmd = "new"
  <2> DEFINE k == IF m.kind = "unknown" THEN None ELSE n
  <2>1. /\ t = [count |-> [s.count EXCEPT ![m.id] = 1], obj |-> [s.obj EXCEPT ![m.id] = k],
                chain |-> [s.chain EXCEPT ![m.id] = (m.kind = "framebuffer")]]
        /\ u = [count |-> [s.count EXCEPT ![m.id] = 1], obj |-> [s.obj EXCEPT ![m.id] = k],
                chain |-> [s.chain EXCEPT ![m.id] = (m.kind = "framebuffer")]]
    BY <1>1, Zenon DEF Executes
  <2>. HIDE DEF k
  <2>. QED
    BY <2>1, Zenon
<1>2. CASE m.cmd # "new"
  <2>1. CASE m.cmd = "incref"
    BY <1>2, <2>1, Zenon DEF Executes
  <2>2. CASE m.cmd = "decref"
    <3>1. m.cmd # "incref" /\ ~(m.cmd # "decref")
      BY <2>2
    <3>2. CASE s.count[m.id] = 1
      BY <1>2, <3>1, <3>2, Zenon DEF Executes
    <3>3. CASE s.count[m.id] # 1
      BY <1>2, <3>1, <3>3, Zenon DEF Executes
    <3>. QED
      BY <3>2, <3>3
  <2>3. CASE m.cmd \notin {"incref", "decref"}
    BY <1>2, <2>3 DEF Executes
  <2>. QED
    BY <2>1, <2>2, <2>3
<1>. QED
  BY <1>1, <1>2

\* What a server knows of the next command.
LEMMA NextCommand ==
  ASSUME Inv, NEW i \in Servers, serving[i], chan[i] # <<>>, NEW m, m = Head(chan[i])
  PROVE  /\ m \in Commands /\ executed[i] \in Nat /\ executed[i] + 1 \in Objects
         /\ ServerState(i) \in HandleStates /\ refs[i] \in [Objects -> Nat]
         /\ Exact(ServerState(i), refs[i], executed[i])
         /\ \E t \in HandleStates :
              /\ Executes(executed[i] + 1, ServerState(i), m, t)
              /\ Leads(executed[i] + 1, t, Tail(chan[i]), ClientState)
         /\ back[i] = <<>>
         /\ m.cmd \in {"swap", "pick"} =>
              /\ Tail(chan[i]) = <<>> /\ Asking(i) /\ m.cmd = pc
              /\ pc = "swap" => m.id = fb
<1>1. /\ Types /\ ClientTypes /\ ChannelTypes /\ ServerTypes /\ MaxCalls \in Nat
      /\ Sent /\ Answers /\ Behind /\ Counted
  BY DEF Inv, Types
<1>2. /\ chan[i] \in Seq(Commands) /\ Len(chan[i]) \in Nat \ {0}
      /\ m \in Commands /\ chan[i][1] = m /\ Len(Tail(chan[i])) = Len(chan[i]) - 1
      /\ Tail(chan[i]) \in Seq(Commands)
  <2>1. chan[i] \in Seq(Commands)
    BY <1>1 DEF ChannelTypes
  <2>. QED
    BY <2>1
<1>3. executed[i] \in Nat /\ executed[i] + 1 \in Objects
  <2>1. executed[i] \in Nat /\ calls \in 0 .. MaxCalls
    BY <1>1 DEF ServerTypes, ClientTypes
  <2>2. executed[i] + Len(chan[i]) = calls \/ executed[i] + Len(chan[i]) = calls - 1
    BY <1>1 DEF Sent
  <2>. QED
    BY <1>1, <1>2, <2>1, <2>2 DEF Objects
<1>4. ServerState(i) \in HandleStates /\ refs[i] \in [Objects -> Nat]
  BY <1>1, StateTypes DEF ServerTypes
<1>5. Exact(ServerState(i), refs[i], executed[i])
  BY <1>1 DEF Counted
<1>6. \E t \in HandleStates :
        /\ Executes(executed[i] + 1, ServerState(i), m, t)
        /\ Leads(executed[i] + 1, t, Tail(chan[i]), ClientState)
  <2>1. Leads(executed[i], ServerState(i), chan[i], ClientState)
    BY <1>1 DEF Behind
  <2>. QED
    BY <1>2, <1>3, <2>1, LeadsOn
<1>7. back[i] = <<>>
  BY <1>1 DEF Answers
<1>8. ASSUME m.cmd \in {"swap", "pick"}
      PROVE  /\ Tail(chan[i]) = <<>> /\ Asking(i) /\ m.cmd = pc
             /\ pc = "swap" => m.id = fb
  <2>1. 1 \in 1 .. Len(chan[i])
    BY <1>2
  <2>2. Len(chan[i]) = 1 /\ Asking(i) /\ m.cmd = pc /\ (pc = "swap" => m.id = fb)
    <3>1. chan[i][1].cmd \in {"swap", "pick"} /\ chan[i][1] = m
      BY <1>2, <1>8
    <3>2. /\ 1 = Len(chan[i]) /\ Asking(i) /\ chan[i][1].cmd = pc
          /\ pc = "swap" => chan[i][1].id = fb
      BY <1>1, <2>1, <3>1 DEF Answers
    <3>. QED
      BY <3>1, <3>2
  <2>3. Tail(chan[i]) = <<>>
    BY <1>2, <2>2, OneElement
  <2>. QED
    BY <2>2, <2>3
<1>. QED
  BY <1>2, <1>3, <1>4, <1>5, <1>6, <1>7, <1>8

\* The part all commands have in common.
Served(i) ==
  /\ serving[i] /\ chan[i] # <<>>
  /\ chan' = [chan EXCEPT ![i] = Tail(@)]
  /\ due' = [due EXCEPT ![i] = IF @ = 0 THEN 0 ELSE @ - 1]
  /\ executed' = [executed EXCEPT ![i] = @ + 1]
  /\ UNCHANGED <<clientVars, serving, failed>>

\* The packets server i sends, if any, answer command m.
Replies(i, m) ==
  /\ back' \in [Servers -> Seq(Packets)]
  /\ \A k \in Servers : k # i => back'[k] = back[k]
  /\ IF m.cmd \in {"swap", "pick"}
     THEN /\ Len(back'[i]) = 1
          /\ Head(back'[i]).cmd = "frame" => m.cmd = "swap" /\ Head(back'[i]).id = m.id
     ELSE back'[i] = back[i]

\* Only server i changes its handles.
Alone(i) ==
  \A k \in Servers : k # i =>
    /\ handles'[k] = handles[k] /\ numRefs'[k] = numRefs[k]
    /\ swapChains'[k] = swapChains[k] /\ refs'[k] = refs[k]

LEMMA ServedKeepsInv ==
  ASSUME Inv, NEW i \in Servers, NEW m, m = Head(chan[i]), Served(i), Replies(i, m), Alone(i),
         ServerTypes',
         Executes(executed[i] + 1, ServerState(i), m, ServerState(i)'),
         Exact(ServerState(i)', refs'[i], executed[i] + 1)
  PROVE  Inv'
<1>0. /\ Types /\ ClientTypes /\ ChannelTypes /\ ServerTypes
      /\ serving[i] /\ chan[i] # <<>> /\ UNCHANGED <<clientVars, serving, failed>>
      /\ chan' = [chan EXCEPT ![i] = Tail(@)]
      /\ executed' = [executed EXCEPT ![i] = @ + 1]
      /\ due' = [due EXCEPT ![i] = IF @ = 0 THEN 0 ELSE @ - 1]
  BY DEF Inv, Types, Served
<1>1. /\ m \in Commands /\ executed[i] \in Nat
      /\ \E t \in HandleStates :
           /\ Executes(executed[i] + 1, ServerState(i), m, t)
           /\ Leads(executed[i] + 1, t, Tail(chan[i]), ClientState)
      /\ back[i] = <<>>
      /\ m.cmd \in {"swap", "pick"} =>
           /\ Tail(chan[i]) = <<>> /\ Asking(i) /\ m.cmd = pc
           /\ pc = "swap" => m.id = fb
  BY <1>0, NextCommand
<1>2. /\ chan[i] \in Seq(Commands) /\ Len(chan[i]) \in Nat \ {0}
      /\ chan'[i] = Tail(chan[i]) /\ Tail(chan[i]) \in Seq(Commands)
      /\ Len(chan'[i]) = Len(chan[i]) - 1
      /\ \A j \in 1 .. Len(chan'[i]) : chan'[i][j] = chan[i][j + 1]
      /\ executed'[i] = executed[i] + 1
      /\ \A k \in Servers : k # i => chan'[k] = chan[k] /\ executed'[k] = executed[k]
  <2>1. /\ chan[i] \in Seq(Commands) /\ chan'[i] = Tail(chan[i])
        /\ executed'[i] = executed[i] + 1
        /\ \A k \in Servers : k # i => chan'[k] = chan[k] /\ executed'[k] = executed[k]
    BY <1>0 DEF ChannelTypes, ServerTypes
  <2>2. /\ Len(chan[i]) \in Nat \ {0} /\ Tail(chan[i]) \in Seq(Commands)
        /\ Len(Tail(chan[i])) = Len(chan[i]) - 1
        /\ \A j \in 1 .. Len(Tail(chan[i])) : Tail(chan[i])[j] = chan[i][j + 1]
    BY <1>0, <2>1
  <2>. QED
    BY <2>1, <2>2
<1>3. Types'
  <2>1. ClientTypes'
    BY <1>0 DEF ClientTypes, clientVars, handleVars, callVars
  <2>2. chan' \in [Servers -> Seq(Commands)] /\ back' \in [Servers -> Seq(Packets)]
    BY <1>0, <1>2 DEF ChannelTypes, Replies
  <2>3. due' \in [Servers -> Nat] /\ \A k \in Servers : due'[k] <= Len(chan'[k])
    BY <1>0, <1>2 DEF ChannelTypes
  <2>. QED
    BY <2>1, <2>2, <2>3 DEF Types, ChannelTypes
<1>4. Allocated' /\ InUse'
  BY <1>0 DEF Inv, Allocated, InUse, clientVars, handleVars
<1>5. Sent'
  <2>1. ASSUME NEW k \in Servers
        PROVE  executed'[k] + Len(chan'[k]) = executed[k] + Len(chan[k])
    <3>1. CASE k = i
      <4>1. PICK l \in Nat : Len(chan[i]) = l + 1 /\ Len(chan'[i]) = l
        <5>1. Len(chan[i]) - 1 \in Nat /\ Len(chan[i]) = (Len(chan[i]) - 1) + 1
          BY <1>2
        <5>. QED
          BY <1>2, <5>1
      <4>2. PICK e \in Nat : executed[i] = e /\ executed'[i] = e + 1
        BY <1>1, <1>2
      <4>3. executed'[i] + Len(chan'[i]) = executed[i] + Len(chan[i])
        BY <4>1, <4>2
      <4>. QED
        BY <3>1, <4>3
    <3>2. CASE k # i
      BY <1>2, <3>2
    <3>. QED
      BY <3>1, <3>2
  <2>. QED
    BY <1>0, <2>1 DEF Inv, Sent, clientVars, callVars
<1>6. Answers'
  <2>1. Answers /\ UNCHANGED <<pc, recv, fb, buffers>> /\ \A k \in Servers : Asking(k)' <=> Asking(k)
    BY <1>0 DEF Inv, clientVars, callVars, Asking
  <2>2. ASSUME NEW j \in 1 .. Len(chan'[i]), chan'[i][j].cmd \in {"swap", "pick"}
        PROVE  /\ j = Len(chan'[i]) /\ back'[i] = <<>>
               /\ Asking(i) /\ chan'[i][j].cmd = pc
               /\ pc = "swap" => chan'[i][j].id = fb
    <3>1. j + 1 \in 1 .. Len(chan[i]) /\ chan'[i][j] = chan[i][j + 1]
      BY <1>2
    <3>2. /\ j + 1 = Len(chan[i]) /\ Asking(i) /\ chan'[i][j].cmd = pc
          /\ pc = "swap" => chan'[i][j].id = fb
      BY <2>1, <2>2, <3>1 DEF Answers
    <3>3. m.cmd \notin {"swap", "pick"}
      BY <1>1, <1>2
    <3>4. back'[i] = <<>>
      BY <1>1, <3>3 DEF Replies
    <3>. QED
      BY <1>2, <3>2, <3>4
  <2>3. ASSUME back'[i] # <<>>
        PROVE  /\ Len(back'[i]) = 1 /\ chan'[i] = <<>> /\ Asking(i)
               /\ Head(back'[i]).cmd = "frame" => pc = "swap" /\ Head(back'[i]).id = fb
    <3>1. m.cmd \in {"swap", "pick"}
      BY <1>1, <2>3 DEF Replies
    <3>. QED
      BY <1>1, <1>2, <3>1 DEF Replies
  <2>4. \A k \in Servers : k # i => chan'[k] = chan[k] /\ back'[k] = back[k]
    BY <1>2 DEF Replies
  <2>. QED
    BY <2>1, <2>2, <2>3, <2>4 DEF Answers
<1>7. Behind'
  <2>1. ClientState' = ClientState /\ UNCHANGED serving
    BY <1>0 DEF ClientState, clientVars, handleVars
  <2>2. \A k \in Servers : k # i => ServerState(k)' = ServerState(k)
    BY DEF Alone, ServerState
  <2>3. Leads(executed[i] + 1, ServerState(i)', Tail(chan[i]), ClientState)
    <3>1. PICK t \in HandleStates :
            /\ Executes(executed[i] + 1, ServerState(i), m, t)
            /\ Leads(executed[i] + 1, t, Tail(chan[i]), ClientState)
      BY <1>1
    <3>2. t = ServerState(i)'
      BY <3>1, SameOutcome
    <3>. QED
      BY <3>1, <3>2
  <2>4. Behind
    BY DEF Inv
  <2>. QED
    BY <1>2, <2>1, <2>2, <2>3, <2>4 DEF Behind
<1>8. Counted'
  <2>1. Counted /\ UNCHANGED serving
    BY <1>0 DEF Inv
  <2>2. \A k \in Servers : k # i => /\ ServerState(k)' = ServerState(k) /\ refs'[k] = refs[k]
                                    /\ executed'[k] = executed[k]
    BY <1>2 DEF Alone, ServerState
  <2>3. Exact(ServerState(i)', refs'[i], executed'[i])
    BY <1>2
  <2>. QED
    BY <1>0, <2>1, <2>2, <2>3 DEF Counted, Released
<1>. QED
  BY <1>3, <1>4, <1>5, <1>6, <1>7, <1>8 DEF Inv

\* The commands that create and release nothing.
LEMMA OtherKeepsInv ==
  ASSUME Inv, NEW i \in Servers, NEW m, m = Head(chan[i]), Served(i), Replies(i, m),
         m.cmd \in {"use", "render", "swap", "pick"}, UNCHANGED <<handles, numRefs, refs>>,
         swapChains' \in [Servers -> [Handles -> ServerChains \cup {None}]],
         \A k \in Servers : k # i => swapChains'[k] = swapChains[k],
         \A h \in Handles : swapChains'[i][h] = None <=> swapChains[i][h] = None
  PROVE  Inv'
<1>1. /\ serving[i] /\ chan[i] # <<>> /\ ServerTypes
      /\ executed' = [executed EXCEPT ![i] = @ + 1] /\ UNCHANGED <<serving, failed>>
  BY DEF Inv, Types, Served
<1>2. Alone(i)
  BY DEF Alone
<1>3. ServerTypes'
  BY <1>1 DEF ServerTypes
<1>4. ServerState(i)' = ServerState(i)
  BY DEF ServerState
<1>5. /\ m \in Commands /\ executed[i] \in Nat
      /\ ServerState(i) \in HandleStates /\ refs[i] \in [Objects -> Nat]
      /\ Exact(ServerState(i), refs[i], executed[i])
      /\ \E t \in HandleStates : Executes(executed[i] + 1, ServerState(i), m, t)
  BY <1>1, NextCommand
<1>6. Executes(executed[i] + 1, ServerState(i), m, ServerState(i))
  <2>1. PICK t \in HandleStates : Executes(executed[i] + 1, ServerState(i), m, t)
    BY <1>5
  <2>2. t = ServerState(i)
    BY <2>1 DEF Executes
  <2>. QED
    BY <2>1, <2>2
<1>7. Exact(ServerState(i), refs[i], executed[i] + 1)
  BY <1>5, <1>6, OtherIsExact
<1>. QED
  BY <1>2, <1>3, <1>4, <1>6, <1>7, ServedKeepsInv

LEMMA ServeUseKeepsInv ==
  ASSUME Inv, NEW i \in Servers, NEW m, m = Head(chan[i]), Served(i), ServeUse(i, m)
  PROVE  Inv'
<1>1. ServerTypes /\ ChannelTypes /\ UNCHANGED <<handles, numRefs, swapChains, refs, back>>
  BY DEF Inv, Types, ServeUse
<1>2. m.cmd \in {"use", "render", "swap", "pick"} /\ Replies(i, m)
  BY <1>1 DEF ServeUse, Replies, ChannelTypes
<1>. QED
  BY <1>1, <1>2, OtherKeepsInv DEF ServerTypes

LEMMA ServePickKeepsInv ==
  ASSUME Inv, NEW i \in Servers, NEW m, m = Head(chan[i]), Served(i), ServePick(i, m)
  PROVE  Inv'
<1> DEFINE p == [cmd |-> "pick result"]
<1>1. ServerTypes /\ ChannelTypes /\ UNCHANGED <<handles, numRefs, swapChains, refs>>
  BY DEF Inv, Types, ServePick
<1>2. back[i] = <<>> /\ m.cmd = "pick" /\ back' = [back EXCEPT ![i] = Append(@, p)]
  BY NextCommand DEF Served, ServePick
<1>3. p \in Packets /\ p.cmd # "frame"
  BY DEF Packets
<1> HIDE DEF p
<1>4. back'[i] = <<p>>
  BY <1>1, <1>2 DEF ChannelTypes
<1>5. back' \in [Servers -> Seq(Packets)] /\ \A k \in Servers : k # i => back'[k] = back[k]
  <2>1. <<p>> \in Seq(Packets)
    BY <1>3
  <2>. QED
    BY <1>1, <1>2, <1>4, <2>1 DEF ChannelTypes
<1>6. Replies(i, m)
  <2>1. Len(<<p>>) = 1 /\ Head(<<p>>) = p
    OBVIOUS
  <2>. QED
    BY <1>2, <1>3, <1>4, <1>5, <2>1 DEF Replies
<1>. QED
  BY <1>1, <1>2, <1>6, OtherKeepsInv DEF ServerTypes

\* A command to render or to swap finds a swap chain.
LEMMA ChainOfCommand ==
  ASSUME Inv, NEW i \in Servers, NEW m, m = Head(chan[i]), Served(i),
         m.cmd \in {"render", "swap"}
  PROVE  m.id \in Handles /\ swapChains[i][m.id] \in ServerChains
<1>1. /\ m \in Commands
      /\ \E t \in HandleStates : Executes(executed[i] + 1, ServerState(i), m, t)
  BY NextCommand DEF Served
<1>2. m.id \in Handles
  BY <1>1 DEF Commands
<1>3. ServerState(i).chain[m.id]
  BY <1>1 DEF Executes
<1>4. swapChains[i][m.id] # None
  BY <1>2, <1>3 DEF ServerState
<1>. QED
  BY <1>2, <1>4 DEF Inv, Types, ServerTypes

LEMMA ServeRenderKeepsInv ==
  ASSUME Inv, NEW i \in Servers, NEW m, m = Head(chan[i]), Served(i), ServeRender(i, m)
  PROVE  Inv'
<1>1. ServerTypes /\ ChannelTypes /\ UNCHANGED <<handles, numRefs, refs, back>>
  BY DEF Inv, Types, ServeRender
<1>2. m.cmd = "render" /\ Replies(i, m)
  BY <1>1 DEF ServeRender, Replies, ChannelTypes
<1>3. PICK h \in Handles : h = m.id /\ swapChains[i][h] \in ServerChains
  BY <1>2, ChainOfCommand
<1> DEFINE chain == [swapChains[i][h] EXCEPT !.image[swapChains[i][h].buf] = executed[i] + 1]
<1>4. chain \in ServerChains
  <2>1. executed[i] + 1 \in Pictures
    BY NextCommand DEF Served, Objects, Pictures
  <2>. QED
    BY <1>3, <2>1 DEF ServerChains
<1>5. swapChains' = [swapChains EXCEPT ![i][h] = chain]
  BY <1>1, <1>3 DEF ServeRender
<1> HIDE DEF chain
<1>6. swapChains[i][h] # None /\ chain # None
  BY <1>3, <1>4, NoneAssumption
<1>7. /\ swapChains' \in [Servers -> [Handles -> ServerChains \cup {None}]]
      /\ \A k \in Servers : k # i => swapChains'[k] = swapChains[k]
      /\ \A g \in Handles : swapChains'[i][g] = None <=> swapChains[i][g] = None
  BY <1>1, <1>4, <1>5, <1>6 DEF ServerTypes
<1>. QED
  BY <1>1, <1>2, <1>7, OtherKeepsInv

LEMMA ServeSwapKeepsInv ==
  ASSUME Inv, NEW i \in Servers, NEW m, m = Head(chan[i]), Served(i), ServeSwap(i, m)
  PROVE  Inv'
<1>1. /\ ServerTypes /\ ChannelTypes /\ UNCHANGED <<handles, numRefs, refs>>
      /\ m.cmd = "swap" /\ back[i] = <<>>
  BY NextCommand DEF Inv, Types, ServeSwap, Served
<1>2. PICK h \in Handles : h = m.id /\ swapChains[i][h] \in ServerChains
  BY <1>1, ChainOfCommand
<1>3. PICK old \in ServerChains : old = swapChains[i][h]
  BY <1>2
<1>4. PICK b, r, shown \in Nat :
        /\ b = (old.buf + 1) % Depth /\ b \in Buffers
        /\ r = NextRead(old.readID) /\ r \in 0 .. Width-1
        /\ shown = old.readID % Depth /\ shown \in Buffers
  <2>1. PICK x \in Buffers, z \in 0 .. Width-1 : old.buf = x /\ old.readID = z
    BY <1>3 DEF ServerChains
  <2>2. (x + 1) % Depth \in 0 .. Depth-1 /\ (z + 1) % Width \in 0 .. Width-1 /\ z % Depth \in 0 .. Depth-1
    BY <2>1 DEF Buffers
  <2>. QED
    BY <2>1, <2>2 DEF Buffers, NextRead
<1> DEFINE chain == [old EXCEPT !.buf = b, !.readID = r]
           p == [cmd |-> "frame", id |-> h, buf |-> shown, picture |-> old.image[shown]]
<1>5. chain \in ServerChains
  BY <1>3, <1>4 DEF ServerChains
<1>6. p \in Packets /\ p.cmd = "frame" /\ p.id = h
  <2>1. old.image[shown] \in Pictures
    BY <1>3, <1>4 DEF ServerChains
  <2>. QED
    BY <1>4, <2>1 DEF Packets
<1>7. swapChains' = [swapChains EXCEPT ![i][h] = chain] /\ back' = [back EXCEPT ![i] = Append(@, p)]
  BY <1>2, <1>3, <1>4 DEF ServeSwap
<1> HIDE DEF chain, p
<1>8. swapChains[i][h] # None /\ chain # None
  BY <1>2, <1>5, NoneAssumption
<1>9. /\ swapChains' \in [Servers -> [Handles -> ServerChains \cup {None}]]
      /\ \A k \in Servers : k # i => swapChains'[k] = swapChains[k]
      /\ \A g \in Handles : swapChains'[i][g] = None <=> swapChains[i][g] = None
  BY <1>1, <1>5, <1>7, <1>8 DEF ServerTypes
<1>10. back'[i] = <<p>>
  BY <1>1, <1>7 DEF ChannelTypes
<1>11. back' \in [Servers -> Seq(Packets)] /\ \A k \in Servers : k # i => back'[k] = back[k]
  <2>1. <<p>> \in Seq(Packets)
    BY <1>6
  <2>. QED
    BY <1>1, <1>7, <1>10, <2>1 DEF ChannelTypes
<1>12. Replies(i, m)
  <2>1. Len(<<p>>) = 1 /\ Head(<<p>>) = p
    OBVIOUS
  <2>. QED
    BY <1>1, <1>2, <1>6, <1>10, <1>11, <2>1 DEF Replies
<1>. QED
  BY <1>1, <1>9, <1>12, OtherKeepsInv

\* The references of an object the server counts.
LEMMA AdjustedIsWith ==
  \A i \in Servers : \A k, d : Adjusted(i, k, d) = With(refs[i], k, d)
  BY DEF Adjusted, With

LEMMA ServeNewKeepsInv ==
  ASSUME Inv, NEW i \in Servers, NEW m, m = Head(chan[i]), Served(i), ServeNew(i, m)
  PROVE  Inv'
<1>1. /\ ServerTypes /\ ChannelTypes /\ UNCHANGED back
      /\ m.cmd = "new" /\ m.kind # "unknown"
      /\ executed' = [executed EXCEPT ![i] = @ + 1] /\ UNCHANGED <<serving, failed>>
  BY DEF Inv, Types, ServeNew, Served
<1>2. PICK n \in Nat : n = executed[i] /\ n + 1 \in Objects
  BY NextCommand DEF Served
<1>3. PICK t \in HandleStates : Executes(n + 1, ServerState(i), m, t)
  BY <1>2, NextCommand DEF Served
<1>4. /\ m \in Commands /\ ServerState(i) \in HandleStates /\ refs[i] \in [Objects -> Nat]
      /\ Exact(ServerState(i), refs[i], n)
  BY <1>2, NextCommand DEF Served
<1>5. PICK h \in Handles : h = m.id
  BY <1>4 DEF Commands
<1> DEFINE chain == IF m.kind = "framebuffer"
                    THEN [buf |-> 0, image |-> Blank, readID |-> FirstRead] ELSE None
           d == IF m.kind = "framebuffer" THEN 2 ELSE 1
<1>6. /\ chain \in ServerChains \cup {None} /\ (chain = None <=> m.kind # "framebuffer")
  <2>1. [buf |-> 0, image |-> Blank, readID |-> FirstRead] \in ServerChains
    BY DEF ServerChains, Blank, FirstRead, Buffers, Pictures
  <2>. QED
    BY <2>1, NoneAssumption
<1>7. /\ handles' = [handles EXCEPT ![i][h] = n + 1] /\ numRefs' = [numRefs EXCEPT ![i][h] = 1]
      /\ swapChains' = [swapChains EXCEPT ![i][h] = chain]
      /\ refs' = [refs EXCEPT ![i] = With(refs[i], n + 1, d)]
  BY <1>2, <1>5, AdjustedIsWith DEF ServeNew
<1>8. Exact(t, With(refs[i], n + 1, d), n + 1) /\ With(refs[i], n + 1, d) \in [Objects -> Nat]
  BY <1>1, <1>2, <1>3, <1>4, NewIsExact
<1> HIDE DEF chain, d
<1>9. refs'[i] = With(refs[i], n + 1, d)
  BY <1>1, <1>7 DEF ServerTypes
<1>10. ServerTypes'
  BY <1>1, <1>2, <1>6, <1>7, <1>8 DEF ServerTypes
<1>11. Alone(i)
  BY <1>1, <1>7 DEF Alone, ServerTypes
<1>12. ServerState(i)' = t
  <2>1. t = [count |-> [numRefs[i] EXCEPT ![h] = 1], obj |-> [handles[i] EXCEPT ![h] = n + 1],
             chain |-> [ServerState(i).chain EXCEPT ![h] = (m.kind = "framebuffer")]]
    BY <1>1, <1>3, <1>5 DEF Executes, ServerState
  <2>2. /\ numRefs'[i] = [numRefs[i] EXCEPT ![h] = 1]
        /\ handles'[i] = [handles[i] EXCEPT ![h] = n + 1]
    BY <1>1, <1>7 DEF ServerTypes
  <2>3. \A g \in Handles : (swapChains'[i][g] # None)
                             = [ServerState(i).chain EXCEPT ![h] = (m.kind = "framebuffer")][g]
    BY <1>1, <1>6, <1>7 DEF ServerTypes, ServerState
  <2>4. [g \in Handles |-> swapChains'[i][g] # None]
          = [ServerState(i).chain EXCEPT ![h] = (m.kind = "framebuffer")]
    BY <2>3 DEF ServerState
  <2>. QED
    BY <2>1, <2>2, <2>4 DEF ServerState
<1>13. Replies(i, m)
  BY <1>1 DEF Replies, ChannelTypes
<1>. QED
  BY <1>2, <1>3, <1>8, <1>9, <1>10, <1>11, <1>12, <1>13, ServedKeepsInv

LEMMA ServeIncRefKeepsInv ==
  ASSUME Inv, NEW i \in Servers, NEW m, m = Head(chan[i]), Served(i), ServeIncRef(i, m)
  PROVE  Inv'
<1>1. /\ ServerTypes /\ ChannelTypes /\ m.cmd = "incref"
      /\ executed' = [executed EXCEPT ![i] = @ + 1]
      /\ UNCHANGED <<serving, failed, handles, swapChains, back>>
  BY DEF Inv, Types, ServeIncRef, Served
<1>2. PICK n \in Nat : n = executed[i] /\ n + 1 \in Objects
  BY NextCommand DEF Served
<1>3. PICK t \in HandleStates : Executes(n + 1, ServerState(i), m, t)
  BY <1>2, NextCommand DEF Served
<1>4. /\ m \in Commands /\ ServerState(i) \in HandleStates /\ refs[i] \in [Objects -> Nat]
      /\ Exact(ServerState(i), refs[i], n)
  BY <1>2, NextCommand DEF Served
<1>5. PICK h \in Handles : h = m.id
  BY <1>4 DEF Commands
<1>6. ServerState(i).obj[m.id] = handles[i][h]
  BY <1>5 DEF ServerState
<1>7. /\ numRefs' = [numRefs EXCEPT ![i][h] = @ + 1]
      /\ refs' = [refs EXCEPT ![i] = With(refs[i], handles[i][h], 1)]
  BY <1>5, AdjustedIsWith DEF ServeIncRef
<1>8. /\ Exact(t, With(refs[i], handles[i][h], 1), n + 1)
      /\ With(refs[i], handles[i][h], 1) \in [Objects -> Nat]
  BY <1>1, <1>2, <1>3, <1>4, <1>6, IncRefIsExact
<1>9. refs'[i] = With(refs[i], handles[i][h], 1)
  BY <1>1, <1>7 DEF ServerTypes
<1>10. ServerTypes'
  BY <1>1, <1>2, <1>7, <1>8 DEF ServerTypes
<1>11. Alone(i)
  BY <1>1, <1>7 DEF Alone, ServerTypes
<1>12. ServerState(i)' = t
  <2>1. t = [count |-> [numRefs[i] EXCEPT ![h] = @ + 1], obj |-> handles[i],
             chain |-> ServerState(i).chain]
    BY <1>1, <1>3, <1>5 DEF Executes, ServerState
  <2>2. numRefs'[i] = [numRefs[i] EXCEPT ![h] = @ + 1]
    BY <1>1, <1>7 DEF ServerTypes
  <2>. QED
    BY <1>1, <2>1, <2>2 DEF ServerState
<1>13. Replies(i, m)
  BY <1>1 DEF Replies, ChannelTypes
<1>. QED
  BY <1>2, <1>3, <1>8, <1>9, <1>10, <1>11, <1>12, <1>13, ServedKeepsInv

LEMMA ServeDecRefKeepsInv ==
  ASSUME Inv, NEW i \in Servers, NEW m, m = Head(chan[i]), Served(i), ServeDecRef(i, m)
  PROVE  Inv'
<1>1. /\ ServerTypes /\ ChannelTypes /\ m.cmd = "decref" /\ UNCHANGED back
      /\ executed' = [executed EXCEPT ![i] = @ + 1] /\ UNCHANGED <<serving, failed>>
  BY DEF Inv, Types, ServeDecRef, Served
<1>2. PICK n \in Nat : n = executed[i] /\ n + 1 \in Objects
  BY NextCommand DEF Served
<1>3. PICK t \in HandleStates : Executes(n + 1, ServerState(i), m, t)
  BY <1>2, NextCommand DEF Served
<1>4. /\ m \in Commands /\ ServerState(i) \in HandleStates /\ refs[i] \in [Objects -> Nat]
      /\ Exact(ServerState(i), refs[i], n)
  BY <1>2, NextCommand DEF Served
<1>5. PICK h \in Handles : h = m.id
  BY <1>4 DEF Commands
<1>6. /\ ServerState(i).obj[m.id] = handles[i][h] /\ ServerState(i).count[m.id] = numRefs[i][h]
      /\ ServerState(i).chain[m.id] = (swapChains[i][h] # None)
  BY <1>5 DEF ServerState
<1> DEFINE d == IF DropsChain(i, h) THEN -2 ELSE -1
<1>7. /\ numRefs' = [numRefs EXCEPT ![i][h] = @ - 1]
      /\ handles' = IF numRefs[i][h] = 1 THEN [handles EXCEPT ![i][h] = None] ELSE handles
      /\ swapChains' = IF DropsChain(i, h) THEN [swapChains EXCEPT ![i][h] = None] ELSE swapChains
      /\ refs' = [refs EXCEPT ![i] = With(refs[i], handles[i][h], d)]
  BY <1>5, AdjustedIsWith DEF ServeDecRef, DropsHandle
<1>8. d = IF ServerState(i).count[m.id] = 1 /\ ServerState(i).chain[m.id] THEN -2 ELSE -1
  BY <1>6 DEF DropsChain, DropsHandle
<1> HIDE DEF d
<1>9. /\ Exact(t, With(refs[i], handles[i][h], d), n + 1)
      /\ With(refs[i], handles[i][h], d) \in [Objects -> Nat]
  BY <1>1, <1>2, <1>3, <1>4, <1>6, <1>8, DecRefIsExact
<1>10. refs'[i] = With(refs[i], handles[i][h], d)
  BY <1>1, <1>7 DEF ServerTypes
<1>11. ServerTypes'
  <2>1. numRefs[i][h] \in Nat /\ numRefs[i][h] > 0
    BY <1>1, <1>3, <1>5, <1>6 DEF ServerTypes, Executes
  <2>. QED
    BY <1>1, <1>2, <1>7, <1>9, <2>1 DEF ServerTypes
<1>12. Alone(i)
  BY <1>1, <1>7 DEF Alone, ServerTypes
<1>13. ServerState(i)' = t
  <2>1. t = [count |-> [numRefs[i] EXCEPT ![h] = @ - 1],
             obj |-> IF numRefs[i][h] = 1 THEN [handles[i] EXCEPT ![h] = None] ELSE handles[i],
             chain |-> IF numRefs[i][h] = 1 THEN [ServerState(i).chain EXCEPT ![h] = FALSE]
                                            ELSE ServerState(i).chain]
    BY <1>1, <1>3, <1>5 DEF Executes, ServerState
  <2>2. numRefs'[i] = [numRefs[i] EXCEPT ![h] = @ - 1]
    BY <1>1, <1>7 DEF ServerTypes
  <2>3. handles'[i] = IF numRefs[i][h] = 1 THEN [handles[i] EXCEPT ![h] = None] ELSE handles[i]
    BY <1>1, <1>7 DEF ServerTypes
  <2>4. [g \in Handles |-> swapChains'[i][g] # None]
          = IF numRefs[i][h] = 1 THEN [ServerState(i).chain EXCEPT ![h] = FALSE]
                                 ELSE ServerState(i).chain
    BY <1>1, <1>7 DEF ServerTypes, ServerState, DropsChain, DropsHandle
  <2>. QED
    BY <2>1, <2>2, <2>3, <2>4 DEF ServerState
<1>14. Replies(i, m)
  BY <1>1 DEF Replies, ChannelTypes
<1>. QED
  BY <1>2, <1>3, <1>9, <1>10, <1>11, <1>12, <1>13, <1>14, ServedKeepsInv

LEMMA ServeKeepsInv ==
  ASSUME Inv, NEW i \in Servers, Serve(i)
  PROVE  Inv'
<1>1. PICK m : m = Head(chan[i])
  OBVIOUS
<1>2. Served(i)
  BY DEF Serve, Served
<1>3. \/ ServeNew(i, m) \/ ServeIncRef(i, m) \/ ServeDecRef(i, m) \/ ServeUse(i, m)
      \/ ServeRender(i, m) \/ ServeSwap(i, m) \/ ServePick(i, m)
  BY <1>1 DEF Serve
<1>. QED
  BY <1>1, <1>2, <1>3, ServeNewKeepsInv, ServeIncRefKeepsInv, ServeDecRefKeepsInv,
     ServeUseKeepsInv, ServeRenderKeepsInv, ServeSwapKeepsInv, ServePickKeepsInv

-----------------------------------------------------------------------------
(* A server ends.                                                          *)

\* No handle stands for object k, or one does.
LEMMA OwnedByNone ==
  ASSUME NEW i, NEW k, {h \in Handles : handles[i][h] = k} = {}
  PROVE  Owned(i, k) = 0
<1> DEFINE G(it) ==
      [s \in SUBSET {} |->
         IF s = {} THEN 0
         ELSE LET x == CHOOSE x \in s : TRUE
              IN  numRefs[i][x] + ChainRefs(i, x) + it[s \ {x}]]
<1>1. Owned(i, k) = (CHOOSE it : it = G(it))[{}]
  BY DEF Owned, MapThenSumSet, MapThenFoldSet
<1> DEFINE w == [s \in SUBSET {} |-> 0]
           iter == CHOOSE it : it = G(it)
<1>2. w = G(w)
  <2>1. \A s \in SUBSET {} : s = {}
    OBVIOUS
  <2>. QED
    BY <2>1
<1>3. iter = G(iter)
  BY <1>2
<1>. QED
  BY <1>1, <1>3

LEMMA OwnedByOne ==
  ASSUME NEW i, NEW k, NEW g, {h \in Handles : handles[i][h] = k} = {g},
         numRefs[i][g] \in Nat
  PROVE  Owned(i, k) = numRefs[i][g] + ChainRefs(i, g)
<1> DEFINE G(it) ==
      [s \in SUBSET {g} |->
         IF s = {} THEN 0
         ELSE LET x == CHOOSE x \in s : TRUE
              IN  numRefs[i][x] + ChainRefs(i, x) + it[s \ {x}]]
<1>1. Owned(i, k) = (CHOOSE it : it = G(it))[{g}]
  BY DEF Owned, MapThenSumSet, MapThenFoldSet
<1>2. (CHOOSE x \in {g} : TRUE) = g /\ {g} \ {g} = {} /\ {g} # {}
  OBVIOUS
<1>3. numRefs[i][g] + ChainRefs(i, g) \in Nat
  BY DEF ChainRefs
<1> DEFINE w == [s \in SUBSET {g} |-> IF s = {} THEN 0 ELSE numRefs[i][g] + ChainRefs(i, g)]
           iter == CHOOSE it : it = G(it)
<1>4. w = G(w)
  <2>1. \A s \in SUBSET {g} : s = {} \/ s = {g}
    OBVIOUS
  <2>2. w[{}] = 0
    OBVIOUS
  <2>3. \A s \in SUBSET {g} : w[s] = G(w)[s]
    BY <1>2, <1>3, <2>1, <2>2
  <2>. QED
    BY <2>3
<1>5. iter = G(iter)
  BY <1>4
<1> HIDE DEF w, iter
<1>6. iter[{}] = 0
  BY <1>5
<1>7. iter[{g}] = numRefs[i][g] + ChainRefs(i, g) + iter[{}]
  BY <1>2, <1>5
<1>8. iter[{g}] = numRefs[i][g] + ChainRefs(i, g)
  BY <1>3, <1>6, <1>7
<1>. QED
  BY <1>1, <1>8 DEF iter

\* The destructor takes away exactly the references of the handles and the chains.
LEMMA OwnedIsAll ==
  ASSUME Inv, NEW i \in Servers, serving[i], NEW k \in Objects
  PROVE  refs[i][k] = Owned(i, k)
<1>1. /\ ServerTypes /\ Exact(ServerState(i), refs[i], executed[i])
  BY DEF Inv, Types, Counted
<1>2. CASE \A h \in Handles : handles[i][h] # k
  <2>1. refs[i][k] = 0
    BY <1>1, <1>2 DEF Exact, ServerState
  <2>. QED
    BY <1>2, <2>1, OwnedByNone
<1>3. CASE \E h \in Handles : handles[i][h] = k
  <2>1. PICK g \in Handles : handles[i][g] = k
    BY <1>3
  <2>2. k # None
    BY NoneAssumption
  <2>3. {h \in Handles : handles[i][h] = k} = {g}
    BY <1>1, <2>1, <2>2 DEF Exact, ServerState
  <2>4. refs[i][k] = numRefs[i][g] + ChainRefs(i, g)
    BY <1>1, <2>1, <2>2 DEF Exact, ServerState, ChainRefs
  <2>. QED
    BY <1>1, <2>3, <2>4, OwnedByOne DEF ServerTypes
<1>. QED
  BY <1>2, <1>3

LEMMA DestroyKeepsInv ==
  ASSUME Inv, NEW i \in Servers, serving[i], Destroy(i), failed' \in [Servers -> BOOLEAN]
  PROVE  Inv'
<1>1. /\ Types /\ ClientTypes /\ ChannelTypes /\ ServerTypes
      /\ refs' = [refs EXCEPT ![i] = [k \in Objects |-> @[k] - Owned(i, k)]]
      /\ handles' = [handles EXCEPT ![i] = [h \in Handles |-> None]]
      /\ numRefs' = [numRefs EXCEPT ![i] = [h \in Handles |-> 0]]
      /\ swapChains' = [swapChains EXCEPT ![i] = [h \in Handles |-> None]]
      /\ serving' = [serving EXCEPT ![i] = FALSE]
      /\ UNCHANGED <<clientVars, chan, due, back, executed>>
  BY DEF Inv, Types, Destroy
<1>2. refs'[i] = [k \in Objects |-> 0]
  <2>1. \A k \in Objects : refs[i][k] - Owned(i, k) = 0
    <3>1. \A k \in Objects : refs[i][k] \in Nat /\ refs[i][k] = Owned(i, k)
      BY <1>1, OwnedIsAll DEF ServerTypes
    <3>. QED
      BY <3>1
  <2>2. refs'[i] = [k \in Objects |-> refs[i][k] - Owned(i, k)]
    BY <1>1 DEF ServerTypes
  <2>. QED
    BY <2>1, <2>2
<1>3. \A k \in Servers : k # i =>
        /\ handles'[k] = handles[k] /\ numRefs'[k] = numRefs[k]
        /\ swapChains'[k] = swapChains[k] /\ refs'[k] = refs[k] /\ serving'[k] = serving[k]
  BY <1>1 DEF ServerTypes
<1>4. ~serving'[i]
  BY <1>1 DEF ServerTypes
<1>5. Types'
  <2>1. ClientTypes' /\ ChannelTypes'
    BY <1>1 DEF ClientTypes, ChannelTypes, clientVars, handleVars, callVars
  <2>2. refs' \in [Servers -> [Objects -> Nat]]
    <3>1. refs'[i] \in [Objects -> Nat]
      BY <1>2
    <3>. QED
      BY <1>1, <1>3, <3>1 DEF ServerTypes
  <2>3. ServerTypes'
    BY <1>1, <2>2 DEF ServerTypes
  <2>. QED
    BY <2>1, <2>3 DEF Types
<1>6. Allocated' /\ InUse' /\ Sent'
  BY <1>1 DEF Inv, Allocated, InUse, Sent, clientVars, handleVars, callVars
<1>7. Answers'
  BY <1>1 DEF Inv, Answers, Asking, clientVars, callVars
<1>8. \A k \in Servers : k # i => ServerState(k)' = ServerState(k)
  BY <1>3 DEF ServerState
<1>9. Behind'
  <2>1. ClientState' = ClientState
    BY <1>1 DEF ClientState, clientVars, handleVars
  <2>. QED
    BY <1>1, <1>3, <1>4, <1>8, <2>1 DEF Inv, Behind
<1>10. Counted'
  BY <1>1, <1>2, <1>3, <1>4, <1>8 DEF Inv, Counted, Released
<1>. QED
  BY <1>5, <1>6, <1>7, <1>9, <1>10 DEF Inv

-----------------------------------------------------------------------------
(* Every step.                                                             *)

LEMMA StepKeepsInv ==
  ASSUME Inv, [Next]_vars
  PROVE  Inv'
<1>1. CASE ClientCall
  <2>1. ASSUME NEW h \in Handles, Use(h) PROVE Inv'
    <3>1. "use" \in {"use", "render", "swap"}
      OBVIOUS
    <3>. QED
      BY <2>1, <3>1, MentionKeepsInv DEF Use
  <2>2. ASSUME NEW h \in Handles, RenderFrame(h) PROVE Inv'
    <3>1. h \in Chains /\ h \in Held
      BY <2>2 DEF RenderFrame, Chains
    <3>2. /\ Call /\ Broadcast(Command("render", h)) /\ Flush
          /\ UNCHANGED <<handleVars, buffers, callVars, back, serverVars>>
      BY <2>2 DEF RenderFrame
    <3>. QED
      BY <3>1, <3>2, MentionKeepsInv
  <2>3. ASSUME NEW h \in Handles, SwapBuffers(h) PROVE Inv'
    <3>1. h \in Chains /\ h \in Held
      BY <2>3 DEF SwapBuffers, Chains
    <3>2. /\ Call /\ Broadcast(Command("swap", h)) /\ Flush
          /\ pc' = "swap" /\ recv' = 0 /\ fb' = h
          /\ UNCHANGED <<handleVars, buffers, back, serverVars>>
      BY <2>3 DEF SwapBuffers
    <3>. QED
      BY <3>1, <3>2, MentionKeepsInv
  <2>. QED
    BY <1>1, <2>1, <2>2, <2>3, NewKeepsInv, NewThrowsKeepsInv, IncRefKeepsInv,
       DecRefKeepsInv, PickKeepsInv, CloseKeepsInv DEF ClientCall
<1>2. CASE ReceiveCommand
  BY <1>2, ReceiveKeepsInv
<1>3. CASE Return
  BY <1>3, ReturnKeepsInv
<1>4. ASSUME NEW i \in Servers, Serve(i) PROVE Inv'
  BY <1>4, ServeKeepsInv
<1>5. ASSUME NEW i \in Servers, Disconnect(i) PROVE Inv'
  BY <1>5, DestroyKeepsInv DEF Disconnect, Inv, Types, ServerTypes
<1>6. ASSUME NEW i \in Servers, Throw(i) PROVE Inv'
  BY <1>6, DestroyKeepsInv DEF Throw, Inv, Types, ServerTypes
<1>7. CASE UNCHANGED vars
  <2>1. ClientState' = ClientState /\ \A i \in Servers : ServerState(i)' = ServerState(i)
    BY <1>7 DEF ClientState, ServerState, vars, clientVars, handleVars, serverVars
  <2>2. Types' /\ Allocated' /\ InUse' /\ Sent'
    BY <1>7 DEF Inv, Types, ClientTypes, ChannelTypes, ServerTypes, Allocated, InUse, Sent,
                vars, clientVars, handleVars, callVars, serverVars
  <2>3. Answers'
    BY <1>7 DEF Inv, Answers, Asking, vars, clientVars, callVars
  <2>4. Behind' /\ Counted'
    BY <1>7, <2>1 DEF Inv, Behind, Counted, Released, vars, serverVars
  <2>. QED
    BY <2>2, <2>3, <2>4 DEF Inv
<1>. QED
  BY <1>1, <1>2, <1>3, <1>4, <1>5, <1>6, <1>7 DEF Next, Terminated

\* The invariant holds for any number of servers, handles, calls and buffers.
THEOREM Invariance == Spec => []Inv
<1>1. Init => Inv
  BY InvInit
<1>2. Inv /\ [Next]_vars => Inv'
  BY StepKeepsInv
<1>. QED
  BY <1>1, <1>2, PTL DEF Spec

-----------------------------------------------------------------------------
(* What the invariant says.                                                *)

LEMMA InvTypeOK == Inv => TypeOK
<1>. SUFFICES ASSUME Inv PROVE TypeOK
  OBVIOUS
<1>1. ClientTypes /\ ChannelTypes /\ ServerTypes /\ Allocated /\ Sent /\ MaxCalls \in Nat
  BY DEF Inv, Types
<1>2. Len(pool) < nextHandle
  <2>1. PICK n \in Nat : nextHandle = n + 1
    <3>1. nextHandle - 1 \in Nat /\ nextHandle = (nextHandle - 1) + 1
      BY <1>1 DEF ClientTypes
    <3>. QED
      BY <3>1
  <2>2. PICK l \in Nat : Len(pool) = l
    BY <1>1 DEF ClientTypes
  <2>3. \A j \in 1 .. l : pool[j] \in 1 .. n
    <3>1. pool \in Seq(Handles) /\ \A j \in 1 .. Len(pool) : pool[j] < nextHandle
      BY <1>1 DEF ClientTypes, Allocated
    <3>2. \A j \in 1 .. l : pool[j] \in Handles
      BY <2>2, <3>1
    <3>3. \A h \in Handles : h \in Int /\ 1 <= h
      BY <1>1 DEF ClientTypes, Handles
    <3>4. ASSUME NEW j \in 1 .. l PROVE pool[j] \in 1 .. n
      <4>1. pool[j] \in Int /\ 1 <= pool[j] /\ pool[j] < n + 1
        BY <2>1, <2>2, <3>1, <3>2, <3>3
      <4>. QED
        BY <4>1
    <3>. QED
      BY <3>4
  <2> DEFINE f == [j \in 1 .. l |-> pool[j]]
  <2>4. f \in Injection(1 .. l, 1 .. n)
    <3>1. f \in [1 .. l -> 1 .. n]
      BY <2>3
    <3>2. \A j, k \in 1 .. l : f[j] = f[k] => j = k
      BY <1>1, <2>2 DEF Allocated
    <3>. QED
      BY <3>1, <3>2 DEF Injection, IsInjective
  <2>5. IsFiniteSet(1 .. n) /\ Cardinality(1 .. n) = n
        /\ IsFiniteSet(1 .. l) /\ Cardinality(1 .. l) = l
    BY FS_Interval
  <2>6. Cardinality(1 .. l) <= Cardinality(1 .. n)
    BY <2>4, <2>5, FS_Injection
  <2>. QED
    BY <2>1, <2>2, <2>5, <2>6
<1>3. executed \in [Servers -> 0 .. MaxCalls]
  <2>1. ASSUME NEW i \in Servers PROVE executed[i] <= MaxCalls
    <3>1. executed[i] \in Nat /\ Len(chan[i]) \in Nat /\ calls \in 0 .. MaxCalls
      BY <1>1 DEF ServerTypes, ChannelTypes, ClientTypes
    <3>2. executed[i] + Len(chan[i]) = calls \/ executed[i] + Len(chan[i]) = calls - 1
      BY <1>1 DEF Sent
    <3>. QED
      BY <3>1, <3>2
  <2>. QED
    BY <1>1, <2>1 DEF ServerTypes
<1>4. \A i \in Servers : due[i] \in 0 .. Len(chan[i])
  BY <1>1 DEF ChannelTypes
<1>. QED
  BY <1>1, <1>2, <1>3, <1>4 DEF TypeOK, ClientTypes, ServerTypes

THEOREM TypesHold == Spec => []TypeOK
  BY Invariance, InvTypeOK, PTL

\* Every command finds, under the handle it names, the object the application
\* meant, alive: NetworkServer looks the handle up in its own table when the
\* client may have given it to another object long ago.
THEOREM CommandsFindTheirObjects == Spec => []HandlesMeanTheSame
<1>1. Inv => HandlesMeanTheSame
  <2>. SUFFICES ASSUME Inv, NEW i \in Servers, serving[i], chan[i] # <<>>,
                       NEW m, m = Head(chan[i]), m.cmd # "new"
                PROVE  handles[i][m.id] = m.obj /\ refs[i][m.obj] > 0
    BY DEF HandlesMeanTheSame
  <2>1. /\ m \in Commands /\ Exact(ServerState(i), refs[i], executed[i])
        /\ \E t \in HandleStates : Executes(executed[i] + 1, ServerState(i), m, t)
    BY NextCommand
  <2>2. PICK h \in Handles, k \in Objects : h = m.id /\ k = m.obj
    BY <2>1 DEF Commands
  <2>3. handles[i][h] = k
    BY <2>1, <2>2 DEF Executes, ServerState
  <2>4. refs[i][k] = numRefs[i][h] + (IF swapChains[i][h] # None THEN 1 ELSE 0) /\ numRefs[i][h] > 0
    BY <2>1, <2>3, NoneAssumption DEF Exact, ServerState
  <2>5. numRefs[i][h] \in Nat
    BY DEF Inv, Types, ServerTypes
  <2>. QED
    BY <2>2, <2>3, <2>4, <2>5
<1>. QED
  BY <1>1, Invariance, PTL

\* A server that has executed all commands holds exactly the objects the
\* application holds.
THEOREM ServersFollow == Spec => []ServersMirrorClient
<1>1. Inv => ServersMirrorClient
  <2>. SUFFICES ASSUME Inv, NEW i \in Servers, serving[i], chan[i] = <<>>
                PROVE  {k \in Objects : refs[i][k] > 0} = {means[h] : h \in Held}
    BY InvTypeOK DEF ServersMirrorClient
  <2>1. /\ Types /\ ServerTypes /\ Exact(ServerState(i), refs[i], executed[i])
        /\ Leads(executed[i], ServerState(i), <<>>, ClientState)
    BY DEF Inv, Types, Counted, Behind
  <2>2. ServerState(i) = ClientState
    BY <2>1, StateTypes, LeadsNowhere
  <2>3. \A h \in Handles : handles[i][h] = IF counters[h] > 0 THEN means[h] ELSE None
    BY <2>2 DEF ServerState, ClientState
  <2>4. ASSUME NEW k \in Objects, refs[i][k] > 0
        PROVE  \E h \in Held : means[h] = k
    <3>1. PICK h \in Handles : handles[i][h] = k
      BY <2>1, <2>4 DEF Exact, ServerState
    <3>2. k # None
      BY NoneAssumption
    <3>. QED
      BY <2>3, <3>1, <3>2 DEF Held
  <2>5. ASSUME NEW h \in Held
        PROVE  means[h] \in Objects /\ refs[i][means[h]] > 0
    <3>1. h \in Handles /\ means[h] \in Objects /\ handles[i][h] = means[h]
      BY <2>1, <2>3, <2>5 DEF Held, Types, ClientTypes
    <3>2. PICK k \in Objects : k = means[h] /\ k # None
      BY <3>1, NoneAssumption
    <3>3. refs[i][k] = numRefs[i][h] + (IF swapChains[i][h] # None THEN 1 ELSE 0) /\ numRefs[i][h] > 0
      BY <2>1, <3>1, <3>2 DEF Exact, ServerState
    <3>4. numRefs[i][h] \in Nat
      BY <2>1, <3>1 DEF ServerTypes
    <3>5. refs[i][k] > 0
      BY <3>3, <3>4
    <3>. QED
      BY <3>1, <3>2, <3>5
  <2>. QED
    BY <2>4, <2>5
<1>. QED
  BY <1>1, Invariance, PTL

\* However a server ends, its destructor leaves no reference behind.
THEOREM ServersReleaseAll == Spec => []DestructorReleasesAll
<1>1. Inv => DestructorReleasesAll
  BY DEF Inv, Counted, Released, DestructorReleasesAll
<1>. QED
  BY <1>1, Invariance, PTL

-----------------------------------------------------------------------------
(***************************************************************************)
(* The chains: after the commands on their way, the chain of a server is   *)
(* that of a local device, and the client has all of its buffers but those *)
(* it will get before it needs them.                                       *)
(***************************************************************************)
LocalChains == [buf : Buffers, image : [Buffers -> Pictures]]
\* What a server has for a handle: the references of the client, and a chain.
Views == ServerChains \cup {None}
ViewStates == [count : Nat, view : Views]

\* The chain of a new frame buffer, one drawn to by the n-th command, and one swapped.
NewView == [buf |-> 0, image |-> Blank, readID |-> FirstRead]
Drawn(c, n) == [c EXCEPT !.image[c.buf] = n]
Swapped(c) == [c EXCEPT !.buf = (@ + 1) % Depth, !.readID = NextRead(@)]

\* What command m, the n-th of a server, makes of handle h.
After(h, n, s, m) ==
  IF m.id # h THEN s
  ELSE CASE m.cmd = "new" ->
              [count |-> 1, view |-> IF m.kind = "framebuffer" THEN NewView ELSE None]
         [] m.cmd = "incref" -> [s EXCEPT !.count = @ + 1]
         [] m.cmd = "decref" ->
              [count |-> s.count - 1, view |-> IF s.count = 1 THEN None ELSE s.view]
         [] m.cmd = "render" -> [s EXCEPT !.view = Drawn(@, n)]
         [] m.cmd = "swap" -> [s EXCEPT !.view = Swapped(@)]
         [] OTHER -> s

\* The commands of seq, of which the first is number n + 1, bring handle h from a to b.
Path(h, n, a, seq, b) ==
  \E s \in [0 .. Len(seq) -> ViewStates] :
    /\ s[0] = a /\ s[Len(seq)] = b
    /\ \A j \in 1 .. Len(seq) : s[j] = After(h, n + j, s[j - 1], seq[j])

\* The buffer read before r is the one in the last packet.
PrevRead(r) == IF r = 0 THEN FirstRead ELSE r - 1

\* Chain c has swapped less often than n commands were given.
Ordered(c, n) ==
  \/ c.readID = FirstRead /\ c.buf = 0
  \/ c.readID < n /\ c.buf = (c.readID + 1) % Depth

\* Between the calls the client has the rows of chain c but for the buffer that is
\* drawn to and the one drawn last, which the next packet brings.
UpToDate(rows, c) ==
  \A b \in Buffers : b # c.buf /\ (b # c.readID % Depth \/ c.readID = FirstRead) =>
    rows[b] = c.image[b]

\* During a swap the packet is still to come.
Awaiting(rows, c) ==
  /\ c.readID # FirstRead
  /\ \A b \in Buffers : b # PrevRead(c.readID) % Depth /\ b # c.readID % Depth =>
       rows[b] = c.image[b]

\* Then it has come.
Complete(rows, c) ==
  /\ c.readID # FirstRead
  /\ \A b \in Buffers : b = PrevRead(c.readID) % Depth \/ b # c.readID % Depth =>
       rows[b] = c.image[b]

\* The packet sent is the one the client lacks.
OnItsWay(i, c) ==
  back[i] # <<>> =>
    /\ Head(back[i]).cmd = "frame"
    /\ Head(back[i]).buf = PrevRead(c.readID) % Depth
    /\ Head(back[i]).picture = c.image[Head(back[i]).buf]

\* Chain c of server i and handle h is that of a local device, and what the client
\* has of it.
Matches(i, h, c) ==
  /\ c.buf = local[h].buf /\ c.image = local[h].image /\ Ordered(c, calls)
  /\ LET rows == buffers[h].image[i] IN
     IF pc = "swap" /\ h = fb
     THEN IF recv > i THEN Complete(rows, c) ELSE Awaiting(rows, c) /\ OnItsWay(i, c)
     ELSE UpToDate(rows, c)

Shows(i, h, v) ==
  /\ v = None <=> buffers[h] = None
  /\ buffers[h] # None => Matches(i, h, v)

ViewAt(i, h) == [count |-> numRefs[i][h], view |-> swapChains[i][h]]

\* The commands on their way make the chain of a server the one that matches.
Follows(i, h) ==
  \E v \in Views :
    /\ Path(h, executed[i], ViewAt(i, h), chan[i], [count |-> counters[h], view |-> v])
    /\ Shows(i, h, v)

\* A server may have sent its packet and ended before the call returns.
Stopped(i) ==
  pc = "swap" /\ (recv > i \/ back[i] # <<>>) => \E c \in ServerChains : Matches(i, fb, c)

\* The client swaps when all servers have answered.
LocalFollows ==
  /\ local \in [Handles -> LocalChains \cup {None}]
  /\ \A h \in Handles : buffers[h] # None =>
       /\ local[h] \in LocalChains
       /\ local[h].buf = IF pc = "swap" /\ h = fb THEN (buffers[h].buf + 1) % Depth
                                                  ELSE buffers[h].buf

Images ==
  /\ LocalFollows
  /\ \A i \in Servers : IF serving[i] THEN \A h \in Handles : Follows(i, h) ELSE Stopped(i)

-----------------------------------------------------------------------------
(* The commands on their way to a handle.                                  *)

LEMMA PathNowhere ==
  ASSUME NEW h, NEW n, NEW a \in ViewStates, NEW b
  PROVE  Path(h, n, a, <<>>, b) <=> a = b
<1>1. ASSUME Path(h, n, a, <<>>, b) PROVE a = b
  BY <1>1 DEF Path
<1>2. ASSUME a = b PROVE Path(h, n, a, <<>>, b)
  <2> DEFINE s == [j \in 0 .. 0 |-> a]
  <2>1. s \in [0 .. Len(<<>>) -> ViewStates] /\ s[0] = a /\ Len(<<>>) = 0
    OBVIOUS
  <2> HIDE DEF s
  <2>. QED
    BY <1>2, <2>1 DEF Path
<1>. QED
  BY <1>1, <1>2

\* Another command is sent.
LEMMA PathFurther ==
  ASSUME NEW h, NEW n \in Nat, NEW a, NEW b, NEW c \in ViewStates,
         NEW seq \in Seq(Commands), NEW m \in Commands,
         Path(h, n, a, seq, b), c = After(h, n + Len(seq) + 1, b, m)
  PROVE  Path(h, n, a, Append(seq, m), c)
<1>1. PICK s \in [0 .. Len(seq) -> ViewStates] :
        /\ s[0] = a /\ s[Len(seq)] = b
        /\ \A j \in 1 .. Len(seq) : s[j] = After(h, n + j, s[j - 1], seq[j])
  BY DEF Path
<1>2. /\ Len(seq) \in Nat /\ Len(Append(seq, m)) = Len(seq) + 1
      /\ \A j \in 1 .. Len(seq) : Append(seq, m)[j] = seq[j]
      /\ Append(seq, m)[Len(seq) + 1] = m
  OBVIOUS
<1> DEFINE u == [j \in 0 .. Len(seq) + 1 |-> IF j = Len(seq) + 1 THEN c ELSE s[j]]
<1>3. u \in [0 .. Len(Append(seq, m)) -> ViewStates]
  BY <1>1, <1>2
<1>4. u[0] = a /\ u[Len(Append(seq, m))] = c
  BY <1>1, <1>2
<1>5. ASSUME NEW j \in 1 .. Len(Append(seq, m))
      PROVE  u[j] = After(h, n + j, u[j - 1], Append(seq, m)[j])
  <2>1. CASE j \in 1 .. Len(seq)
    BY <1>1, <1>2, <2>1
  <2>2. CASE j = Len(seq) + 1
    <3>1. u[j - 1] = b /\ u[j] = c /\ Append(seq, m)[j] = m /\ n + j = n + Len(seq) + 1
      BY <1>1, <1>2, <2>2
    <3>. QED
      BY <3>1
  <2>3. j \in 1 .. Len(seq) \/ j = Len(seq) + 1
    BY <1>2
  <2>. QED
    BY <2>1, <2>2, <2>3
<1> HIDE DEF u
<1>. QED
  BY <1>3, <1>4, <1>5 DEF Path

\* The first command is executed.
LEMMA PathOn ==
  ASSUME NEW h, NEW n \in Nat, NEW a, NEW b, NEW seq \in Seq(Commands), seq # <<>>,
         Path(h, n, a, seq, b)
  PROVE  Path(h, n + 1, After(h, n + 1, a, Head(seq)), Tail(seq), b)
<1>1. PICK s \in [0 .. Len(seq) -> ViewStates] :
        /\ s[0] = a /\ s[Len(seq)] = b
        /\ \A j \in 1 .. Len(seq) : s[j] = After(h, n + j, s[j - 1], seq[j])
  BY DEF Path
<1>2. /\ Len(seq) \in Nat \ {0} /\ Len(Tail(seq)) = Len(seq) - 1 /\ seq[1] = Head(seq)
      /\ \A j \in 1 .. Len(seq) - 1 : Tail(seq)[j] = seq[j + 1]
  OBVIOUS
<1> DEFINE u == [j \in 0 .. Len(seq) - 1 |-> s[j + 1]]
<1>3. u \in [0 .. Len(Tail(seq)) -> ViewStates]
  BY <1>1, <1>2
<1>4. u[0] = s[1] /\ u[Len(Tail(seq))] = b
  BY <1>1, <1>2
<1>5. ASSUME NEW j \in 1 .. Len(Tail(seq))
      PROVE  u[j] = After(h, n + 1 + j, u[j - 1], Tail(seq)[j])
  <2>1. /\ j + 1 \in 1 .. Len(seq) /\ u[j - 1] = s[j] /\ u[j] = s[j + 1]
        /\ Tail(seq)[j] = seq[j + 1] /\ (j + 1) - 1 = j /\ n + (j + 1) = n + 1 + j
    BY <1>2
  <2>2. s[j + 1] = After(h, n + (j + 1), s[(j + 1) - 1], seq[j + 1])
    BY <1>1, <2>1
  <2>. QED
    BY <2>1, <2>2
<1>6. s[1] = After(h, n + 1, a, Head(seq))
  <2>1. 1 \in 1 .. Len(seq) /\ 1 - 1 = 0
    BY <1>2
  <2>. QED
    BY <1>1, <1>2, <2>1
<1> HIDE DEF u
<1>. QED
  BY <1>3, <1>4, <1>5, <1>6 DEF Path

LEMMA PathEnds ==
  ASSUME NEW h, NEW n, NEW a, NEW b, NEW seq, Len(seq) \in Nat, Path(h, n, a, seq, b)
  PROVE  a \in ViewStates /\ b \in ViewStates
  BY DEF Path

-----------------------------------------------------------------------------
(* What swapping does to a chain.                                          *)

LEMMA ChainForm ==
  ASSUME NEW c \in ServerChains
  PROVE  /\ c.buf \in Buffers /\ c.image \in [Buffers -> Pictures]
         /\ c.readID \in 0 .. Width-1 /\ FirstRead \in Nat /\ FirstRead = Width - 1
         /\ c.readID % Depth \in Buffers
  BY DEF ServerChains, FirstRead, Buffers

LEMMA SwappedForm ==
  ASSUME NEW c \in ServerChains, NEW n \in 0 .. MaxCalls - 1, Ordered(c, n)
  PROVE  /\ Swapped(c) \in ServerChains
         /\ Swapped(c).buf = (c.buf + 1) % Depth /\ Swapped(c).image = c.image
         /\ PrevRead(Swapped(c).readID) = c.readID
         /\ Swapped(c).readID # FirstRead
         /\ Swapped(c).readID % Depth = c.buf
         /\ Ordered(Swapped(c), n + 1)
<1>0. c.buf \in Buffers /\ c.readID \in 0 .. Width-1 /\ MaxCalls < Width /\ FirstRead = Width - 1
  BY ChainForm, WidthAssumption
<1>1. PICK r \in 0 .. Width-1, w, z \in Nat :
        /\ r = c.readID /\ w = NextRead(r) /\ z = (c.buf + 1) % Depth
        /\ w \in 0 .. Width-1 /\ z \in Buffers
  <2>1. PICK x \in Buffers, r \in 0 .. Width-1 : c.buf = x /\ c.readID = r
    BY <1>0
  <2>2. (x + 1) % Depth \in 0 .. Depth-1 /\ (r + 1) % Width \in 0 .. Width-1
    BY <2>1 DEF Buffers
  <2>. QED
    BY <2>1, <2>2 DEF Buffers, NextRead
<1>2. Swapped(c) = [c EXCEPT !.buf = z, !.readID = w]
  BY <1>1 DEF Swapped
<1>3. Swapped(c) \in ServerChains /\ Swapped(c).buf = z /\ Swapped(c).image = c.image
      /\ Swapped(c).readID = w
  BY <1>1, <1>2 DEF ServerChains
<1>4. CASE r = FirstRead /\ c.buf = 0
  <2>1. w = 0
    BY <1>0, <1>1, <1>4 DEF NextRead
  <2>2. PrevRead(w) = r
    BY <1>4, <2>1 DEF PrevRead
  <2>3. w # FirstRead /\ w < n + 1
    BY <1>0, <2>1
  <2>4. w % Depth = c.buf /\ z = (w + 1) % Depth
    BY <1>1, <1>4, <2>1
  <2>. QED
    BY <1>1, <1>3, <2>2, <2>3, <2>4 DEF Ordered
<1>5. CASE r < n /\ c.buf = (r + 1) % Depth
  <2>1. w = r + 1
    BY <1>0, <1>1, <1>5 DEF NextRead
  <2>2. PrevRead(w) = r
    BY <1>1, <2>1 DEF PrevRead
  <2>3. w # FirstRead /\ w < n + 1
    BY <1>0, <1>1, <1>5, <2>1
  <2>4. w % Depth = c.buf
    BY <1>5, <2>1
  <2>5. z = (w + 1) % Depth
    BY <1>1, <1>5, <2>1, NextRemainder
  <2>. QED
    BY <1>1, <1>3, <2>2, <2>3, <2>4, <2>5 DEF Ordered
<1>. QED
  BY <1>1, <1>4, <1>5 DEF Ordered

\* A swap: what the client lacks is in the buffer drawn last, and on its way.
LEMMA AwaitsSwapped ==
  ASSUME NEW c \in ServerChains, NEW n \in 0 .. MaxCalls - 1, Ordered(c, n),
         NEW rows, UpToDate(rows, c)
  PROVE  Awaiting(rows, Swapped(c))
<1> DEFINE d == Swapped(c)
<1>1. /\ d.image = c.image /\ PrevRead(d.readID) = c.readID
      /\ d.readID # FirstRead /\ d.readID % Depth = c.buf
  BY SwappedForm
<1> HIDE DEF d
<1>2. Awaiting(rows, d)
  BY <1>1 DEF Awaiting, UpToDate
<1>. QED
  BY <1>2 DEF d

\* The frame arrives.
LEMMA CompletedByFrame ==
  ASSUME NEW c \in ServerChains, NEW rows \in [Buffers -> Pictures], Awaiting(rows, c),
         NEW b \in Buffers, b = PrevRead(c.readID) % Depth
  PROVE  Complete([rows EXCEPT ![b] = c.image[b]], c)
  BY DEF Awaiting, Complete

LEMMA CompleteIsUpToDate ==
  ASSUME NEW c, NEW rows, Complete(rows, c)
  PROVE  UpToDate(rows, c)
  BY DEF Complete, UpToDate

\* The current buffer shows what it should.
LEMMA CompleteShows ==
  ASSUME NEW c \in ServerChains, NEW n \in Nat, Ordered(c, n), NEW rows, Complete(rows, c)
  PROVE  rows[c.buf] = c.image[c.buf]
<1>1. c.buf \in Buffers /\ c.readID \in Int /\ c.readID # FirstRead
  BY ChainForm DEF Complete
<1>2. c.buf = (c.readID + 1) % Depth
  BY <1>1 DEF Ordered
<1>3. CASE c.buf # c.readID % Depth
  BY <1>1, <1>3 DEF Complete
<1>4. CASE c.buf = c.readID % Depth
  <2>1. Depth = 1
    BY <1>1, <1>2, <1>4, RemainderMoves
  <2>2. PrevRead(c.readID) \in Int
    BY <1>1, ChainForm DEF PrevRead
  <2>3. PrevRead(c.readID) % Depth \in Buffers
    BY <2>2 DEF Buffers
  <2>4. c.buf = PrevRead(c.readID) % Depth
    BY <1>1, <2>1, <2>3 DEF Buffers
  <2>. QED
    BY <1>1, <2>4 DEF Complete
<1>. QED
  BY <1>3, <1>4

-----------------------------------------------------------------------------
(* The calls of the application.                                           *)

\* A handle the call does not name.
LEMMA ShowsOn ==
  ASSUME pc = "idle", NEW i \in Servers, NEW g \in Handles, NEW v \in Views, Shows(i, g, v),
         buffers'[g] = buffers[g], local'[g] = local[g], calls \in Nat, calls' = calls + 1,
         pc' = "idle" \/ (pc' = "swap" /\ fb' # g)
  PROVE  Shows(i, g, v)'
<1>1. v = None <=> buffers'[g] = None
  BY DEF Shows
<1>2. ASSUME buffers[g] # None PROVE Matches(i, g, v)'
  <2>1. v \in ServerChains /\ Matches(i, g, v)
    BY <1>2 DEF Shows, Views
  <2>2. v.readID \in Nat
    BY <2>1, ChainForm
  <2>3. Ordered(v, calls')
    BY <2>1, <2>2 DEF Matches, Ordered
  <2>4. UpToDate(buffers[g].image[i], v)
    BY <2>1 DEF Matches
  <2>5. v.buf = local[g].buf /\ v.image = local[g].image
    BY <2>1 DEF Matches
  <2>6. ~(pc' = "swap" /\ g = fb')
    OBVIOUS
  <2>. QED
    BY <2>3, <2>4, <2>5, <2>6 DEF Matches
<1>. QED
  BY <1>1, <1>2 DEF Shows

\* Command m does to the view of a server what the call does to the client.
Carries(m) ==
  \A i \in Servers, g \in Handles, v \in Views :
    Shows(i, g, v) =>
      \E w \in Views :
        /\ [count |-> counters'[g], view |-> w]
             = After(g, calls + 1, [count |-> counters[g], view |-> v], m)
        /\ Shows(i, g, w)'

LEMMA SendsKeepsImages ==
  ASSUME Inv, Inv', Images, NEW m \in Commands, pc = "idle", calls' = calls + 1,
         Broadcast(m), UNCHANGED <<back, serverVars>>, pc' = "swap" => recv' = 0,
         LocalFollows', Carries(m)
  PROVE  Images'
<1>0. /\ counters' \in [Handles -> Nat] /\ chan \in [Servers -> Seq(Commands)]
      /\ executed \in [Servers -> Nat] /\ calls \in Nat
      /\ \A i \in Servers : executed[i] + Len(chan[i]) = calls
  BY DEF Inv, Types, ClientTypes, ChannelTypes, ServerTypes, Sent
<1>1. ASSUME NEW i \in Servers, serving[i], NEW h \in Handles
      PROVE  Follows(i, h)'
  <2>1. PICK v \in Views :
          /\ Path(h, executed[i], ViewAt(i, h), chan[i], [count |-> counters[h], view |-> v])
          /\ Shows(i, h, v)
    BY <1>1 DEF Images, Follows
  <2>2. PICK w \in Views :
          /\ [count |-> counters'[h], view |-> w]
               = After(h, calls + 1, [count |-> counters[h], view |-> v], m)
          /\ Shows(i, h, w)'
    BY <2>1 DEF Carries
  <2>3. [count |-> counters'[h], view |-> w] \in ViewStates
    BY <1>0 DEF ViewStates
  <2>4. chan[i] \in Seq(Commands) /\ executed[i] \in Nat /\ executed[i] + Len(chan[i]) + 1 = calls + 1
    BY <1>0
  <2>5. Path(h, executed[i], ViewAt(i, h), Append(chan[i], m), [count |-> counters'[h], view |-> w])
    BY <2>1, <2>2, <2>3, <2>4, PathFurther
  <2>6. chan'[i] = Append(chan[i], m) /\ executed'[i] = executed[i] /\ ViewAt(i, h)' = ViewAt(i, h)
    BY DEF Broadcast, serverVars, ViewAt
  <2>7. Path(h, executed'[i], ViewAt(i, h)', chan'[i], [count |-> counters'[h], view |-> w])
    BY <2>5, <2>6
  <2>. QED
    BY <2>2, <2>7 DEF Follows
<1>2. ASSUME NEW i \in Servers
      PROVE  Stopped(i)'
  <2>1. back'[i] = <<>>
    BY NothingAsked
  <2>2. pc' = "swap" => ~(recv' > i)
    BY DEF Servers
  <2>. QED
    BY <2>1, <2>2 DEF Stopped
<1>. QED
  BY <1>1, <1>2 DEF Images, serverVars

LEMMA IdleFollows ==
  ASSUME Images, pc = "idle"
  PROVE  /\ local \in [Handles -> LocalChains \cup {None}]
         /\ \A h \in Handles : buffers[h] # None =>
              local[h] \in LocalChains /\ local[h].buf = buffers[h].buf
  BY DEF Images, LocalFollows


LEMMA NewKeepsImages ==
  ASSUME Inv, Inv', Images, NEW kind \in Kinds, New(kind)
  PROVE  Images'
<1> DEFINE h == AllocHandle.id
           m == [cmd |-> "new", id |-> h, kind |-> kind]
           chain == [buf |-> 0, image |-> [i \in Servers |-> Blank]]
           fresh == [buf |-> 0, image |-> Blank]
<1>0. /\ ClientTypes /\ h \in Handles
      /\ pc = "idle" /\ pc' = "idle" /\ calls' = calls + 1 /\ calls \in Nat
      /\ counters' = [counters EXCEPT ![h] = 1] /\ buffers[h] = None
      /\ buffers' = (IF kind = "framebuffer" THEN [buffers EXCEPT ![h] = chain] ELSE buffers)
      /\ local' = (IF kind = "framebuffer" THEN [local EXCEPT ![h] = fresh] ELSE local)
      /\ Broadcast(m) /\ UNCHANGED <<back, serverVars>>
  <2>1. ClientTypes /\ InUse
    BY DEF Inv, Types
  <2>2. counters[h] = 0 /\ h \in Handles
    BY AllocatesFresh DEF New
  <2>. QED
    BY <2>1, <2>2 DEF New, Call, callVars, ClientTypes, InUse
<1>1. m \in Commands
  BY <1>0 DEF Commands
<1>2. /\ Blank \in [Buffers -> Pictures] /\ fresh \in LocalChains /\ NewView \in ServerChains
      /\ NewView.buf = 0 /\ NewView.image = Blank /\ NewView.readID = FirstRead
  BY DEF Blank, Buffers, Pictures, LocalChains, NewView, ServerChains, FirstRead
<1>3. chain # None
  <2>1. chain \in ClientChains
    BY <1>2 DEF ClientChains, Buffers
  <2>. QED
    BY <2>1, NoneAssumption
<1> HIDE DEF h
<1>4. /\ \A g \in Handles : g # h => counters'[g] = counters[g] /\ buffers'[g] = buffers[g]
                                     /\ local'[g] = local[g]
      /\ counters'[h] = 1
      /\ IF kind = "framebuffer" THEN buffers'[h] = chain /\ local'[h] = fresh
                                 ELSE buffers'[h] = None
  BY <1>0, IdleFollows DEF ClientTypes
<1>5. LocalFollows'
  <2>1. local' \in [Handles -> LocalChains \cup {None}]
    BY <1>0, <1>2, IdleFollows
  <2>2. ASSUME NEW g \in Handles, buffers'[g] # None
        PROVE  local'[g] \in LocalChains /\ local'[g].buf = buffers'[g].buf
    <3>1. CASE g = h
      BY <1>2, <1>4, <2>2, <3>1
    <3>2. CASE g # h
      BY <1>0, <1>4, <2>2, <3>2, IdleFollows
    <3>. QED
      BY <3>1, <3>2
  <2>. QED
    BY <1>0, <2>1, <2>2 DEF LocalFollows
<1>6. Carries(m)
  <2>. SUFFICES ASSUME NEW i \in Servers, NEW g \in Handles, NEW v \in Views, Shows(i, g, v)
                PROVE  \E w \in Views :
                         /\ [count |-> counters'[g], view |-> w]
                              = After(g, calls + 1, [count |-> counters[g], view |-> v], m)
                         /\ Shows(i, g, w)'
    BY DEF Carries
  <2>1. CASE g # h
    <3>1. Shows(i, g, v)'
      BY <1>0, <1>4, <2>1, ShowsOn
    <3>2. [count |-> counters'[g], view |-> v]
            = After(g, calls + 1, [count |-> counters[g], view |-> v], m)
      BY <1>4, <2>1 DEF After
    <3>. QED
      BY <3>1, <3>2
  <2>2. CASE g = h /\ kind = "framebuffer"
    <3>1. Matches(i, g, NewView)'
      <4>1. UpToDate(Blank, NewView) /\ Ordered(NewView, calls')
        BY <1>2 DEF UpToDate, Ordered
      <4>2. buffers'[g].image[i] = Blank /\ local'[g].buf = 0 /\ local'[g].image = Blank
        BY <1>4, <2>2
      <4>. QED
        BY <1>0, <1>2, <4>1, <4>2 DEF Matches, NewView
    <3>2. NewView # None /\ NewView \in Views
      BY <1>2, NoneAssumption DEF Views
    <3>3. Shows(i, g, NewView)'
      BY <1>3, <1>4, <2>2, <3>1, <3>2 DEF Shows, NewView
    <3>4. [count |-> counters'[g], view |-> NewView]
            = After(g, calls + 1, [count |-> counters[g], view |-> v], m)
      BY <1>4, <2>2 DEF After
    <3>. QED
      BY <3>2, <3>3, <3>4
  <2>3. CASE g = h /\ kind # "framebuffer"
    <3>1. Shows(i, g, None)'
      BY <1>4, <2>3 DEF Shows
    <3>2. [count |-> counters'[g], view |-> None]
            = After(g, calls + 1, [count |-> counters[g], view |-> v], m)
      BY <1>4, <2>3 DEF After
    <3>. QED
      BY <3>1, <3>2 DEF Views
  <2>. QED
    BY <2>1, <2>2, <2>3
<1>. QED
  BY <1>0, <1>1, <1>5, <1>6, SendsKeepsImages

LEMMA NewThrowsKeepsImages ==
  ASSUME Inv, Inv', Images, NewThrows
  PROVE  Images'
<1> DEFINE h == AllocHandle.id
           m == [cmd |-> "new", id |-> h, kind |-> "unknown"]
<1>0. /\ ClientTypes /\ h \in Handles
      /\ pc = "idle" /\ pc' = "idle" /\ calls' = calls + 1 /\ calls \in Nat
      /\ counters' = [counters EXCEPT ![h] = 1] /\ buffers[h] = None
      /\ UNCHANGED <<buffers, local>>
      /\ Broadcast(m) /\ UNCHANGED <<back, serverVars>>
  <2>1. ClientTypes /\ InUse
    BY DEF Inv, Types
  <2>2. counters[h] = 0 /\ h \in Handles
    BY AllocatesFresh DEF NewThrows
  <2>. QED
    BY <2>1, <2>2 DEF NewThrows, Call, callVars, ClientTypes, InUse
<1>1. m \in Commands
  BY <1>0 DEF Commands
<1> HIDE DEF h
<1>2. LocalFollows'
  BY <1>0, IdleFollows DEF LocalFollows
<1>3. Carries(m)
  <2>. SUFFICES ASSUME NEW i \in Servers, NEW g \in Handles, NEW v \in Views, Shows(i, g, v)
                PROVE  \E w \in Views :
                         /\ [count |-> counters'[g], view |-> w]
                              = After(g, calls + 1, [count |-> counters[g], view |-> v], m)
                         /\ Shows(i, g, w)'
    BY DEF Carries
  <2>1. CASE g # h
    <3>1. Shows(i, g, v)'
      BY <1>0, <2>1, ShowsOn
    <3>2. counters'[g] = counters[g]
      BY <1>0, <2>1 DEF ClientTypes
    <3>3. [count |-> counters'[g], view |-> v]
            = After(g, calls + 1, [count |-> counters[g], view |-> v], m)
      BY <2>1, <3>2 DEF After
    <3>. QED
      BY <3>1, <3>3
  <2>2. CASE g = h
    <3>1. Shows(i, g, None)'
      BY <1>0, <2>2 DEF Shows
    <3>2. counters'[g] = 1
      BY <1>0, <2>2 DEF ClientTypes
    <3>3. [count |-> counters'[g], view |-> None]
            = After(g, calls + 1, [count |-> counters[g], view |-> v], m)
      BY <2>2, <3>2 DEF After
    <3>. QED
      BY <3>1, <3>3 DEF Views
  <2>. QED
    BY <2>1, <2>2
<1>. QED
  BY <1>0, <1>1, <1>2, <1>3, SendsKeepsImages

\* The calls that leave the swap chains as they are.
LEMMA MentionKeepsImages ==
  ASSUME Inv, Inv', Images, NEW h \in Held, NEW c \in {"incref", "use"},
         pc = "idle", calls' = calls + 1, Broadcast(Command(c, h)),
         counters' = IF c = "incref" THEN [counters EXCEPT ![h] = @ + 1] ELSE counters,
         UNCHANGED <<buffers, local, pc, back, serverVars>>
  PROVE  Images'
<1> DEFINE m == Command(c, h)
<1>0. /\ m \in Commands /\ m.cmd = c /\ m.id = h /\ h \in Handles
      /\ counters \in [Handles -> Nat] /\ calls \in Nat
  BY CommandOfHeld DEF Held, Inv, Types, ClientTypes
<1> HIDE DEF m
<1>1. LocalFollows'
  BY IdleFollows DEF LocalFollows
<1>2. Carries(m)
  <2>. SUFFICES ASSUME NEW i \in Servers, NEW g \in Handles, NEW v \in Views, Shows(i, g, v)
                PROVE  /\ [count |-> counters'[g], view |-> v]
                            = After(g, calls + 1, [count |-> counters[g], view |-> v], m)
                       /\ Shows(i, g, v)'
    BY DEF Carries
  <2>1. Shows(i, g, v)'
    BY <1>0, ShowsOn
  <2>2. [count |-> counters'[g], view |-> v]
          = After(g, calls + 1, [count |-> counters[g], view |-> v], m)
    BY <1>0 DEF After
  <2>. QED
    BY <2>1, <2>2
<1>3. Broadcast(m)
  BY DEF m
<1>. QED
  BY <1>0, <1>1, <1>2, <1>3, SendsKeepsImages

LEMMA DecRefKeepsImages ==
  ASSUME Inv, Inv', Images, NEW h \in Handles, DecRef(h)
  PROVE  Images'
<1> DEFINE m == Command("decref", h)
<1>0. /\ ClientTypes /\ h \in Held /\ pc = "idle" /\ pc' = "idle"
      /\ calls' = calls + 1 /\ calls \in Nat
      /\ counters' = [counters EXCEPT ![h] = @ - 1]
      /\ buffers' = (IF Freed(h) THEN [buffers EXCEPT ![h] = None] ELSE buffers)
      /\ local' = (IF Freed(h) THEN [local EXCEPT ![h] = None] ELSE local)
      /\ Broadcast(m) /\ UNCHANGED <<back, serverVars>>
  BY DEF DecRef, Inv, Types, ClientTypes, Call, callVars
<1>1. m \in Commands /\ m.cmd = "decref" /\ m.id = h
  BY <1>0, CommandOfHeld
<1> HIDE DEF m
<1>2. /\ \A g \in Handles : g # h => counters'[g] = counters[g] /\ buffers'[g] = buffers[g]
                                     /\ local'[g] = local[g]
      /\ counters'[h] = counters[h] - 1
      /\ IF counters[h] = 1 THEN buffers'[h] = None
                            ELSE buffers'[h] = buffers[h] /\ local'[h] = local[h]
  BY <1>0, IdleFollows DEF ClientTypes, Freed
<1>3. LocalFollows'
  <2>1. local' \in [Handles -> LocalChains \cup {None}]
    BY <1>0, IdleFollows
  <2>2. ASSUME NEW g \in Handles, buffers'[g] # None
        PROVE  local'[g] \in LocalChains /\ local'[g].buf = buffers'[g].buf
    BY <1>0, <1>2, <2>2, IdleFollows
  <2>. QED
    BY <1>0, <2>1, <2>2 DEF LocalFollows
<1>4. Carries(m)
  <2>. SUFFICES ASSUME NEW i \in Servers, NEW g \in Handles, NEW v \in Views, Shows(i, g, v)
                PROVE  \E w \in Views :
                         /\ [count |-> counters'[g], view |-> w]
                              = After(g, calls + 1, [count |-> counters[g], view |-> v], m)
                         /\ Shows(i, g, w)'
    BY DEF Carries
  <2>1. CASE g # h \/ counters[h] # 1
    <3>1. Shows(i, g, v)'
      BY <1>0, <1>2, <2>1, ShowsOn
    <3>2. [count |-> counters'[g], view |-> v]
            = After(g, calls + 1, [count |-> counters[g], view |-> v], m)
      BY <1>1, <1>2, <2>1 DEF After
    <3>. QED
      BY <3>1, <3>2
  <2>2. CASE g = h /\ counters[h] = 1
    <3>1. Shows(i, g, None)'
      BY <1>2, <2>2 DEF Shows
    <3>2. [count |-> counters'[g], view |-> None]
            = After(g, calls + 1, [count |-> counters[g], view |-> v], m)
      BY <1>1, <1>2, <2>2 DEF After
    <3>. QED
      BY <3>1, <3>2 DEF Views
  <2>. QED
    BY <2>1, <2>2
<1>. QED
  BY <1>0, <1>1, <1>3, <1>4, SendsKeepsImages

LEMMA RenderKeepsImages ==
  ASSUME Inv, Inv', Images, NEW h \in Handles, RenderFrame(h)
  PROVE  Images'
<1> DEFINE m == Command("render", h)
<1>0. /\ ClientTypes /\ h \in Held /\ buffers[h] # None /\ pc = "idle" /\ pc' = "idle"
      /\ calls' = calls + 1 /\ calls \in Nat /\ calls' \in Pictures
      /\ local' = [local EXCEPT ![h].image[local[h].buf] = calls + 1]
      /\ Broadcast(m) /\ UNCHANGED <<counters, buffers, back, serverVars>>
  BY DEF RenderFrame, Chains, Inv, Types, ClientTypes, Call, callVars, handleVars, Pictures
<1>1. m \in Commands /\ m.cmd = "render" /\ m.id = h
  BY <1>0, CommandOfHeld
<1> HIDE DEF m
<1>2. PICK old \in LocalChains : old = local[h] /\ old.buf = buffers[h].buf
  BY <1>0, IdleFollows
<1> DEFINE new == [old EXCEPT !.image[old.buf] = calls + 1]
<1>3. /\ new \in LocalChains /\ new.buf = old.buf
      /\ new.image = [old.image EXCEPT ![old.buf] = calls + 1]
  BY <1>0, <1>2 DEF LocalChains
<1>4. local' = [local EXCEPT ![h] = new]
  BY <1>0, <1>2
<1> HIDE DEF new
<1>5. local'[h] = new /\ \A g \in Handles : g # h => local'[g] = local[g]
  BY <1>0, <1>4, IdleFollows
<1>6. LocalFollows'
  <2>1. local' \in [Handles -> LocalChains \cup {None}]
    BY <1>0, <1>3, <1>4, IdleFollows
  <2>2. ASSUME NEW g \in Handles, buffers'[g] # None
        PROVE  local'[g] \in LocalChains /\ local'[g].buf = buffers'[g].buf
    BY <1>0, <1>2, <1>3, <1>5, <2>2, IdleFollows
  <2>. QED
    BY <1>0, <2>1, <2>2 DEF LocalFollows
<1>7. Carries(m)
  <2>. SUFFICES ASSUME NEW i \in Servers, NEW g \in Handles, NEW v \in Views, Shows(i, g, v)
                PROVE  \E w \in Views :
                         /\ [count |-> counters'[g], view |-> w]
                              = After(g, calls + 1, [count |-> counters[g], view |-> v], m)
                         /\ Shows(i, g, w)'
    BY DEF Carries
  <2>1. CASE g # h
    <3>1. Shows(i, g, v)'
      BY <1>0, <1>5, <2>1, ShowsOn
    <3>2. [count |-> counters'[g], view |-> v]
            = After(g, calls + 1, [count |-> counters[g], view |-> v], m)
      BY <1>0, <1>1, <2>1 DEF After
    <3>. QED
      BY <3>1, <3>2
  <2>2. CASE g = h
    <3>1. v \in ServerChains /\ Matches(i, h, v)
      BY <1>0, <2>2 DEF Shows, Views
    <3>2. /\ v.buf = old.buf /\ v.image = old.image /\ Ordered(v, calls)
          /\ UpToDate(buffers[h].image[i], v) /\ v.readID \in Nat
      BY <1>0, <1>2, <3>1, ChainForm DEF Matches
    <3>3. PICK w \in ServerChains :
            /\ w = Drawn(v, calls + 1) /\ w.buf = v.buf /\ w.readID = v.readID
            /\ w.image = [v.image EXCEPT ![v.buf] = calls + 1]
      <4> DEFINE d == Drawn(v, calls + 1)
      <4>1. /\ d \in ServerChains /\ d.buf = v.buf /\ d.readID = v.readID
            /\ d.image = [v.image EXCEPT ![v.buf] = calls + 1]
        BY <1>0, <3>1 DEF Drawn, ServerChains
      <4> HIDE DEF d
      <4>2. d = Drawn(v, calls + 1)
        BY DEF d
      <4>. QED
        BY <4>1, <4>2
    <3>4. [count |-> counters'[h], view |-> w]
            = After(h, calls + 1, [count |-> counters[h], view |-> v], m)
      BY <1>0, <1>1, <3>3 DEF After
    <3>5. Ordered(w, calls')
      BY <1>0, <3>2, <3>3 DEF Ordered
    <3>6. UpToDate(buffers[h].image[i], w)
      <4>1. \A b \in Buffers : b # v.buf => w.image[b] = v.image[b]
        BY <3>1, <3>3, ChainForm
      <4>. QED
        BY <3>2, <3>3, <4>1 DEF UpToDate
    <3>7. Matches(i, h, w)'
      BY <1>0, <1>3, <1>5, <3>2, <3>3, <3>5, <3>6 DEF Matches
    <3>8. w # None /\ w \in Views
      BY <3>3, NoneAssumption DEF Views
    <3>. QED
      BY <1>0, <2>2, <3>4, <3>7, <3>8 DEF Shows
  <2>. QED
    BY <2>1, <2>2
<1>. QED
  BY <1>0, <1>1, <1>6, <1>7, SendsKeepsImages

LEMMA SwapKeepsImages ==
  ASSUME Inv, Inv', Images, NEW h \in Handles, SwapBuffers(h)
  PROVE  Images'
<1> DEFINE m == Command("swap", h)
<1>0. /\ ClientTypes /\ h \in Held /\ buffers[h] # None /\ pc = "idle"
      /\ pc' = "swap" /\ recv' = 0 /\ fb' = h
      /\ calls' = calls + 1 /\ calls \in 0 .. MaxCalls - 1 /\ calls \in Nat
      /\ local' = [local EXCEPT ![h].buf = (@ + 1) % Depth]
      /\ Broadcast(m) /\ UNCHANGED <<counters, buffers, back, serverVars>>
  BY DEF SwapBuffers, Chains, Inv, Types, ClientTypes, Call, handleVars
<1>1. m \in Commands /\ m.cmd = "swap" /\ m.id = h
  BY <1>0, CommandOfHeld
<1> HIDE DEF m
<1>2. PICK old \in LocalChains : old = local[h] /\ old.buf = buffers[h].buf
  BY <1>0, IdleFollows
<1> DEFINE new == [old EXCEPT !.buf = (old.buf + 1) % Depth]
<1>3. new \in LocalChains /\ new.buf = (old.buf + 1) % Depth /\ new.image = old.image
  <2>1. PICK x \in Buffers : x = old.buf
    BY DEF LocalChains
  <2>2. (x + 1) % Depth \in Buffers
    BY DEF Buffers
  <2>. QED
    BY <2>1, <2>2 DEF LocalChains
<1>4. local' = [local EXCEPT ![h] = new]
  BY <1>0, <1>2
<1> HIDE DEF new
<1>5. local'[h] = new /\ \A g \in Handles : g # h => local'[g] = local[g]
  BY <1>0, <1>4, IdleFollows
<1>6. LocalFollows'
  <2>1. local' \in [Handles -> LocalChains \cup {None}]
    BY <1>0, <1>3, <1>4, IdleFollows
  <2>2. ASSUME NEW g \in Handles, buffers'[g] # None
        PROVE  /\ local'[g] \in LocalChains
               /\ local'[g].buf = IF g = h THEN (buffers'[g].buf + 1) % Depth ELSE buffers'[g].buf
    BY <1>0, <1>2, <1>3, <1>5, <2>2, IdleFollows
  <2>. QED
    BY <1>0, <2>1, <2>2 DEF LocalFollows
<1>7. Carries(m)
  <2>. SUFFICES ASSUME NEW i \in Servers, NEW g \in Handles, NEW v \in Views, Shows(i, g, v)
                PROVE  \E w \in Views :
                         /\ [count |-> counters'[g], view |-> w]
                              = After(g, calls + 1, [count |-> counters[g], view |-> v], m)
                         /\ Shows(i, g, w)'
    BY DEF Carries
  <2>1. CASE g # h
    <3>1. Shows(i, g, v)'
      BY <1>0, <1>5, <2>1, ShowsOn
    <3>2. [count |-> counters'[g], view |-> v]
            = After(g, calls + 1, [count |-> counters[g], view |-> v], m)
      BY <1>0, <1>1, <2>1 DEF After
    <3>. QED
      BY <3>1, <3>2
  <2>2. CASE g = h
    <3>1. v \in ServerChains /\ Matches(i, h, v)
      BY <1>0, <2>2 DEF Shows, Views
    <3>2. /\ v.buf = old.buf /\ v.image = old.image /\ Ordered(v, calls)
          /\ UpToDate(buffers[h].image[i], v)
      BY <1>0, <1>2, <3>1 DEF Matches
    <3> DEFINE w == Swapped(v)
    <3>3. /\ w \in ServerChains /\ w.buf = (v.buf + 1) % Depth /\ w.image = v.image
          /\ Ordered(w, calls + 1)
      BY <1>0, <3>1, <3>2, SwappedForm
    <3>4. [count |-> counters'[h], view |-> w]
            = After(h, calls + 1, [count |-> counters[h], view |-> v], m)
      BY <1>0, <1>1 DEF After
    <3>5. Awaiting(buffers[h].image[i], w)
      BY <1>0, <3>1, <3>2, AwaitsSwapped
    <3> HIDE DEF w
    <3>6. back'[i] = <<>> /\ ~(recv' > i)
      BY <1>0, NothingAsked DEF Servers
    <3>7. Matches(i, h, w)'
      BY <1>0, <1>3, <1>5, <3>2, <3>3, <3>5, <3>6 DEF Matches, OnItsWay
    <3>8. w # None /\ w \in Views
      BY <3>3, NoneAssumption DEF Views
    <3>. QED
      BY <1>0, <2>2, <3>4, <3>7, <3>8 DEF Shows
  <2>. QED
    BY <2>1, <2>2
<1>. QED
  BY <1>0, <1>1, <1>6, <1>7, SendsKeepsImages


\* What a view shows does not change with the commands of a server.
LEMMA ShowsUnchanged ==
  ASSUME UNCHANGED <<calls, buffers, local, pc, recv, fb>>,
         NEW i, NEW h, NEW v, back'[i] = back[i]
  PROVE  (Shows(i, h, v)' <=> Shows(i, h, v)) /\ (Matches(i, h, v)' <=> Matches(i, h, v))
  BY DEF Shows, Matches, OnItsWay, Ordered, UpToDate, Awaiting, Complete

LEMMA FollowsUnchanged ==
  ASSUME UNCHANGED counters, NEW i, NEW h, Follows(i, h),
         chan'[i] = chan[i], executed'[i] = executed[i], ViewAt(i, h)' = ViewAt(i, h),
         \A v \in Views : Shows(i, h, v) => Shows(i, h, v)'
  PROVE  Follows(i, h)'
<1>1. PICK v \in Views :
        /\ Path(h, executed[i], ViewAt(i, h), chan[i], [count |-> counters[h], view |-> v])
        /\ Shows(i, h, v)
  BY DEF Follows
<1>2. Path(h, executed'[i], ViewAt(i, h)', chan'[i], [count |-> counters'[h], view |-> v])
  BY <1>1
<1>. QED
  BY <1>1, <1>2 DEF Follows

LEMMA PickKeepsImages ==
  ASSUME Inv, Inv', Images, NEW h \in Handles, Pick(h)
  PROVE  Images'
<1> DEFINE m == Command("pick", h)
<1>0. /\ chan \in [Servers -> Seq(Commands)] /\ executed \in [Servers -> Nat] /\ 0 \in Servers
      /\ h \in Held /\ pc = "idle" /\ pc' = "pick"
      /\ calls' = calls + 1 /\ calls \in Nat
      /\ chan' = [chan EXCEPT ![0] = Append(@, m)]
      /\ UNCHANGED <<fb, counters, buffers, local, back, serverVars>>
  <2>1. /\ chan \in [Servers -> Seq(Commands)] /\ executed \in [Servers -> Nat]
        /\ calls \in 0 .. MaxCalls
    BY DEF Inv, Types, ClientTypes, ChannelTypes, ServerTypes
  <2>2. 0 \in Servers /\ calls \in Nat
    BY <2>1 DEF Servers
  <2>. QED
    BY <2>1, <2>2 DEF Pick, Call, handleVars
<1>1. m \in Commands /\ m.cmd = "pick" /\ m.id = h
  BY <1>0, CommandOfHeld
<1> HIDE DEF m
<1>2. ASSUME NEW i \in Servers, NEW g \in Handles, NEW v \in Views, Shows(i, g, v)
      PROVE  Shows(i, g, v)'
  <2>1. v = None <=> buffers'[g] = None
    BY <1>0, <1>2 DEF Shows
  <2>2. ASSUME buffers[g] # None PROVE Matches(i, g, v)'
    <3>1. v \in ServerChains /\ Matches(i, g, v)
      BY <1>2, <2>2 DEF Shows, Views
    <3>2. v.readID \in Nat
      BY <3>1, ChainForm
    <3>3. Ordered(v, calls')
      BY <1>0, <3>1, <3>2 DEF Matches, Ordered
    <3>. QED
      BY <1>0, <3>1, <3>3 DEF Matches
  <2>. QED
    BY <1>0, <2>1, <2>2 DEF Shows
<1>3. LocalFollows'
  BY <1>0, IdleFollows DEF LocalFollows
<1>4. ASSUME NEW i \in Servers, serving[i], NEW g \in Handles
      PROVE  Follows(i, g)'
  <2>1. Follows(i, g) /\ executed'[i] = executed[i] /\ ViewAt(i, g)' = ViewAt(i, g)
    BY <1>0, <1>4 DEF Images, ViewAt, serverVars
  <2>2. CASE i # 0
    <3>1. chan'[i] = chan[i]
      BY <1>0, <2>2
    <3>. QED
      BY <1>0, <1>2, <2>1, <3>1, FollowsUnchanged
  <2>3. CASE i = 0
    <3>1. PICK v \in Views :
            /\ Path(g, executed[0], ViewAt(0, g), chan[0], [count |-> counters[g], view |-> v])
            /\ Shows(0, g, v)
      BY <2>1, <2>3 DEF Follows
    <3>2. chan[0] \in Seq(Commands) /\ executed[0] \in Nat /\ Len(chan[0]) \in Nat
      BY <1>0
    <3> DEFINE s == [count |-> counters[g], view |-> v]
    <3>3. s \in ViewStates
      BY <3>1, <3>2, PathEnds
    <3>4. s = After(g, executed[0] + Len(chan[0]) + 1, s, m)
      BY <1>1 DEF After
    <3> HIDE DEF s
    <3>5. Path(g, executed[0], ViewAt(0, g), chan[0], s)
      BY <3>1 DEF s
    <3>6. Path(g, executed[0], ViewAt(0, g), Append(chan[0], m), s)
      BY <1>1, <3>2, <3>3, <3>4, <3>5, PathFurther
    <3>7. chan'[0] = Append(chan[0], m)
      BY <1>0
    <3>8. Path(g, executed'[0], ViewAt(0, g)', chan'[0], [count |-> counters'[g], view |-> v])
      BY <1>0, <2>1, <2>3, <3>6, <3>7 DEF s
    <3>9. Shows(0, g, v)'
      BY <1>2, <2>3, <3>1
    <3>. QED
      BY <2>3, <3>8, <3>9 DEF Follows
  <2>. QED
    BY <2>2, <2>3
<1>5. \A i \in Servers : Stopped(i)'
  BY <1>0 DEF Stopped
<1>. QED
  BY <1>0, <1>3, <1>4, <1>5 DEF Images, serverVars

LEMMA CloseKeepsImages ==
  ASSUME Inv, Inv', Images, Close
  PROVE  Images'
<1>0. /\ pc = "idle" /\ pc' = "closed"
      /\ UNCHANGED <<calls, counters, buffers, recv, fb, local, chan, back, serverVars>>
  BY DEF Close, handleVars
<1>1. LocalFollows'
  BY <1>0, IdleFollows DEF LocalFollows
<1>2. ASSUME NEW i \in Servers, NEW g \in Handles, NEW v \in Views, Shows(i, g, v)
      PROVE  Shows(i, g, v)'
  BY <1>0, <1>2 DEF Shows, Matches, Ordered, UpToDate
<1>3. ASSUME NEW i \in Servers, serving[i], NEW g \in Handles
      PROVE  Follows(i, g)'
  BY <1>0, <1>2, <1>3, FollowsUnchanged DEF Images, ViewAt, serverVars
<1>4. \A i \in Servers : Stopped(i)'
  BY <1>0 DEF Stopped
<1>. QED
  BY <1>0, <1>1, <1>3, <1>4 DEF Images, serverVars

-----------------------------------------------------------------------------
(* Frames arrive.                                                          *)

\* The frame a server has sent goes where the client needs it.
LEMMA ReceiveMatches ==
  ASSUME Inv, ReceiveCommand, NEW k \in Servers, NEW h \in Handles, NEW c \in ServerChains,
         buffers[h] # None, Matches(k, h, c)
  PROVE  Matches(k, h, c)'
<1> DEFINE i == recv
           p == Head(back[i])
           rows == buffers[h].image[k]
<1>0. /\ i \in Servers /\ i \in Nat /\ k \in Nat /\ back[i] # <<>>
      /\ back' = [back EXCEPT ![i] = Tail(@)] /\ back \in [Servers -> Seq(Packets)]
      /\ buffers' = IF p.cmd = "frame"
                    THEN [buffers EXCEPT ![p.id].image[i][p.buf] = p.picture]
                    ELSE buffers
      /\ recv' = i + 1
      /\ buffers \in [Handles -> ClientChains \cup {None}] /\ buffers[h] \in ClientChains
      /\ UNCHANGED <<calls, pc, fb, local>>
  <2>1. /\ back \in [Servers -> Seq(Packets)] /\ recv \in 0 .. NumServers /\ k \in Nat
        /\ buffers \in [Handles -> ClientChains \cup {None}] /\ buffers[h] \in ClientChains
    BY DEF Inv, Types, ClientTypes, ChannelTypes, Servers
  <2>2. /\ i < NumServers /\ back[i] # <<>> /\ back' = [back EXCEPT ![i] = Tail(@)]
        /\ buffers' = IF p.cmd = "frame"
                      THEN [buffers EXCEPT ![p.id].image[i][p.buf] = p.picture]
                      ELSE buffers
        /\ recv' = i + 1 /\ UNCHANGED <<calls, pc, fb, local>>
    BY DEF ReceiveCommand
  <2>3. i \in Servers /\ i \in Nat
    BY <2>1, <2>2 DEF Servers
  <2>. QED
    BY <2>1, <2>2, <2>3
<1>1. p.cmd = "frame" => pc = "swap" /\ p.id = fb /\ fb \in Handles
  BY <1>0 DEF Inv, Answers
<1>2. p \in Packets
  BY <1>0
<1>3. rows \in [Buffers -> Pictures]
  BY <1>0 DEF ClientChains
<1> HIDE DEF p
<1>4. /\ c.buf = local'[h].buf /\ c.image = local'[h].image /\ Ordered(c, calls')
  BY <1>0 DEF Matches
<1>5. CASE ~(pc = "swap" /\ h = fb)
  <2>1. buffers'[h] = buffers[h]
    BY <1>0, <1>1, <1>5
  <2>2. UpToDate(buffers[h].image[k], c)
    BY <1>5 DEF Matches
  <2>. QED
    BY <1>0, <1>4, <1>5, <2>1, <2>2 DEF Matches
<1>6. CASE pc = "swap" /\ h = fb /\ k # i
  <2>1. buffers'[h].image[k] = buffers[h].image[k]
    BY <1>0, <1>1, <1>6 DEF ClientChains
  <2>2. recv' > k <=> recv > k
    BY <1>0, <1>6
  <2>3. back'[k] = back[k]
    BY <1>0, <1>6
  <2>. QED
    BY <1>0, <1>4, <1>6, <2>1, <2>2, <2>3 DEF Matches, OnItsWay
<1>7. CASE pc = "swap" /\ h = fb /\ k = i
  <2>1. Awaiting(rows, c) /\ OnItsWay(i, c)
    BY <1>0, <1>7 DEF Matches
  <2>2. p.cmd = "frame" /\ p.buf = PrevRead(c.readID) % Depth /\ p.picture = c.image[p.buf]
    BY <1>0, <2>1 DEF OnItsWay, p
  <2>3. PICK b \in Buffers : b = p.buf
    BY <1>2, <2>2 DEF Packets
  <2>4. Complete([rows EXCEPT ![b] = c.image[b]], c)
    BY <1>3, <2>1, <2>2, <2>3, CompletedByFrame
  <2>5. buffers'[h].image[i] = [rows EXCEPT ![b] = c.image[b]]
    <3>1. buffers' = [buffers EXCEPT ![h].image[i][b] = c.image[b]]
      BY <1>0, <1>1, <1>7, <2>2, <2>3
    <3>2. buffers'[h] = [buffers[h] EXCEPT !.image[i][b] = c.image[b]]
      BY <1>0, <3>1
    <3>3. PICK old \in ClientChains : old = buffers[h] /\ rows = old.image[i]
      BY <1>0, <1>7
    <3>4. old.image \in [Servers -> [Buffers -> Pictures]]
      BY DEF ClientChains
    <3>5. [old EXCEPT !.image[i][b] = c.image[b]].image
            = [old.image EXCEPT ![i][b] = c.image[b]]
      BY DEF ClientChains
    <3>6. [old.image EXCEPT ![i][b] = c.image[b]][i] = [old.image[i] EXCEPT ![b] = c.image[b]]
      BY <1>0, <3>4
    <3>. QED
      BY <3>2, <3>3, <3>5, <3>6
  <2>6. recv' > k
    BY <1>0, <1>7
  <2>. QED
    BY <1>0, <1>4, <1>7, <2>4, <2>5, <2>6 DEF Matches
<1>. QED
  BY <1>5, <1>6, <1>7

LEMMA ReceiveKeepsImages ==
  ASSUME Inv, Inv', Images, ReceiveCommand
  PROVE  Images'
<1> DEFINE i == recv
           p == Head(back[i])
<1>0. /\ i \in Servers /\ i \in Nat /\ back[i] # <<>>
      /\ back' = [back EXCEPT ![i] = Tail(@)] /\ back \in [Servers -> Seq(Packets)]
      /\ buffers' = IF p.cmd = "frame"
                    THEN [buffers EXCEPT ![p.id].image[i][p.buf] = p.picture]
                    ELSE buffers
      /\ recv' = i + 1
      /\ buffers \in [Handles -> ClientChains \cup {None}]
      /\ pc = "swap" => fb \in Handles /\ buffers[fb] # None /\ buffers'[fb] # None
      /\ UNCHANGED <<calls, counters, pc, fb, local, chan, serverVars>>
  <2>1. /\ back \in [Servers -> Seq(Packets)] /\ recv \in 0 .. NumServers
        /\ buffers \in [Handles -> ClientChains \cup {None}]
    BY DEF Inv, Types, ClientTypes, ChannelTypes
  <2>2. /\ i < NumServers /\ back[i] # <<>> /\ back' = [back EXCEPT ![i] = Tail(@)]
        /\ buffers' = IF p.cmd = "frame"
                      THEN [buffers EXCEPT ![p.id].image[i][p.buf] = p.picture]
                      ELSE buffers
        /\ recv' = i + 1
        /\ UNCHANGED <<calls, counters, pc, fb, local, chan, serverVars>>
    BY DEF ReceiveCommand, handleVars
  <2>3. i \in Servers /\ i \in Nat
    BY <2>1, <2>2 DEF Servers
  <2>4. pc = "swap" => fb \in Handles /\ buffers[fb] # None /\ buffers'[fb] # None
    BY <2>2 DEF Inv, Answers
  <2>. QED
    BY <2>1, <2>2, <2>3, <2>4
<1>0a. p.cmd = "frame" => pc = "swap" /\ p.id = fb
  BY <1>0 DEF Inv, Answers
<1> HIDE DEF p
<1>1. ASSUME NEW h \in Handles
      PROVE  /\ buffers'[h] = None <=> buffers[h] = None
             /\ buffers[h] # None => buffers'[h].buf = buffers[h].buf
  <2>1. CASE p.cmd = "frame" /\ h = fb
    <3>1. buffers'[h] = [buffers[h] EXCEPT !.image[i][p.buf] = p.picture]
      BY <1>0, <1>0a, <2>1
    <3>2. buffers[h] \in ClientChains
      BY <1>0, <1>0a, <2>1
    <3>. QED
      BY <1>0, <1>0a, <2>1, <3>1, <3>2 DEF ClientChains
  <2>2. CASE ~(p.cmd = "frame" /\ h = fb)
    BY <1>0, <1>0a, <2>2
  <2>. QED
    BY <2>1, <2>2
<1>2. LocalFollows'
  BY <1>0, <1>1 DEF Images, LocalFollows
<1>3. ASSUME NEW k \in Servers, NEW h \in Handles, NEW v \in Views, Shows(k, h, v)
      PROVE  Shows(k, h, v)'
  <2>1. v = None <=> buffers'[h] = None
    BY <1>1, <1>3 DEF Shows
  <2>2. ASSUME buffers[h] # None PROVE Matches(k, h, v)'
    <3>1. v \in ServerChains /\ Matches(k, h, v)
      BY <1>3, <2>2 DEF Shows, Views
    <3>. QED
      BY <2>2, <3>1, ReceiveMatches
  <2>. QED
    BY <1>1, <2>1, <2>2 DEF Shows
<1>4. ASSUME NEW k \in Servers, serving[k], NEW h \in Handles
      PROVE  Follows(k, h)'
  BY <1>0, <1>3, <1>4, FollowsUnchanged DEF Images, ViewAt, serverVars
<1>5. ASSUME NEW k \in Servers, ~serving[k], pc' = "swap", recv' > k \/ back'[k] # <<>>
      PROVE  \E c \in ServerChains : Matches(k, fb, c)'
  <2>1. recv > k \/ back[k] # <<>>
    <3>1. CASE k = i
      BY <1>0, <3>1
    <3>2. CASE k # i
      <4>1. back'[k] = back[k]
        BY <1>0, <3>2
      <4>2. recv' > k => recv > k
        <5>1. k \in Int /\ i \in Int /\ recv' = i + 1
          BY <1>0 DEF Servers
        <5>. QED
          BY <3>2, <5>1
      <4>. QED
        BY <1>5, <4>1, <4>2
    <3>. QED
      BY <3>1, <3>2
  <2>2. Stopped(k) /\ pc = "swap"
    BY <1>0, <1>5 DEF Images
  <2>3. PICK c \in ServerChains : Matches(k, fb, c)
    BY <2>1, <2>2 DEF Stopped
  <2>4. Matches(k, fb, c)'
    BY <1>0, <2>2, <2>3, ReceiveMatches
  <2>. QED
    BY <2>4
<1>. QED
  BY <1>0, <1>2, <1>4, <1>5 DEF Images, Stopped, serverVars


LEMMA ReturnKeepsImages ==
  ASSUME Inv, Inv', Images, Return
  PROVE  Images'
<1>0. /\ pc \in {"swap", "pick"} /\ pc' = "idle" /\ recv = NumServers
      /\ buffers' = IF pc = "swap" THEN [buffers EXCEPT ![fb].buf = (@ + 1) % Depth]
                                   ELSE buffers
      /\ pc = "swap" => fb \in Handles /\ buffers[fb] # None
      /\ buffers \in [Handles -> ClientChains \cup {None}]
      /\ buffers' \in [Handles -> ClientChains \cup {None}]
      /\ UNCHANGED <<calls, counters, local, chan, back, serverVars>>
  <2>1. /\ buffers \in [Handles -> ClientChains \cup {None}]
        /\ buffers' \in [Handles -> ClientChains \cup {None}]
        /\ pc = "swap" => fb \in Handles /\ buffers[fb] # None
    BY DEF Inv, Types, ClientTypes, Answers
  <2>. QED
    BY <2>1 DEF Return, handleVars
<1>1. ASSUME NEW h \in Handles
      PROVE  /\ buffers'[h] = None <=> buffers[h] = None
             /\ buffers[h] # None =>
                  /\ buffers'[h].image = buffers[h].image
                  /\ buffers'[h].buf = IF pc = "swap" /\ h = fb THEN (buffers[h].buf + 1) % Depth
                                                                ELSE buffers[h].buf
  <2>1. CASE pc = "swap" /\ h = fb
    <3>1. PICK old \in ClientChains : old = buffers[h]
      BY <1>0, <2>1
    <3> DEFINE new == [old EXCEPT !.buf = (old.buf + 1) % Depth]
    <3>2. buffers'[h] = new
      BY <1>0, <2>1, <3>1
    <3>3. new.image = old.image /\ new.buf = (old.buf + 1) % Depth
      BY DEF ClientChains
    <3>4. new \in ClientChains
      <4>1. PICK x \in Buffers : x = old.buf
        BY DEF ClientChains
      <4>2. (x + 1) % Depth \in Buffers
        BY DEF Buffers
      <4>. QED
        BY <4>1, <4>2 DEF ClientChains
    <3> HIDE DEF new
    <3>5. new # None /\ buffers[h] # None
      BY <1>0, <2>1, <3>4, NoneAssumption
    <3>. QED
      BY <2>1, <3>1, <3>2, <3>3, <3>5
  <2>2. CASE ~(pc = "swap" /\ h = fb)
    BY <1>0, <2>2
  <2>. QED
    BY <2>1, <2>2
<1>2. LocalFollows'
  BY <1>0, <1>1 DEF Images, LocalFollows
<1>3. ASSUME NEW i \in Servers, NEW h \in Handles, NEW v \in Views, Shows(i, h, v)
      PROVE  Shows(i, h, v)'
  <2>1. v = None <=> buffers'[h] = None
    BY <1>1, <1>3 DEF Shows
  <2>2. ASSUME buffers[h] # None PROVE Matches(i, h, v)'
    <3>1. Matches(i, h, v)
      BY <1>3, <2>2 DEF Shows
    <3>2. UpToDate(buffers[h].image[i], v)
      <4>1. recv > i
        BY <1>0 DEF Servers
      <4>. QED
        BY <3>1, <4>1, CompleteIsUpToDate DEF Matches
    <3>3. v.buf = local'[h].buf /\ v.image = local'[h].image /\ Ordered(v, calls')
      BY <1>0, <3>1 DEF Matches
    <3>4. UpToDate(buffers'[h].image[i], v)
      BY <1>1, <2>2, <3>2
    <3>. QED
      BY <1>0, <3>3, <3>4 DEF Matches
  <2>. QED
    BY <1>1, <2>1, <2>2 DEF Shows
<1>4. ASSUME NEW i \in Servers, serving[i], NEW h \in Handles
      PROVE  Follows(i, h)'
  BY <1>0, <1>3, <1>4, FollowsUnchanged DEF Images, ViewAt, serverVars
<1>5. \A i \in Servers : Stopped(i)'
  BY <1>0 DEF Stopped
<1>. QED
  BY <1>0, <1>2, <1>4, <1>5 DEF Images, serverVars

\* The view of every server the client waits for, or has heard of.
LEMMA ViewOfSwap ==
  ASSUME Inv, Images, pc = "swap", NEW i \in Servers,
         serving[i] \/ recv > i \/ back[i] # <<>>
  PROVE  \E c \in ServerChains : Matches(i, fb, c)
<1>1. CASE serving[i]
  <2>1. fb \in Handles /\ buffers[fb] # None
    BY DEF Inv, Answers
  <2>2. PICK v \in Views : Shows(i, fb, v)
    BY <1>1, <2>1 DEF Images, Follows
  <2>. QED
    BY <2>1, <2>2 DEF Shows, Views
<1>2. CASE ~serving[i]
  BY <1>2 DEF Images, Stopped
<1>. QED
  BY <1>1, <1>2

-----------------------------------------------------------------------------
(* The servers.                                                            *)

\* A server does to its chains what the command says.
LEMMA ServedView ==
  ASSUME Inv, NEW i \in Servers, Serve(i), NEW h \in Handles
  PROVE  ViewAt(i, h)' = After(h, executed[i] + 1, ViewAt(i, h), Head(chan[i]))
<1>1. PICK m \in Commands : m = Head(chan[i])
  BY NextCommand DEF Serve
<1>2. /\ numRefs \in [Servers -> [Handles -> Nat]]
      /\ swapChains \in [Servers -> [Handles -> ServerChains \cup {None}]]
  BY DEF Inv, Types, ServerTypes
<1>3. Served(i)
  BY DEF Serve, Served
<1>4. m.id \in Handles
  BY <1>1 DEF Commands
<1>5. CASE ServeNew(i, m)
  <2>1. /\ numRefs' = [numRefs EXCEPT ![i][m.id] = 1]
        /\ swapChains' = [swapChains EXCEPT ![i][m.id] =
             IF m.kind = "framebuffer" THEN NewView ELSE None]
        /\ m.cmd = "new"
    BY <1>5 DEF ServeNew, NewView
  <2>. QED
    BY <1>1, <1>2, <1>4, <2>1 DEF ViewAt, After
<1>6. CASE ServeIncRef(i, m)
  <2>1. /\ numRefs' = [numRefs EXCEPT ![i][m.id] = @ + 1] /\ UNCHANGED swapChains
        /\ m.cmd = "incref"
    BY <1>6 DEF ServeIncRef
  <2>. QED
    BY <1>1, <1>2, <1>4, <2>1 DEF ViewAt, After
<1>7. CASE ServeDecRef(i, m)
  <2>1. /\ numRefs' = [numRefs EXCEPT ![i][m.id] = @ - 1]
        /\ swapChains' = IF DropsChain(i, m.id) THEN [swapChains EXCEPT ![i][m.id] = None]
                                                ELSE swapChains
        /\ m.cmd = "decref"
    BY <1>7 DEF ServeDecRef
  <2>2. swapChains'[i][h] = IF m.id = h /\ numRefs[i][h] = 1 THEN None ELSE swapChains[i][h]
    BY <1>2, <1>4, <2>1 DEF DropsChain, DropsHandle
  <2>3. numRefs'[i][h] = IF m.id = h THEN numRefs[i][h] - 1 ELSE numRefs[i][h]
    BY <1>2, <1>4, <2>1
  <2>. QED
    BY <1>1, <2>1, <2>2, <2>3 DEF ViewAt, After
<1>8. CASE ServeUse(i, m) \/ ServePick(i, m)
  BY <1>1, <1>8 DEF ServeUse, ServePick, ViewAt, After
<1>9. CASE ServeRender(i, m)
  <2>1. m.cmd = "render" /\ UNCHANGED numRefs
    BY <1>9 DEF ServeRender
  <2>2. swapChains' = [swapChains EXCEPT ![i][m.id] = Drawn(@, executed[i] + 1)]
    BY <1>9 DEF ServeRender, Drawn
  <2>3. swapChains'[i][h] = IF m.id = h THEN Drawn(swapChains[i][h], executed[i] + 1)
                                        ELSE swapChains[i][h]
    BY <1>2, <1>4, <2>2
  <2>. QED
    BY <1>1, <2>1, <2>3 DEF ViewAt, After
<1>10. CASE ServeSwap(i, m)
  <2>1. m.cmd = "swap" /\ UNCHANGED numRefs
    BY <1>10 DEF ServeSwap
  <2>2. swapChains' = [swapChains EXCEPT ![i][m.id] = Swapped(swapChains[i][m.id])]
    BY <1>10 DEF ServeSwap, Swapped
  <2>3. swapChains'[i][h] = IF m.id = h THEN Swapped(swapChains[i][h]) ELSE swapChains[i][h]
    BY <1>2, <1>4, <2>2
  <2>. QED
    BY <1>1, <2>1, <2>3 DEF ViewAt, After
<1>. QED
  BY <1>1, <1>5, <1>6, <1>7, <1>8, <1>9, <1>10 DEF Serve

\* The frame a server sends is that of the buffer drawn last but one.
LEMMA ServedFrame ==
  ASSUME Inv, NEW i \in Servers, Serve(i), Head(chan[i]).cmd = "swap",
         NEW c, c = swapChains'[i][Head(chan[i]).id]
  PROVE  OnItsWay(i, c)'
<1> DEFINE m == Head(chan[i])
<1>1. ServeSwap(i, m)
  BY DEF Serve, ServeNew, ServeIncRef, ServeDecRef, ServeUse, ServeRender, ServePick
<1>2. PICK h \in Handles : h = m.id /\ swapChains[i][h] \in ServerChains
  BY <1>1, ChainOfCommand DEF Serve, Served
<1>3. /\ swapChains \in [Servers -> [Handles -> ServerChains \cup {None}]]
      /\ back \in [Servers -> Seq(Packets)] /\ back[i] = <<>>
  BY NextCommand DEF Inv, Types, ServerTypes, ChannelTypes, Serve
<1>4. PICK old \in ServerChains : old = swapChains[i][h]
  BY <1>2
<1> DEFINE p == [cmd |-> "frame", id |-> h, buf |-> old.readID % Depth,
                 picture |-> old.image[old.readID % Depth]]
<1>5. back' = [back EXCEPT ![i] = Append(@, p)]
  BY <1>1, <1>2, <1>4 DEF ServeSwap
<1>6. c.readID = NextRead(old.readID) /\ c.image = old.image
  <2>1. swapChains' = [swapChains EXCEPT ![i][h] = Swapped(old)]
    BY <1>1, <1>2, <1>4 DEF ServeSwap, Swapped
  <2>2. c = Swapped(old)
    BY <1>2, <1>3, <2>1
  <2>. QED
    BY <2>2 DEF Swapped, ServerChains
<1>7. PrevRead(c.readID) = old.readID
  <2>1. PICK r \in 0 .. Width-1 : r = old.readID
    BY DEF ServerChains
  <2>2. CASE r = Width - 1
    <3>1. (r + 1) % Width = 0
      BY <2>2
    <3>. QED
      BY <1>6, <2>1, <2>2, <3>1 DEF NextRead, PrevRead, FirstRead
  <2>3. CASE r < Width - 1
    <3>1. (r + 1) % Width = r + 1
      BY <2>3
    <3>. QED
      BY <1>6, <2>1, <3>1 DEF NextRead, PrevRead
  <2>. QED
    BY <2>2, <2>3
<1>8. p.cmd = "frame" /\ p.buf = old.readID % Depth /\ p.picture = old.image[p.buf]
  OBVIOUS
<1> HIDE DEF p
<1>9. back'[i] = <<p>>
  BY <1>3, <1>5
<1>10. Head(<<p>>) = p
  OBVIOUS
<1>. QED
  BY <1>6, <1>7, <1>8, <1>9, <1>10 DEF OnItsWay

LEMMA ServeKeepsImages ==
  ASSUME Inv, Inv', Images, NEW i \in Servers, Serve(i)
  PROVE  Images'
<1>0. /\ serving[i] /\ chan[i] # <<>>
      /\ chan' = [chan EXCEPT ![i] = Tail(@)] /\ executed' = [executed EXCEPT ![i] = @ + 1]
      /\ UNCHANGED <<calls, counters, buffers, pc, recv, fb, local, serving>>
      /\ chan \in [Servers -> Seq(Commands)] /\ executed \in [Servers -> Nat]
      /\ numRefs \in [Servers -> [Handles -> Nat]]
      /\ swapChains \in [Servers -> [Handles -> ServerChains \cup {None}]]
      /\ back \in [Servers -> Seq(Packets)]
  <2>1. /\ chan \in [Servers -> Seq(Commands)] /\ executed \in [Servers -> Nat]
        /\ numRefs \in [Servers -> [Handles -> Nat]]
        /\ swapChains \in [Servers -> [Handles -> ServerChains \cup {None}]]
        /\ back \in [Servers -> Seq(Packets)]
    BY DEF Inv, Types, ChannelTypes, ServerTypes
  <2>. QED
    BY <2>1 DEF Serve, clientVars, handleVars, callVars
<1>1. PICK m \in Commands :
        /\ m = Head(chan[i])
        /\ m.cmd \in {"swap", "pick"} =>
             /\ Tail(chan[i]) = <<>> /\ Asking(i) /\ m.cmd = pc
             /\ pc = "swap" => m.id = fb
  BY <1>0, NextCommand
<1>2. ASSUME NEW k \in Servers, k # i
      PROVE  /\ chan'[k] = chan[k] /\ executed'[k] = executed[k] /\ back'[k] = back[k]
             /\ numRefs'[k] = numRefs[k] /\ swapChains'[k] = swapChains[k]
  <2>1. chan'[k] = chan[k] /\ executed'[k] = executed[k]
    BY <1>0, <1>2
  <2>2. /\ back'[k] = back[k] /\ numRefs'[k] = numRefs[k] /\ swapChains'[k] = swapChains[k]
    BY <1>0, <1>2 DEF Serve, ServeNew, ServeIncRef, ServeDecRef, ServeUse, ServeRender,
                      ServeSwap, ServePick, DropsChain, DropsHandle
  <2>. QED
    BY <2>1, <2>2
<1>3. ASSUME NEW k \in Servers, k # i, serving[k], NEW h \in Handles
      PROVE  Follows(k, h)'
  <2>1. Follows(k, h) /\ ViewAt(k, h)' = ViewAt(k, h)
    BY <1>2, <1>3 DEF Images, ViewAt
  <2>2. \A v \in Views : Shows(k, h, v) => Shows(k, h, v)'
    BY <1>0, <1>2, <1>3, ShowsUnchanged
  <2>. QED
    BY <1>0, <1>2, <1>3, <2>1, <2>2, FollowsUnchanged
<1>4. ASSUME NEW h \in Handles
      PROVE  Follows(i, h)'
  <2>1. PICK v \in Views :
          /\ Path(h, executed[i], ViewAt(i, h), chan[i], [count |-> counters[h], view |-> v])
          /\ Shows(i, h, v)
    BY <1>0 DEF Images, Follows
  <2>2. Path(h, executed[i] + 1, ViewAt(i, h)', Tail(chan[i]), [count |-> counters[h], view |-> v])
    BY <1>0, <2>1, PathOn, ServedView
  <2>3. chan'[i] = Tail(chan[i]) /\ executed'[i] = executed[i] + 1
    BY <1>0
  <2>4. Path(h, executed'[i], ViewAt(i, h)', chan'[i], [count |-> counters'[h], view |-> v])
    BY <1>0, <2>2, <2>3
  <2>5. Shows(i, h, v)'
    <3>1. CASE m.cmd \notin {"swap", "pick"}
      <4>1. back'[i] = back[i]
        BY <1>1, <3>1 DEF Serve, ServeNew, ServeIncRef, ServeDecRef, ServeUse, ServeRender,
                          ServeSwap, ServePick
      <4>. QED
        BY <1>0, <2>1, <4>1, ShowsUnchanged
    <3>2. CASE ~(pc = "swap" /\ h = fb)
      BY <1>0, <2>1, <3>2 DEF Shows, Matches
    <3>3. CASE m.cmd \in {"swap", "pick"} /\ pc = "swap" /\ h = fb
      <4>1. Tail(chan[i]) = <<>> /\ m.cmd = "swap" /\ m.id = h /\ ~(recv > i)
        <5>1. recv \in Int /\ i \in Int
          BY DEF Servers, Inv, Types, ClientTypes
        <5>2. Tail(chan[i]) = <<>> /\ m.cmd = "swap" /\ m.id = h /\ Asking(i)
          BY <1>1, <3>3
        <5>. QED
          BY <5>1, <5>2 DEF Asking
      <4>2. ViewAt(i, h)' = [count |-> counters[h], view |-> v]
        <5>1. ViewAt(i, h)' \in ViewStates
          BY <2>2, <4>1, PathEnds
        <5>2. Path(h, executed[i] + 1, ViewAt(i, h)', <<>>, [count |-> counters[h], view |-> v])
          BY <2>2, <4>1
        <5>. QED
          BY <5>1, <5>2, PathNowhere
      <4>3. v = swapChains'[i][h]
        BY <4>2 DEF ViewAt
      <4>4. OnItsWay(i, v)'
        BY <1>1, <4>1, <4>3, ServedFrame
      <4>. QED
        BY <1>0, <2>1, <3>3, <4>1, <4>4 DEF Shows, Matches
    <3>. QED
      BY <3>1, <3>2, <3>3
  <2>. QED
    BY <2>4, <2>5 DEF Follows
<1>5. ASSUME NEW k \in Servers, ~serving[k]
      PROVE  Stopped(k)'
  <2>1. k # i /\ Stopped(k)
    BY <1>0, <1>5 DEF Images
  <2>2. back'[k] = back[k]
    BY <1>2, <2>1
  <2>. QED
    BY <1>0, <2>1, <2>2, ShowsUnchanged DEF Stopped
<1>6. LocalFollows'
  BY <1>0 DEF Images, LocalFollows
<1>. QED
  BY <1>0, <1>3, <1>4, <1>5, <1>6 DEF Images

LEMMA DestroyKeepsImages ==
  ASSUME Inv, Inv', Images, NEW i \in Servers, serving[i], Destroy(i)
  PROVE  Images'
<1>0. /\ UNCHANGED <<calls, counters, buffers, pc, recv, fb, local, chan, back, executed>>
      /\ serving' = [serving EXCEPT ![i] = FALSE] /\ serving \in [Servers -> BOOLEAN]
  BY DEF Destroy, clientVars, handleVars, callVars, Inv, Types, ServerTypes
<1>1. ASSUME NEW k \in Servers, k # i
      PROVE  numRefs'[k] = numRefs[k] /\ swapChains'[k] = swapChains[k] /\ serving'[k] = serving[k]
  BY <1>1 DEF Destroy, Inv, Types, ServerTypes
<1>2. ASSUME NEW k \in Servers, k # i, serving[k], NEW h \in Handles
      PROVE  Follows(k, h)'
  <2>1. Follows(k, h) /\ ViewAt(k, h)' = ViewAt(k, h)
    BY <1>1, <1>2 DEF Images, ViewAt
  <2>2. \A v \in Views : Shows(k, h, v) => Shows(k, h, v)'
    BY <1>0, ShowsUnchanged
  <2>. QED
    BY <1>0, <2>1, <2>2, FollowsUnchanged
<1>3. ASSUME NEW k \in Servers, k = i \/ ~serving[k]
      PROVE  Stopped(k)'
  <2>. SUFFICES ASSUME pc = "swap", recv > k \/ back[k] # <<>>
                PROVE  \E c \in ServerChains : Matches(k, fb, c)'
    BY <1>0 DEF Stopped
  <2>1. PICK c \in ServerChains : Matches(k, fb, c)
    BY ViewOfSwap
  <2>2. Matches(k, fb, c)'
    BY <1>0, <2>1, ShowsUnchanged
  <2>. QED
    BY <2>2
<1>4. LocalFollows'
  BY <1>0 DEF Images, LocalFollows
<1>. QED
  BY <1>0, <1>1, <1>2, <1>3, <1>4 DEF Images


-----------------------------------------------------------------------------
(* The images.                                                             *)

LEMMA ImagesInit == Init => Images
<1>. SUFFICES ASSUME Init PROVE Images
  OBVIOUS
<1>1. LocalFollows
  BY DEF Init, LocalFollows
<1>2. ASSUME NEW i \in Servers, NEW h \in Handles
      PROVE  Follows(i, h)
  <2>1. ViewAt(i, h) = [count |-> counters[h], view |-> None] /\ chan[i] = <<>>
    BY DEF Init, ViewAt
  <2>2. ViewAt(i, h) \in ViewStates
    BY <2>1 DEF Init, ViewStates, Views
  <2>3. Path(h, executed[i], ViewAt(i, h), <<>>, ViewAt(i, h))
    BY <2>2, PathNowhere
  <2>4. Shows(i, h, None) /\ None \in Views
    BY DEF Init, Shows, Views
  <2>. QED
    BY <2>1, <2>3, <2>4 DEF Follows
<1>. QED
  BY <1>1, <1>2 DEF Init, Images

LEMMA StepKeepsImages ==
  ASSUME Inv, Images, [Next]_vars
  PROVE  Images'
<1>0. Inv'
  BY StepKeepsInv
<1>1. CASE ClientCall
  <2>1. ASSUME NEW h \in Handles, IncRef(h) PROVE Images'
    <3>1. "incref" \in {"incref", "use"} /\ h \in Held
      BY <2>1 DEF IncRef
    <3>2. /\ pc = "idle" /\ calls' = calls + 1 /\ Broadcast(Command("incref", h))
          /\ counters' = [counters EXCEPT ![h] = @ + 1]
          /\ UNCHANGED <<buffers, local, pc, back, serverVars>>
      BY <2>1 DEF IncRef, Call, callVars
    <3>. QED
      BY <1>0, <3>1, <3>2, MentionKeepsImages
  <2>2. ASSUME NEW h \in Handles, Use(h) PROVE Images'
    <3>1. "use" \in {"incref", "use"} /\ h \in Held
      BY <2>2 DEF Use
    <3>2. /\ pc = "idle" /\ calls' = calls + 1 /\ Broadcast(Command("use", h))
          /\ UNCHANGED <<counters, buffers, local, pc, back, serverVars>>
      BY <2>2 DEF Use, Call, callVars, handleVars
    <3>. QED
      BY <1>0, <3>1, <3>2, MentionKeepsImages
  <2>. QED
    BY <1>0, <1>1, <2>1, <2>2, NewKeepsImages, NewThrowsKeepsImages, DecRefKeepsImages,
       RenderKeepsImages, SwapKeepsImages, PickKeepsImages, CloseKeepsImages DEF ClientCall
<1>2. CASE ReceiveCommand
  BY <1>0, <1>2, ReceiveKeepsImages
<1>3. CASE Return
  BY <1>0, <1>3, ReturnKeepsImages
<1>4. ASSUME NEW i \in Servers, Serve(i) PROVE Images'
  BY <1>0, <1>4, ServeKeepsImages
<1>5. ASSUME NEW i \in Servers, Disconnect(i) PROVE Images'
  BY <1>0, <1>5, DestroyKeepsImages DEF Disconnect
<1>6. ASSUME NEW i \in Servers, Throw(i) PROVE Images'
  BY <1>0, <1>6, DestroyKeepsImages DEF Throw
<1>7. CASE UNCHANGED vars
  <2>1. /\ UNCHANGED <<calls, counters, buffers, pc, recv, fb, local, chan, back, executed>>
        /\ UNCHANGED <<numRefs, swapChains, serving>>
    BY <1>7 DEF vars, clientVars, handleVars, callVars, serverVars
  <2>2. ASSUME NEW k \in Servers, serving[k], NEW h \in Handles
        PROVE  Follows(k, h)'
    <3>1. Follows(k, h) /\ ViewAt(k, h)' = ViewAt(k, h)
      BY <2>1, <2>2 DEF Images, ViewAt
    <3>2. \A v \in Views : Shows(k, h, v) => Shows(k, h, v)'
      BY <2>1, ShowsUnchanged
    <3>. QED
      BY <2>1, <3>1, <3>2, FollowsUnchanged
  <2>3. ASSUME NEW k \in Servers, ~serving[k]
        PROVE  Stopped(k)'
    <3>1. Stopped(k)
      BY <2>3 DEF Images
    <3>. QED
      BY <2>1, <3>1, ShowsUnchanged DEF Stopped
  <2>4. LocalFollows'
    BY <2>1 DEF Images, LocalFollows
  <2>. QED
    BY <2>1, <2>2, <2>3, <2>4 DEF Images
<1>. QED
  BY <1>1, <1>2, <1>3, <1>4, <1>5, <1>6, <1>7 DEF Next, Terminated

\* When rtSwapBuffers returns, the current buffer of the client shows, in the rows
\* of every server, what a local device would show, for any number of servers,
\* frame buffers and buffers of a swap chain: SwapChain::send of the server reads
\* the buffer drawn last but one, swapBuffers of the client writes it to the place
\* the packet names, and the two and the device count their swaps apart.
THEOREM ImagesAreLocal == Spec => ShowsLocalImage
<1>1. Init => Inv /\ Images
  BY InvInit, ImagesInit
<1>2. Inv /\ Images /\ [Next]_vars => (Inv /\ Images)'
  BY StepKeepsInv, StepKeepsImages
<1>3. Inv /\ Images /\ [Next]_vars =>
        [pc = "swap" /\ pc' = "idle" =>
           LET b == local[fb].buf IN
           /\ buffers'[fb].buf = b
           /\ \A i \in Servers : buffers'[fb].image[i][b] = local[fb].image[b]]_vars
  <2>. SUFFICES ASSUME Inv, Images, Next, pc = "swap", pc' = "idle"
                PROVE  /\ buffers'[fb].buf = local[fb].buf
                       /\ \A i \in Servers :
                            buffers'[fb].image[i][local[fb].buf] = local[fb].image[local[fb].buf]
    OBVIOUS
  <2>1. Return
    BY DEF Next, Terminated, ClientCall, New, NewThrows, IncRef, DecRef, Use, RenderFrame,
           SwapBuffers, Pick, Close, Call, ReceiveCommand, Serve, Disconnect, Throw, Destroy,
           vars, clientVars, callVars
  <2>2. /\ recv = NumServers /\ buffers' = [buffers EXCEPT ![fb].buf = (@ + 1) % Depth]
        /\ fb \in Handles /\ buffers[fb] \in ClientChains /\ buffers[fb] # None
        /\ DOMAIN buffers = Handles
    BY <2>1 DEF Return, Inv, Types, ClientTypes, Answers
  <2>3. buffers'[fb] = [buffers[fb] EXCEPT !.buf = (@ + 1) % Depth]
    BY <2>2
  <2>4. buffers'[fb].buf = (buffers[fb].buf + 1) % Depth /\ buffers'[fb].image = buffers[fb].image
    BY <2>2, <2>3 DEF ClientChains
  <2>5. local[fb].buf = (buffers[fb].buf + 1) % Depth
    BY <2>2 DEF Images, LocalFollows
  <2>6. ASSUME NEW i \in Servers
        PROVE  buffers[fb].image[i][local[fb].buf] = local[fb].image[local[fb].buf]
    <3>1. recv > i
      BY <2>2 DEF Servers
    <3>2. PICK c \in ServerChains : Matches(i, fb, c)
      BY <3>1, ViewOfSwap
    <3>3. /\ c.buf = local[fb].buf /\ c.image = local[fb].image
          /\ Complete(buffers[fb].image[i], c) /\ Ordered(c, calls) /\ calls \in Nat
      BY <3>1, <3>2 DEF Matches, Inv, Types, ClientTypes
    <3>. QED
      BY <3>3, CompleteShows
  <2>. QED
    BY <2>4, <2>5, <2>6
<1>. QED
  BY <1>1, <1>2, <1>3, PTL DEF Spec, ShowsLocalImage

-----------------------------------------------------------------------------
(***************************************************************************)
(* The rows of a frame find their way from the cards of the servers to the *)
(* image of the client, for frames of any size, and any number of servers  *)
(* and of cards (RowInterleave).                                           *)
(***************************************************************************)
HIDE NetworkAssumption
USE RowAssumption

-----------------------------------------------------------------------------
(* Division by the number of servers, of cards, of pixels of a line.       *)

LEMMA MulType == \A a, b \in Int : a * b \in Int
  OBVIOUS

LEMMA GroupOfLine ==
  ASSUME NEW l \in Nat
  PROVE  l \div 4 \in Nat /\ l % 4 \in 0 .. 3 /\ l = 4 * (l \div 4) + (l % 4)
  OBVIOUS

\* A line is active for the server its group is congruent to.
LEMMA ActiveIsRemainder ==
  ASSUME NEW n \in Nat \ {0}, NEW s \in 0 .. n-1, NEW l \in Nat
  PROVE  ActiveLine(s, n, l) <=> (l \div 4) % n = s
<1>0. PICK g \in Int : g = l \div 4
  BY GroupOfLine
<1>1. PICK q \in Int, r \in 0 .. n-1 : g = n * q + r /\ g % n = r
  BY Quotient
<1>2. PICK p \in Int, t \in 0 .. n-1 : g - s = n * p + t /\ (g - s) % n = t
  BY g - s \in Int, Quotient
<1>3. ASSUME t = 0 PROVE r = s
  <2>1. n * p \in Int /\ g = n * p + s
    BY <1>2, <1>3
  <2>. QED
    BY <1>1, <2>1, DivUnique
<1>4. ASSUME r = s PROVE t = 0
  <2>1. n * q \in Int /\ g - s = n * q + 0 /\ g - s \in Int /\ 0 \in 0 .. n-1
    BY <1>1, <1>4
  <2>2. (g - s) % n = 0
    BY <2>1, DivUnique
  <2>. QED
    BY <1>2, <2>2
<1>. QED
  BY <1>0, <1>1, <1>2, <1>3, <1>4 DEF ActiveLine

\* Line l is line r of group t of the q-th round of n groups.
At(n, l, q, t, r) == l = 4 * (n * q + t) + r

\* Quotient and remainders of an active line, and its row.
LEMMA RowOfLine ==
  ASSUME NEW n \in Nat \ {0}, NEW s \in 0 .. n-1, NEW l \in Nat, ActiveLine(s, n, l)
  PROVE  \E q \in Int, r \in 0 .. 3 :
           At(n, l, q, s, r) /\ Raster2buffer(l, n) = 4 * q + r
<1>1. PICK g \in Nat, r \in 0 .. 3 : g = l \div 4 /\ r = l % 4 /\ l = 4 * g + r
  BY GroupOfLine
<1>2. PICK q \in Int, t \in 0 .. n-1 : g = n * q + t /\ g \div n = q /\ g % n = t
  BY Quotient
<1>3. t = s
  BY <1>1, <1>2, ActiveIsRemainder
<1>4. At(n, l, q, s, r) /\ Raster2buffer(l, n) = 4 * q + r
  BY <1>1, <1>2, <1>3 DEF Raster2buffer, At
<1>. QED
  BY <1>4

\* A device stores the lines it renders in rows of their own.
LEMMA RowsAreDistinct ==
  ASSUME NEW n \in Nat \ {0}, NEW s \in 0 .. n-1, NEW l \in Nat, NEW m \in Nat,
         ActiveLine(s, n, l), ActiveLine(s, n, m),
         Raster2buffer(l, n) = Raster2buffer(m, n)
  PROVE  l = m
<1>1. PICK q \in Int, r \in 0 .. 3 :
        At(n, l, q, s, r) /\ Raster2buffer(l, n) = 4 * q + r
  BY RowOfLine
<1>2. PICK p \in Int, t \in 0 .. 3 :
        At(n, m, p, s, t) /\ Raster2buffer(m, n) = 4 * p + t
  BY RowOfLine
<1>3. 4 * q + r = 4 * p + t
  BY <1>1, <1>2
<1>4. q = p /\ r = t
  BY <1>3
<1>. QED
  BY <1>1, <1>2, <1>4 DEF At

\* In the row of a line the device shows that line.
LEMMA RenderedInItsRow ==
  ASSUME NEW n \in Nat \ {0}, NEW s \in 0 .. n-1, height \in Nat, NEW l \in Lines,
         ActiveLine(s, n, l)
  PROVE  Rendered(s, n, Raster2buffer(l, n)) = l
<1> DEFINE stored == {m \in ActiveLines(s, n) : Raster2buffer(m, n) = Raster2buffer(l, n)}
<1>1. l \in stored
  BY DEF ActiveLines
<1>2. \A m \in stored : m = l
  BY RowsAreDistinct DEF ActiveLines, Lines
<1>. QED
  BY <1>1, <1>2 DEF Rendered

-----------------------------------------------------------------------------
(* The invariant of the transfer.                                          *)

FrameTypes ==
  /\ height \in Nat /\ width \in Nat \ {0}
  /\ servers \in Nat \ {0} /\ devices \in Nat \ {0}
  /\ format \in {"RGB_FLOAT32", "RGBA8", "RGB8"}
  /\ encoding \in {"native", "RGB8", "RGBE8"}
  /\ encoding = "RGBE8" => format = "RGB_FLOAT32"

\* The number of lines below line l that device s of n renders: four for every
\* group of its own before that of l, and those of the group of l itself.
Stored(s, n, l) ==
  4 * (((l \div 4) + n-1 - s) \div n) + (IF ActiveLine(s, n, l) THEN l % 4 ELSE 0)

Below(s, n, l) == {k \in ActiveLines(s, n) : k < l}

\* Of the packet of the current server, the rows below line y have been taken.
RowsTaken ==
  id < servers =>
    /\ taken = LineUnits * Stored(id, servers, y)
    /\ Cardinality(Below(id, servers, y)) = Stored(id, servers, y)

\* The lines of the previous servers, and those of the current one below y.
Arrived(l) ==
  (l \div 4) % servers < id \/ (id < servers /\ ActiveLine(id, servers, l) /\ l < y)

LinesArrived ==
  OneLevel /\ NoPadding => \A l \in Lines : Arrived(l) => image[l] = l

RowInv == FrameTypes /\ RowTypeOK /\ RowsTaken /\ LinesArrived

-----------------------------------------------------------------------------
(* Counting the rows of a device.                                          *)

\* Stored in terms of quotients and remainders.
LEMMA AtActive ==
  ASSUME NEW n \in Nat \ {0}, NEW s \in 0 .. n-1, NEW l \in Nat,
         NEW q \in Int, NEW t \in 0 .. n-1, NEW r \in 0 .. 3, At(n, l, q, t, r)
  PROVE  /\ l \div 4 = n * q + t /\ l % 4 = r
         /\ ActiveLine(s, n, l) <=> t = s
<1>1. PICK g \in Int : g = n * q + t
  BY MulType
<1>2. g = l \div 4 /\ r = l % 4
  BY <1>1 DEF At
<1>3. g % n = t
  BY <1>1, DivUnique
<1>. QED
  BY <1>1, <1>2, <1>3, ActiveIsRemainder

CountAt(s, n, l, q, t, r) ==
  Stored(s, n, l) = 4 * (IF t > s THEN q + 1 ELSE q) + (IF t = s THEN r ELSE 0)

LEMMA StoredForm ==
  ASSUME NEW n \in Nat \ {0}, NEW s \in 0 .. n-1, NEW l \in Nat,
         NEW q \in Int, NEW t \in 0 .. n-1, NEW r \in 0 .. 3,
         At(n, l, q, t, r)
  PROVE  CountAt(s, n, l, q, t, r)
<1>1. PICK g \in Int : g = n * q + t
  BY MulType
<1>2. g = l \div 4 /\ r = l % 4 /\ (ActiveLine(s, n, l) <=> t = s)
  BY <1>1, AtActive, Zenon
<1>3. (g + n-1 - s) \div n = IF t > s THEN q + 1 ELSE q
  <2>1. CASE t > s
    <3>1. n * (q + 1) = n * q + n
      OBVIOUS
    <3>2. PICK x \in Int, p \in Int, u \in 0 .. n-1 :
            x = g + n-1 - s /\ p = q + 1 /\ u = t-1 - s
      BY <1>1, <2>1
    <3>3. x = n * p + u
      BY <1>1, <3>1, <3>2, MulType
    <3>4. x \div n = p
      BY <3>3, DivUnique
    <3>. QED
      BY <2>1, <3>2, <3>4
  <2>2. CASE t <= s
    <3>1. PICK x \in Int, u \in 0 .. n-1 : x = g + n-1 - s /\ u = t + n-1 - s
      BY <1>1, <2>2
    <3>2. x = n * q + u
      BY <1>1, <3>1, MulType
    <3>3. x \div n = q
      BY <3>2, DivUnique
    <3>. QED
      BY <2>2, <3>1, <3>3
  <2>. QED
    BY <2>1, <2>2
<1>. QED
  BY <1>2, <1>3 DEF Stored, CountAt

LEMMA LineForm ==
  ASSUME NEW n \in Nat \ {0}, NEW l \in Nat
  PROVE  \E q \in Int, t \in 0 .. n-1, r \in 0 .. 3 : At(n, l, q, t, r)
<1>1. PICK g \in Int, r \in 0 .. 3 : g = l \div 4 /\ r = l % 4 /\ l = 4 * g + r
  BY GroupOfLine
<1>2. PICK q \in Int, t \in 0 .. n-1 : g = n * q + t /\ g \div n = q /\ g % n = t
  BY Quotient
<1>3. At(n, l, q, t, r)
  BY <1>1, <1>2 DEF At
<1>. QED
  BY <1>3

\* The count starts at zero, and every active line adds one to it.
LEMMA StoredZero ==
  ASSUME NEW n \in Nat \ {0}, NEW s \in 0 .. n-1
  PROVE  Stored(s, n, 0) = 0
<1>1. At(n, 0, 0, 0, 0) /\ 0 \in 0 .. n-1 /\ 0 \in 0 .. 3 /\ 0 \in Nat /\ 0 \in Int
  BY DEF At
<1>2. CountAt(s, n, 0, 0, 0, 0)
  BY <1>1, StoredForm, Zenon
<1>. QED
  BY <1>2 DEF CountAt

LEMMA StoredStep ==
  ASSUME NEW n \in Nat \ {0}, NEW s \in 0 .. n-1, NEW l \in Nat
  PROVE  Stored(s, n, l + 1) = IF ActiveLine(s, n, l) THEN Stored(s, n, l) + 1
                                                      ELSE Stored(s, n, l)
<1>1. PICK q \in Int, t \in 0 .. n-1, r \in 0 .. 3 : At(n, l, q, t, r)
  BY LineForm
<1>2. PICK p \in Int : p = n * q
  BY MulType
<1>3. ActiveLine(s, n, l) <=> t = s
  BY <1>1, AtActive, Zenon
<1>4. CountAt(s, n, l, q, t, r)
  BY <1>1, StoredForm, Zenon
<1>5. CASE r < 3
  <2>1. At(n, l + 1, q, t, r + 1) /\ r + 1 \in 0 .. 3 /\ l + 1 \in Nat
    BY <1>1, <1>2, <1>5 DEF At
  <2>2. CountAt(s, n, l + 1, q, t, r + 1)
    BY <2>1, StoredForm, Zenon
  <2>. QED
    BY <1>3, <1>4, <2>2 DEF CountAt
<1>6. CASE r = 3 /\ t < n-1
  <2>1. At(n, l + 1, q, t + 1, 0) /\ t + 1 \in 0 .. n-1 /\ 0 \in 0 .. 3 /\ l + 1 \in Nat
    BY <1>1, <1>2, <1>6 DEF At
  <2>2. CountAt(s, n, l + 1, q, t + 1, 0)
    BY <2>1, StoredForm, Zenon
  <2>. QED
    BY <1>3, <1>4, <1>6, <2>2 DEF CountAt
<1>7. CASE r = 3 /\ t = n-1
  <2>1. n * (q + 1) = p + n
    BY <1>2
  <2>2. At(n, l + 1, q + 1, 0, 0) /\ 0 \in 0 .. n-1 /\ 0 \in 0 .. 3 /\ l + 1 \in Nat /\ q + 1 \in Int
    BY <1>1, <1>2, <1>7, <2>1 DEF At
  <2>3. CountAt(s, n, l + 1, q + 1, 0, 0)
    BY <2>2, StoredForm, Zenon
  <2>. QED
    BY <1>3, <1>4, <1>7, <2>3 DEF CountAt
<1>. QED
  BY <1>5, <1>6, <1>7

\* So the client takes an active line from the row the device stored it in.
LEMMA StoredIsRow ==
  ASSUME NEW n \in Nat \ {0}, NEW s \in 0 .. n-1, NEW l \in Nat, ActiveLine(s, n, l)
  PROVE  Stored(s, n, l) = Raster2buffer(l, n)
<1>1. PICK q \in Int, r \in 0 .. 3 :
        At(n, l, q, s, r) /\ Raster2buffer(l, n) = 4 * q + r
  BY RowOfLine
<1>2. CountAt(s, n, l, q, s, r)
  BY <1>1, StoredForm, Zenon
<1>. QED
  BY <1>1, <1>2 DEF CountAt

LEMMA BelowStep ==
  ASSUME height \in Nat, NEW n \in Nat \ {0}, NEW s \in 0 .. n-1, NEW l \in Lines
  PROVE  Below(s, n, l + 1) = IF ActiveLine(s, n, l) THEN Below(s, n, l) \cup {l}
                                                     ELSE Below(s, n, l)
  BY DEF Below, ActiveLines, Lines

LEMMA BelowFinite ==
  ASSUME height \in Nat, NEW n, NEW s, NEW l
  PROVE  IsFiniteSet(Below(s, n, l))
<1>1. IsFiniteSet(Lines)
  BY FS_Interval DEF Lines
<1>. QED
  BY <1>1, FS_Subset DEF Below, ActiveLines

-----------------------------------------------------------------------------
(* What the client shows for a line.                                       *)

\* The row a server sends for a line of its own shows that line, also when it
\* comes from one of its cards.
LEMMA MappedIsLine ==
  ASSUME FrameTypes, OneLevel, NEW s \in 0 .. servers-1, NEW l \in Lines,
         ActiveLine(s, servers, l)
  PROVE  Mapped(s, Raster2buffer(l, servers)) = l
<1>0. height \in Nat /\ servers \in Nat \ {0} /\ devices \in Nat \ {0} /\ l \in Nat
  BY DEF FrameTypes, Lines
<1>1. CASE devices = 1
  BY <1>0, <1>1, RenderedInItsRow DEF Mapped
<1>2. CASE devices # 1
  <2>1. servers = 1 /\ s = 0 /\ servers * devices = devices
    BY <1>0, <1>2 DEF OneLevel
  <2>2. PICK g \in Nat, r \in 0 .. 3 : g = l \div 4 /\ r = l % 4 /\ l = 4 * g + r
    BY <1>0, GroupOfLine
  <2>3. Raster2buffer(l, servers) = l
    BY <2>1, <2>2 DEF Raster2buffer
  <2>4. PICK d \in 0 .. devices-1 : d = g % devices
    BY <1>0, Quotient
  <2>5. Source(l).dev = d /\ Source(l).row = Raster2buffer(l, devices)
    BY <2>2, <2>4 DEF Source, Raster2buffer
  <2>6. ActiveLine(d, devices, l)
    BY <1>0, <2>2, <2>4, ActiveIsRemainder
  <2>7. Rendered(d, devices, Raster2buffer(l, devices)) = l
    BY <1>0, <2>6, RenderedInItsRow
  <2>8. CardID(s, d) = d
    BY <1>0, <2>1 DEF CardID
  <2>. QED
    BY <1>2, <2>1, <2>3, <2>5, <2>7, <2>8 DEF Mapped
<1>. QED
  BY <1>1, <1>2

LEMMA RowType ==
  ASSUME NEW n \in Nat \ {0}, NEW l \in Nat
  PROVE  Raster2buffer(l, n) \in Nat
<1>1. PICK g \in Nat, r \in 0 .. 3 : g = l \div 4 /\ r = l % 4
  BY GroupOfLine
<1>2. g \div n \in Nat
  OBVIOUS
<1>. QED
  BY <1>1, <1>2 DEF Raster2buffer

\* The units of a row as they lie in memory.
LEMMA MemoryIsLine ==
  ASSUME FrameTypes, NEW s, NEW R \in Nat, NEW j \in 0 .. Channels * width - 1
  PROVE  Memory(s, RowUnits * R + j) = <<Mapped(s, R), j \div Channels, j % Channels>>
<1>1. PICK u \in Nat \ {0} : u = RowUnits /\ j \in 0 .. u-1
  BY DEF FrameTypes, RowUnits, Channels
<1>2. (u * R + j) \div u = R /\ (u * R + j) % u = j
  BY <1>1, DivUnique
<1>. QED
  BY <1>1, <1>2 DEF Memory

\* The units of a row encoded pixel by pixel.
LEMMA EncodedIsLine ==
  ASSUME FrameTypes, NEW s, NEW R \in Nat, NEW units \in {1, 3},
         NEW j \in 0 .. units * width - 1
  PROVE  Encoded(s, units * width * R + j, units)
           = <<Mapped(s, R), j \div units, j % units>>
<1>1. PICK w \in Nat \ {0} : w = width
  BY DEF FrameTypes
<1>2. PICK a \in 0 .. w-1, b \in 0 .. units-1 :
        a = j \div units /\ b = j % units /\ j = units * a + b
  BY <1>1
<1>3. PICK p \in Int : p = w * R + a
  BY MulType
<1>4. PICK k \in Int : k = units * w * R + j
  BY <1>1, MulType
<1>5. k = units * p + b
  BY <1>2, <1>3, <1>4
<1>6. k \div units = p /\ k % units = b
  BY <1>2, <1>5
<1>7. p \div w = R /\ p % w = a
  BY <1>3, DivUnique
<1>. QED
  BY <1>1, <1>2, <1>4, <1>6, <1>7 DEF Encoded

\* So all the units the client reads for a line stem from that line.
LEMMA ShownIsLine ==
  ASSUME FrameTypes, OneLevel, NoPadding, NEW s \in 0 .. servers-1, NEW l \in Lines,
         ActiveLine(s, servers, l)
  PROVE  Shown(s, LineUnits * Raster2buffer(l, servers), l) = l
<1>1. PICK R \in Nat : R = Raster2buffer(l, servers) /\ Mapped(s, R) = l
  BY RowType, MappedIsLine DEF FrameTypes, Lines
<1>2. SUFFICES ASSUME NEW j \in 0 .. PixelUnits * width - 1
               PROVE  Unit(s, LineUnits * R + j)
                        = <<Mapped(s, R), j \div PixelUnits, j % PixelUnits>>
  BY <1>1 DEF Shown
<1>3. CASE encoding = "native"
  BY <1>3, MemoryIsLine DEF Unit, LineUnits, PixelUnits
<1>4. CASE encoding = "RGB8" /\ format = "RGB8"
  <2>0. PICK w \in Nat : w = width /\ w % 4 = 0
    BY <1>4 DEF FrameTypes, NoPadding
  <2>1. ((3 * w + 3) \div 4) * 4 = 3 * w
    BY <2>0
  <2>2. RowUnits = 3 * width
    BY <1>4, <2>0, <2>1 DEF RowUnits
  <2>3. Channels = 3 /\ PixelUnits = 3 /\ LineUnits = RowUnits
    BY <1>4, <2>2 DEF Channels, PixelUnits, LineUnits
  <2>4. Unit(s, LineUnits * R + j) = Memory(s, RowUnits * R + j)
    BY <1>4, <2>3, Zenon DEF Unit
  <2>5. j \in 0 .. Channels * width - 1
    BY <2>3
  <2>6. Memory(s, RowUnits * R + j) = <<Mapped(s, R), j \div Channels, j % Channels>>
    BY <2>5, MemoryIsLine
  <2>. QED
    BY <2>3, <2>4, <2>6
<1>5. CASE encoding = "RGB8" /\ format # "RGB8"
  BY <1>5, EncodedIsLine DEF Unit, LineUnits, PixelUnits
<1>6. CASE encoding = "RGBE8"
  <2>1. format # "RGB8" /\ PixelUnits = 1 /\ LineUnits = 1 * width
    BY <1>6 DEF FrameTypes, LineUnits, PixelUnits
  <2>. QED
    BY <1>6, <2>1, EncodedIsLine DEF Unit
<1>. QED
  BY <1>3, <1>4, <1>5, <1>6 DEF FrameTypes

-----------------------------------------------------------------------------
(* Who renders a line.                                                     *)

\* The cards of all servers are numbered without gaps: every number below
\* servers * devices is that of exactly one card.
LEMMA NumberBelow ==
  ASSUME NEW n \in Nat \ {0}, NEW m \in Nat \ {0}, NEW k \in Nat, k < n * m
  PROVE  \E q \in 0 .. n-1, i \in 0 .. m-1 : k = q * m + i
<1>1. PICK q \in Nat, i \in 0 .. m-1 : k = q * m + i
  <2>1. k \div m \in Nat
    OBVIOUS
  <2>2. k % m \in 0 .. m-1 /\ k = (k \div m) * m + (k % m)
    OBVIOUS
  <2>. QED
    BY <2>1, <2>2, Zenon
<1>2. q \in 0 .. n-1
  <2>1. SUFFICES ASSUME q >= n PROVE FALSE
    OBVIOUS
  <2>2. q * m >= n * m
    BY <2>1
  <2>. QED
    BY <1>1, <2>2, MulType
<1>. QED
  BY <1>1, <1>2, Zenon

LEMMA CardOfNumber ==
  ASSUME FrameTypes, NEW k \in Nat, k < servers * devices
  PROVE  \E s \in 0 .. servers-1, i \in Cards : k = CardID(s, i)
<1>1. PICK n \in Nat \ {0}, m \in Nat \ {0} : n = servers /\ m = devices
  BY DEF FrameTypes
<1>2. k < n * m
  BY <1>1
<1>3. PICK s \in 0 .. n-1, i \in 0 .. m-1 : k = s * m + i
  BY <1>2, NumberBelow
<1>. QED
  BY <1>1, <1>3, Zenon DEF Cards, CardID

LEMMA CardNumberType ==
  ASSUME NEW n \in Nat \ {0}, NEW m \in Nat \ {0}, NEW s \in 0 .. n-1, NEW i \in 0 .. m-1
  PROVE  s * m + i \in 0 .. n * m - 1
<1>1. n * m \in Int /\ s * m \in Int
  BY MulType
<1>2. s * m >= 0
  OBVIOUS
<1>3. s * m <= (n - 1) * m
  OBVIOUS
<1>4. (n - 1) * m = n * m - m
  OBVIOUS
<1>. QED
  BY <1>1, <1>2, <1>3, <1>4

LEMMA CardIsDetermined ==
  ASSUME NEW m \in Nat \ {0}, NEW s \in Nat, NEW t \in Nat,
         NEW i \in 0 .. m-1, NEW j \in 0 .. m-1, s * m + i = t * m + j
  PROVE  s = t /\ i = j
<1>1. PICK k \in Int : k = s * m + i
  BY MulType
<1>2. k = m * s + i /\ k = m * t + j
  BY <1>1
<1>3. k \div m = s /\ k % m = i
  BY <1>2, DivUnique
<1>4. k \div m = t /\ k % m = j
  BY <1>2, DivUnique
<1>. QED
  BY <1>3, <1>4

\* Every line of the frame is rendered by exactly one card of the network, and
\* stored by it in the row the single-ray and the COI device look for it in.
THEOREM OneRenderer == FrameTypes => LinesAreShared
<1>. SUFFICES ASSUME FrameTypes, NEW l \in Lines
     PROVE  \E c \in (0 .. servers-1) \X Cards :
              /\ Renderers(l) = {c}
              /\ Rendered(CardID(c[1], c[2]), servers * devices,
                          Raster2buffer(l, servers * devices)) = l
  BY DEF LinesAreShared
<1>0. servers \in Nat \ {0} /\ devices \in Nat \ {0} /\ height \in Nat /\ l \in Nat
  BY DEF FrameTypes, Lines
<1>1. PICK n \in Nat \ {0} : n = servers * devices
  BY <1>0
<1>2. PICK g \in Nat : g = l \div 4
  BY <1>0, GroupOfLine
<1>3. PICK k \in 0 .. n-1 : k = g % n
  BY Quotient
<1>4. PICK s \in 0 .. servers-1, i \in Cards : k = CardID(s, i)
  <2>1. k \in Nat /\ k < servers * devices
    BY <1>1
  <2>. QED
    BY <2>1, CardOfNumber
<1>5. ASSUME NEW t \in 0 .. servers-1, NEW j \in Cards
      PROVE  ActiveLine(CardID(t, j), n, l) <=> t = s /\ j = i
  <2>1. CardID(t, j) \in 0 .. n-1
    BY <1>0, <1>1, CardNumberType DEF Cards, CardID
  <2>2. ActiveLine(CardID(t, j), n, l) <=> k = CardID(t, j)
    BY <1>0, <1>2, <1>3, <2>1, ActiveIsRemainder
  <2>3. k = CardID(t, j) <=> t = s /\ j = i
    BY <1>0, <1>4, CardIsDetermined DEF Cards, CardID
  <2>. QED
    BY <2>2, <2>3
<1>6. Renderers(l) = {<<s, i>>}
  BY <1>1, <1>5 DEF Renderers
<1>7. Rendered(k, n, Raster2buffer(l, n)) = l
  BY <1>0, <1>4, <1>5, RenderedInItsRow
<1>8. /\ Renderers(l) = {<<s, i>>}
      /\ Rendered(CardID(<<s, i>>[1], <<s, i>>[2]), servers * devices,
                  Raster2buffer(l, servers * devices)) = l
  BY <1>1, <1>4, <1>6, <1>7
<1>9. <<s, i>> \in (0 .. servers-1) \X Cards
  OBVIOUS
<1>. QED
  BY <1>8, <1>9, Zenon

-----------------------------------------------------------------------------
(* The invariant holds.                                                    *)

LEMMA RowInvInit == RowInit => RowInv
<1>. SUFFICES ASSUME RowInit PROVE RowInv
  OBVIOUS
<1>1. FrameTypes
  BY DEF RowInit, FrameTypes
<1>2. RowTypeOK
  BY <1>1 DEF RowInit, RowTypeOK, FrameTypes
<1>3. RowsTaken
  <2>1. Stored(0, servers, 0) = 0 /\ Below(0, servers, 0) = {}
    BY <1>1, StoredZero DEF FrameTypes, Below, ActiveLines, Lines
  <2>2. LineUnits * 0 = 0
    BY <1>1 DEF FrameTypes, LineUnits, RowUnits, Channels
  <2>. QED
    BY <2>1, <2>2, FS_EmptySet DEF RowInit, RowsTaken
<1>4. LinesArrived
  <2>1. ASSUME NEW l \in Lines PROVE ~Arrived(l)
    BY <1>1, GroupOfLine, Quotient DEF RowInit, Arrived, Lines, FrameTypes
  <2>. QED
    BY <2>1 DEF LinesArrived
<1>. QED
  BY <1>1, <1>2, <1>3, <1>4 DEF RowInv

LEMMA ReadRowKeepsInv == RowInv /\ ReadRow => RowInv'
<1>. SUFFICES ASSUME RowInv, ReadRow PROVE RowInv'
  OBVIOUS
<1>. USE DEF RowInv
<1>0. /\ height \in Nat /\ servers \in Nat \ {0} /\ id \in 0 .. servers-1
      /\ y \in Lines /\ y \in Nat /\ taken \in Nat /\ y' = y + 1
      /\ UNCHANGED <<frameVars, id>>
  BY DEF ReadRow, FrameTypes, RowTypeOK, Lines
<1>1. /\ FrameTypes' /\ LineUnits' = LineUnits /\ Lines' = Lines
      /\ (OneLevel /\ NoPadding)' = (OneLevel /\ NoPadding)
  BY <1>0 DEF frameVars, FrameTypes, LineUnits, RowUnits, Channels, Lines, OneLevel, NoPadding
<1>2. LineUnits \in Nat
  BY DEF FrameTypes, LineUnits, RowUnits, Channels
<1>3. /\ taken = LineUnits * Stored(id, servers, y)
      /\ Cardinality(Below(id, servers, y)) = Stored(id, servers, y)
      /\ Stored(id, servers, y) \in Nat
  BY <1>0, BelowFinite, FS_CardinalityType DEF RowsTaken
<1>4. /\ Stored(id, servers, y)' = Stored(id, servers, y + 1)
      /\ Below(id, servers, y)' = Below(id, servers, y + 1)
  BY <1>0, <1>1 DEF frameVars, Stored, Below, ActiveLine, ActiveLines
<1>5. CASE ActiveLine(id, servers, y)
  <2>1. taken' = taken + LineUnits /\ image' = [image EXCEPT ![y] = Shown(id, taken, y)]
    BY <1>5 DEF ReadRow
  <2>2. Shown(id, taken, y) \in {y, Missing}
    BY DEF Shown
  <2>3. RowTypeOK'
    BY <1>0, <1>1, <1>2, <2>1, <2>2 DEF RowTypeOK, Lines, frameVars
  <2>4. RowsTaken'
    <3>1. Stored(id, servers, y + 1) = Stored(id, servers, y) + 1
      BY <1>0, <1>5, StoredStep
    <3>2. PICK u \in Nat, k \in Nat : u = LineUnits /\ k = Stored(id, servers, y)
      BY <1>2, <1>3
    <3>3. taken' = LineUnits' * Stored(id, servers, y)'
      BY <1>1, <1>3, <1>4, <2>1, <3>1, <3>2
    <3>4. Below(id, servers, y + 1) = Below(id, servers, y) \cup {y}
      BY <1>0, <1>5, BelowStep
    <3>5. IsFiniteSet(Below(id, servers, y)) /\ y \notin Below(id, servers, y)
      BY <1>0, BelowFinite DEF Below
    <3>6. Cardinality(Below(id, servers, y + 1)) = Cardinality(Below(id, servers, y)) + 1
      BY <3>4, <3>5, FS_AddElement
    <3>. QED
      BY <1>3, <1>4, <3>1, <3>3, <3>6 DEF RowsTaken
  <2>5. LinesArrived'
    <3>. SUFFICES ASSUME OneLevel, NoPadding, NEW l \in Lines, Arrived(l)'
                  PROVE  image'[l] = l
      BY <1>1 DEF LinesArrived
    <3>1. Arrived(l) \/ l = y
      BY <1>0 DEF Arrived, frameVars, ActiveLine, Lines
    <3>2. CASE l = y
      <4>1. taken = LineUnits * Raster2buffer(y, servers)
        BY <1>0, <1>3, <1>5, StoredIsRow
      <4>2. Shown(id, taken, y) = y
        BY <1>0, <1>5, <4>1, ShownIsLine
      <4>. QED
        BY <1>0, <2>1, <3>2, <4>2 DEF RowTypeOK
    <3>3. CASE Arrived(l) /\ l # y
      BY <1>0, <2>1, <3>3 DEF RowTypeOK, LinesArrived
    <3>. QED
      BY <3>1, <3>2, <3>3
  <2>. QED
    BY <1>1, <2>3, <2>4, <2>5
<1>6. CASE ~ActiveLine(id, servers, y)
  <2>1. UNCHANGED <<taken, image>>
    BY <1>6 DEF ReadRow
  <2>2. RowTypeOK'
    BY <1>0, <1>1, <2>1 DEF RowTypeOK, Lines, frameVars
  <2>3. RowsTaken'
    <3>1. Stored(id, servers, y + 1) = Stored(id, servers, y)
      BY <1>0, <1>6, StoredStep
    <3>2. Below(id, servers, y + 1) = Below(id, servers, y)
      BY <1>0, <1>6, BelowStep
    <3>. QED
      BY <1>1, <1>3, <1>4, <2>1, <3>1, <3>2 DEF RowsTaken
  <2>4. LinesArrived'
    <3>. SUFFICES ASSUME OneLevel, NoPadding, NEW l \in Lines, Arrived(l)'
                  PROVE  image'[l] = l
      BY <1>1 DEF LinesArrived
    <3>1. Arrived(l)
      BY <1>0, <1>6 DEF Arrived, frameVars, ActiveLine, Lines
    <3>. QED
      BY <2>1, <3>1 DEF LinesArrived
  <2>. QED
    BY <1>1, <2>2, <2>3, <2>4
<1>. QED
  BY <1>5, <1>6

\* Before the first line of the next server, exactly the lines of the servers
\* before it have arrived.
LEMMA NextServerKeepsInv == RowInv /\ NextServer => RowInv'
<1>. SUFFICES ASSUME RowInv, NextServer PROVE RowInv'
  OBVIOUS
<1>. USE DEF RowInv
<1>0. /\ height \in Nat /\ servers \in Nat \ {0} /\ id \in 0 .. servers-1
      /\ y = height /\ id' = id + 1 /\ y' = 0 /\ taken' = 0
      /\ UNCHANGED <<frameVars, image>>
  BY DEF NextServer, FrameTypes, RowTypeOK
<1>1. /\ FrameTypes' /\ LineUnits' = LineUnits /\ Lines' = Lines
      /\ (OneLevel /\ NoPadding)' = (OneLevel /\ NoPadding)
  BY <1>0 DEF frameVars, FrameTypes, LineUnits, RowUnits, Channels, Lines, OneLevel, NoPadding
<1>2. LineUnits \in Nat
  BY DEF FrameTypes, LineUnits, RowUnits, Channels
<1>3. RowTypeOK'
  BY <1>0, <1>1 DEF RowTypeOK, frameVars
<1>4. RowsTaken'
  <2>. SUFFICES ASSUME id + 1 < servers
                PROVE  /\ 0 = LineUnits * Stored(id + 1, servers, 0)
                       /\ Cardinality(Below(id + 1, servers, 0)) = Stored(id + 1, servers, 0)
    BY <1>0, <1>1 DEF RowsTaken, Stored, Below, ActiveLine, ActiveLines, frameVars
  <2>1. Stored(id + 1, servers, 0) = 0 /\ Below(id + 1, servers, 0) = {}
    BY <1>0, StoredZero DEF Below, ActiveLines, Lines
  <2>. QED
    BY <1>2, <2>1, FS_EmptySet
<1>5. LinesArrived'
  <2>. SUFFICES ASSUME OneLevel, NoPadding, NEW l \in Lines, Arrived(l)'
                PROVE  image[l] = l
    BY <1>0, <1>1 DEF LinesArrived
  <2>1. l \in Nat /\ l < y /\ (l \div 4) % servers < id + 1
    BY <1>0 DEF Arrived, frameVars, Lines
  <2>2. (l \div 4) % servers \in 0 .. servers-1
    BY <1>0, <2>1, GroupOfLine, Quotient
  <2>3. ActiveLine(id, servers, l) <=> (l \div 4) % servers = id
    BY <1>0, <2>1, ActiveIsRemainder
  <2>4. Arrived(l)
    BY <1>0, <2>1, <2>2, <2>3 DEF Arrived
  <2>. QED
    BY <2>4 DEF LinesArrived
<1>. QED
  BY <1>1, <1>3, <1>4, <1>5

\* The invariant of the transfer of a frame.
THEOREM RowInvariance == RowSpec => []RowInv
<1>1. RowInv /\ [RowNext]_rowVars => RowInv'
  <2>. SUFFICES ASSUME RowInv, [RowNext]_rowVars PROVE RowInv'
    OBVIOUS
  <2>1. CASE ReadRow
    BY <2>1, ReadRowKeepsInv
  <2>2. CASE NextServer
    BY <2>2, NextServerKeepsInv
  <2>3. CASE UNCHANGED rowVars
    BY <2>3 DEF rowVars, frameVars, RowInv, FrameTypes, RowTypeOK, RowsTaken, LinesArrived, Lines,
                LineUnits, RowUnits, Channels, Stored, Below, ActiveLines, ActiveLine,
                OneLevel, NoPadding, Arrived
  <2>. QED
    BY <2>1, <2>2, <2>3 DEF RowNext, Received
<1>. QED
  BY RowInvInit, <1>1, PTL DEF RowSpec

\* The client reads exactly the units the server sends.
THEOREM PacketsAreConsumed == RowSpec => []PacketConsumed
<1>1. RowInv => PacketConsumed
  <2>. SUFFICES ASSUME RowInv, id < servers, y = height PROVE taken = Bytes(id)
    BY DEF RowInv, PacketConsumed
  <2>1. Below(id, servers, y) = ActiveLines(id, servers)
    BY DEF RowInv, FrameTypes, Below, ActiveLines, Lines
  <2>2. taken = LineUnits * Height1(id)
    BY <2>1 DEF RowInv, RowsTaken, Height1
  <2>. QED
    BY <2>2 DEF RowInv, FrameTypes, LineUnits, Bytes
<1>. QED
  BY <1>1, RowInvariance, PTL

\* Exactly one card of the network renders a line, in whatever way lines are
\* dealt to servers and to the cards of a server.
THEOREM LinesAreDealt == RowSpec => []LinesAreShared
<1>1. RowInv => LinesAreShared
  BY OneRenderer DEF RowInv
<1>. QED
  BY <1>1, RowInvariance, PTL

\* When all servers have sent their rows every line of the image shows what was
\* rendered for it.
THEOREM FramesAreRestored == RowSpec => []FrameRestored
<1>1. RowInv => FrameRestored
  <2>. SUFFICES ASSUME RowInv, OneLevel, NoPadding, id = servers, NEW l \in Lines
                PROVE  image[l] = l
    BY DEF FrameRestored
  <2>1. l \in Nat /\ servers \in Nat \ {0}
    BY DEF RowInv, FrameTypes, Lines
  <2>2. (l \div 4) % servers < servers
    BY <2>1, GroupOfLine, Quotient
  <2>. QED
    BY <2>2 DEF RowInv, LinesArrived, Arrived
<1>. QED
  BY <1>1, RowInvariance, PTL
=============================================================================
