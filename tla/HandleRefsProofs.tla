-------------------------- MODULE HandleRefsProofs --------------------------
(***************************************************************************)
(* Reference counts are right at every instruction of every thread, for    *)
(* any number of threads and objects: nobody touches a node that was       *)
(* deleted, and what nobody refers to is gone.                             *)
(***************************************************************************)
EXTENDS HandleRefs, FiniteSetTheorems, SequenceTheorems, TLAPS

(***************************************************************************)
(* A step that is still to be done may stand for a reference.  A release   *)
(* holds one: the one it drops, or the one it puts into a Ref or a job.  A *)
(* step that is to increment a counter lacks one.                          *)
(***************************************************************************)
Steps ==
  [op : {"inc", "dec"}, node : Nodes]
  \cup [op : {"put"}, node : Nodes, at : {1, 2}, ref : Nodes \cup {None}]
  \cup [op : {"start"}, refs : {<<o>> : o \in Objects}]
  \cup [op : {"wait", "unlock", "gone"}]

Incs(n) == {x \in Steps : x.op = "inc" /\ x.node = n}
Releases(n) ==
  {x \in Steps : \/ x.op = "dec" /\ x.node = n
                 \/ x.op = "put" /\ x.ref = n
                 \/ x.op = "start" /\ x.refs = <<n>>}

Drops(n) == {x \in Steps : x.op = "dec" /\ x.node = n}

Is(n, m) == IF n = m THEN 1 ELSE 0
Number(s, T) == Cardinality({k \in DOMAIN s : s[k] \in T})
Marked(T) == UNION {{a} \X {k \in DOMAIN todo[a] : todo[a][k] \in T} : a \in Actors}

\* A Ref that is being assigned to.
Under(m, k) ==
  \E a \in Actors : \E x \in ToSet(todo[a]) : x.op = "put" /\ x.node = m /\ x.at = k

Placed(n) == {x \in Refs(n) : ~Under(x[1], x[2])}

\* The references to a node that are not in a step.
Held(n) ==
  (IF n = Scene THEN 1 ELSE 0) + Cardinality(Owned(n)) + Cardinality(Placed(n))
  + (IF job = <<n>> THEN 1 ELSE 0)

Exact(n) ==
  /\ IsFiniteSet(Owned(n)) /\ IsFiniteSet(Placed(n))
  /\ IsFiniteSet(Marked(Incs(n))) /\ IsFiniteSet(Marked(Releases(n)))
  /\ count[n] + Cardinality(Marked(Incs(n))) = Held(n) + Cardinality(Marked(Releases(n)))

(***************************************************************************)
(* What is known of a step, and of the steps after it.                     *)
(***************************************************************************)
\* The objects before the first Ref is set to them.
Newborn == {n \in Objects : Exists(n) /\ count[n] = 0}

\* What keeps a node while a thread is in a call: nobody else may delete it.
Owns(a, n) == n = Scene \/ (a \in Threads /\ n \in Handles /\ owns[a][n] > 0)
Kept(a, n) ==
  \/ Owns(a, n)
  \/ \E k \in {1, 2} : <<Scene, k>> \in Placed(n)
  \/ Owns(a, Primitive) /\ <<Primitive, 1>> \in Placed(Shape) /\ <<Shape, 1>> \in Placed(n)

Has(a, op) == \E x \in ToSet(todo[a]) : x.op = op
StepOK(a, x) ==
  /\ x.op = "inc" => Kept(a, x.node) \/ x.node \in Newborn
  /\ x.op = "put" =>
       /\ Owns(a, x.node) \/ x.node \in Newborn
       /\ x.at \in DOMAIN fields[x.node]
       /\ x.node = Primitive => x.ref = Shape
       /\ x.node = Scene => x.ref \in Objects
  /\ x.op \in {"inc", "put", "start", "wait", "unlock"} => mutex = a
  /\ x.op = "gone" => a = Worker

HeadOK(x, r, N) ==
  /\ x.op = "inc" /\ x.node \in N =>
       \A y \in ToSet(r) : y.op \in {"inc", "put"} => y.node # x.node
  /\ x.op = "put" => \A y \in ToSet(r) : y.op = "put" => y.node # x.node
  /\ x.op = "start" => (\E y \in ToSet(r) : y.op = "wait") /\ \A y \in ToSet(r) : y.op # "start"
  /\ x.op \in {"unlock", "gone"} => r = <<>>

\* Every increment has a release after it.
Covered(s) == \A n \in Nodes : Number(s, Incs(n)) <= Number(s, Releases(n))

After(s, k) == SubSeq(s, k + 1, Len(s))

Well(s, N) ==
  /\ \A k \in 0 .. Len(s) : Covered(After(s, k))
  /\ \A k \in 1 .. Len(s) : HeadOK(s[k], After(s, k), N)

(***************************************************************************)
(* The inductive invariant.                                                *)
(***************************************************************************)
Types ==
  /\ count \in [Nodes -> Nat]
  /\ fields \in [Nodes -> Seq(Nodes \cup {None}) \cup {None}]
  /\ Exists(Scene) /\ Len(fields[Scene]) = 2
  /\ \A k \in {1, 2} : fields[Scene][k] \in Objects \cup {None}
  /\ \A h \in Handles : Exists(h) => Len(fields[h]) = 1
  /\ \A o \in Objects : Exists(o) => Len(fields[o]) <= 1
  /\ owns \in [Threads -> [Handles -> 0 .. MaxOwned]]
  /\ mutex \in Threads \cup {None}
  /\ job \in {None, <<>>} \cup {<<o>> : o \in Objects}
  /\ todo \in [Actors -> Seq(Steps)]

Alive ==
  \A n \in Nodes :
    /\ count[n] > 0 => Exists(n)
    /\ Exists(n) /\ count[n] = 0 => n \in Objects /\ Cardinality(Marked(Incs(n))) # 0

PrimitivesHaveShapes ==
  Exists(Primitive) /\ ~Under(Primitive, 1) => fields[Primitive] = <<Shape>>

Control ==
  /\ \A a \in Actors : Well(todo[a], Newborn) /\ \A x \in ToSet(todo[a]) : StepOK(a, x)
  /\ mutex # None => Has(mutex, "unlock")
  /\ job # None => mutex # None /\ Has(mutex, "wait") /\ ~Has(mutex, "start")
  /\ todo[Worker] # <<>> => job = <<>>

IInv ==
  /\ Types /\ Alive /\ PrimitivesHaveShapes /\ Control
  /\ \A n \in Nodes : Exact(n)

(***************************************************************************)
(* Counting in sequences of steps.                                         *)
(***************************************************************************)
LEMMA NumberType ==
  ASSUME NEW s \in Seq(Steps), NEW T
  PROVE  IsFiniteSet({k \in DOMAIN s : s[k] \in T}) /\ Number(s, T) \in Nat
<1>1. DOMAIN s = 1 .. Len(s) /\ Len(s) \in Nat
  OBVIOUS
<1>2. IsFiniteSet(1 .. Len(s))
  BY <1>1, FS_Interval
<1>3. {k \in DOMAIN s : s[k] \in T} \subseteq 1 .. Len(s)
  BY <1>1
<1>. QED
  BY <1>2, <1>3, FS_Subset, FS_CardinalityType DEF Number

LEMMA NumberEmpty == \A T : Number(<<>>, T) = 0
<1>1. \A T : {k \in DOMAIN <<>> : <<>>[k] \in T} = {}
  OBVIOUS
<1>. QED
  BY <1>1, FS_EmptySet DEF Number

LEMMA ConsSeq ==
  ASSUME NEW s \in Seq(Steps), NEW x \in Steps
  PROVE  LET q == Cons(x, s)
         IN  /\ q \in Seq(Steps) /\ Len(q) = Len(s) + 1 /\ Len(s) \in Nat
             /\ q[1] = x /\ \A k \in 1 .. Len(s) : q[k + 1] = s[k]
             /\ Head(q) = x /\ Tail(q) = s /\ ToSet(q) = {x} \cup ToSet(s)
             /\ DOMAIN q = 1 .. Len(s) + 1 /\ q # <<>>
<1> DEFINE q == Cons(x, s)
<1>1. /\ q \in Seq(Steps) /\ Len(q) = Len(s) + 1 /\ Len(s) \in Nat
      /\ q[1] = x /\ \A k \in 1 .. Len(s) : q[k + 1] = s[k]
      /\ DOMAIN q = 1 .. Len(s) + 1 /\ DOMAIN s = 1 .. Len(s)
  BY DEF Cons
<1>. HIDE DEF q
<1>2. Head(q) = x /\ q # <<>>
  BY <1>1
<1>3. Tail(q) = s
  <2>1. Tail(q) \in Seq(Steps) /\ Len(Tail(q)) = Len(s)
    BY <1>1, <1>2
  <2>2. \A k \in 1 .. Len(s) : Tail(q)[k] = s[k]
    BY <1>1, <1>2
  <2>. QED
    BY <2>1, <2>2
<1>4. ToSet(q) = {x} \cup ToSet(s)
  <2>1. \A k \in 1 .. Len(s) + 1 : k = 1 \/ (k - 1 \in 1 .. Len(s) /\ q[k] = s[k - 1])
    BY <1>1
  <2>2. 1 \in 1 .. Len(s) + 1 /\ \A k \in 1 .. Len(s) : k + 1 \in 1 .. Len(s) + 1
    BY <1>1
  <2>3. ToSet(q) = {q[k] : k \in 1 .. Len(s) + 1} /\ ToSet(s) = {s[k] : k \in 1 .. Len(s)}
    BY <1>1 DEF ToSet
  <2>4. \A k \in 1 .. Len(s) + 1 : q[k] \in {x} \cup {s[j] : j \in 1 .. Len(s)}
    BY <1>1, <2>1
  <2>5. x \in {q[k] : k \in 1 .. Len(s) + 1}
    BY <1>1, <2>2
  <2>6. \A k \in 1 .. Len(s) : s[k] \in {q[j] : j \in 1 .. Len(s) + 1}
    BY <1>1, <2>2
  <2>. QED
    BY <2>3, <2>4, <2>5, <2>6
<1>. QED
  BY <1>1, <1>2, <1>3, <1>4 DEF q

LEMMA NonEmpty ==
  ASSUME NEW s \in Seq(Steps), s # <<>>
  PROVE  Head(s) \in Steps /\ Tail(s) \in Seq(Steps) /\ s = Cons(Head(s), Tail(s))
<1>1. Head(s) \in Steps /\ Tail(s) \in Seq(Steps) /\ Len(s) \in Nat \ {0}
  OBVIOUS
<1>2. PICK q : q = Cons(Head(s), Tail(s))
  OBVIOUS
<1>3. q \in Seq(Steps) /\ Len(q) = Len(s) /\ \A k \in 1 .. Len(s) : q[k] = s[k]
  <2>1. Len(Tail(s)) = Len(s) - 1 /\ \A k \in 1 .. Len(s) - 1 : Tail(s)[k] = s[k + 1]
    BY <1>1
  <2>2. /\ q \in Seq(Steps) /\ Len(q) = Len(s) /\ q[1] = Head(s)
        /\ \A k \in 1 .. Len(s) - 1 : q[k + 1] = s[k + 1]
    <3>1. PICK r, x : r = Tail(s) /\ x = Head(s)
      OBVIOUS
    <3>2. /\ r \in Seq(Steps) /\ x \in Steps /\ q = Cons(x, r) /\ Len(r) + 1 = Len(s)
          /\ \A k \in 1 .. Len(r) : r[k] = s[k + 1]
      BY <1>1, <1>2, <2>1, <3>1
    <3>3. /\ q \in Seq(Steps) /\ Len(q) = Len(r) + 1 /\ q[1] = x
          /\ \A k \in 1 .. Len(r) : q[k + 1] = r[k]
      BY <3>2, ConsSeq
    <3>4. Len(r) = Len(s) - 1
      BY <1>1, <2>1, <3>1
    <3>. QED
      BY <3>1, <3>2, <3>3, <3>4
  <2>3. \A k \in 1 .. Len(s) : k = 1 \/ (k - 1 \in 1 .. Len(s) - 1 /\ (k - 1) + 1 = k)
    BY <1>1
  <2>. QED
    BY <2>2, <2>3
<1>4. q = s
  BY <1>3
<1>. QED
  BY <1>1, <1>2, <1>4

LEMMA NumberCons ==
  ASSUME NEW s \in Seq(Steps), NEW x \in Steps, NEW T
  PROVE  Number(Cons(x, s), T) = Number(s, T) + (IF x \in T THEN 1 ELSE 0)
<1> DEFINE q == Cons(x, s)
           K == {k \in 1 .. Len(s) : s[k] \in T}
           K1 == {k + 1 : k \in K}
<1>1. /\ Len(q) = Len(s) + 1 /\ Len(s) \in Nat /\ q[1] = x
      /\ \A k \in 1 .. Len(s) : q[k + 1] = s[k]
      /\ DOMAIN q = 1 .. Len(s) + 1 /\ DOMAIN s = 1 .. Len(s)
  BY ConsSeq
<1>2. Number(s, T) = Cardinality(K) /\ IsFiniteSet(K)
  BY <1>1, NumberType DEF Number
<1>3. IsFiniteSet(K1) /\ Cardinality(K1) = Cardinality(K) /\ 1 \notin K1
  <2> DEFINE f == [k \in K |-> k + 1]
  <2>1. f \in [K -> K1]
    OBVIOUS
  <2>2. \A j, k \in K : f[j] = f[k] => j = k
    OBVIOUS
  <2>3. \A j \in K1 : \E k \in K : f[k] = j
    OBVIOUS
  <2>4. f \in Bijection(K, K1)
    <3>. HIDE DEF f, K, K1
    <3>. QED
      BY <2>1, <2>2, <2>3 DEF Bijection, Injection, Surjection, IsInjective
  <2>. QED
    BY <1>2, <2>4, FS_Bijection DEF ExistsBijection
<1>4. {k \in 1 .. Len(s) + 1 : q[k] \in T} = K1 \cup (IF x \in T THEN {1} ELSE {})
  <2>1. \A k \in 1 .. Len(s) + 1 : k = 1 \/ (k - 1 \in 1 .. Len(s) /\ q[k] = s[k - 1] /\ k = (k - 1) + 1)
    BY <1>1
  <2>2. \A k \in 1 .. Len(s) + 1 : q[k] \in T => k \in K1 \/ (k = 1 /\ x \in T)
    <3>. SUFFICES ASSUME NEW k \in 1 .. Len(s) + 1, q[k] \in T, k # 1 PROVE k \in K1
      BY <1>1
    <3>1. k - 1 \in K /\ k = (k - 1) + 1
      BY <2>1
    <3>. QED
      BY <3>1
  <2>3. \A j \in K1 : j \in 1 .. Len(s) + 1 /\ q[j] \in T
    BY <1>1
  <2>. QED
    BY <1>1, <2>2, <2>3
<1>5. Number(q, T) = Cardinality(K1 \cup (IF x \in T THEN {1} ELSE {}))
  BY <1>1, <1>4 DEF Number
<1>6. CASE x \in T
  BY <1>2, <1>3, <1>5, <1>6, FS_AddElement
<1>7. CASE x \notin T
  <2>1. K1 \cup {} = K1
    OBVIOUS
  <2>. QED
    BY <1>2, <1>3, <1>5, <1>7, <2>1, NumberType
<1>. QED
  BY <1>6, <1>7

\* A suffix of the tail is one of the sequence.
LEMMA AfterCons ==
  ASSUME NEW s \in Seq(Steps), NEW x \in Steps
  PROVE  /\ After(Cons(x, s), 0) = Cons(x, s)
         /\ \A k \in 0 .. Len(s) : After(Cons(x, s), k + 1) = After(s, k)
<1> DEFINE q == Cons(x, s)
<1>1. /\ Len(q) = Len(s) + 1 /\ Len(s) \in Nat /\ q[1] = x /\ q \in Seq(Steps)
      /\ \A k \in 1 .. Len(s) : q[k + 1] = s[k]
  BY ConsSeq
<1>. HIDE DEF q
<1>2. After(q, 0) = q
  BY <1>1 DEF After
<1>3. ASSUME NEW k \in 0 .. Len(s) PROVE After(q, k + 1) = After(s, k)
  <2>1. /\ After(q, k + 1) \in Seq(Steps) /\ Len(After(q, k + 1)) = Len(s) - k
        /\ \A j \in 1 .. Len(s) - k : After(q, k + 1)[j] = q[j + k + 1]
    BY <1>1 DEF After
  <2>2. /\ After(s, k) \in Seq(Steps) /\ Len(After(s, k)) = Len(s) - k
        /\ \A j \in 1 .. Len(s) - k : After(s, k)[j] = s[j + k]
    BY <1>1 DEF After
  <2>3. \A j \in 1 .. Len(s) - k : j + k \in 1 .. Len(s) /\ q[j + k + 1] = s[j + k]
    BY <1>1
  <2>4. PICK u, v : u = After(q, k + 1) /\ v = After(s, k)
    OBVIOUS
  <2>5. \A j \in 1 .. Len(s) - k : u[j] = v[j]
    BY <2>1, <2>2, <2>3, <2>4
  <2>6. u \in Seq(Steps) /\ v \in Seq(Steps) /\ Len(u) = Len(v) /\ \A j \in 1 .. Len(u) : u[j] = v[j]
    BY <2>1, <2>2, <2>4, <2>5
  <2>7. u = v
    BY <2>6
  <2>. QED
    BY <2>4, <2>7
<1>. QED
  BY <1>2, <1>3 DEF q

LEMMA WellCons ==
  ASSUME NEW s \in Seq(Steps), NEW x \in Steps, NEW N
  PROVE  Well(Cons(x, s), N) <=> Well(s, N) /\ Covered(Cons(x, s)) /\ HeadOK(x, s, N)
<1> DEFINE q == Cons(x, s)
<1>1. /\ Len(q) = Len(s) + 1 /\ Len(s) \in Nat /\ q[1] = x
      /\ \A k \in 1 .. Len(s) : q[k + 1] = s[k]
  BY ConsSeq
<1>2. After(q, 0) = q /\ \A k \in 0 .. Len(s) : After(q, k + 1) = After(s, k)
  BY AfterCons
<1>3. After(s, 0) = s
  BY <1>1 DEF After
<1>4. \A k \in 0 .. Len(s) + 1 : k = 0 \/ (k - 1 \in 0 .. Len(s) /\ (k - 1) + 1 = k)
  BY <1>1
<1>. HIDE DEF q
<1>5. (\A k \in 0 .. Len(q) : Covered(After(q, k)))
        <=> Covered(q) /\ \A k \in 0 .. Len(s) : Covered(After(s, k))
  <2>1. 0 \in 0 .. Len(q) /\ \A k \in 0 .. Len(s) : k + 1 \in 0 .. Len(q)
    BY <1>1
  <2>2. \A k \in 0 .. Len(q) : k = 0 \/ \E j \in 0 .. Len(s) : k = j + 1
    <3>1. ASSUME NEW k \in 0 .. Len(q), k # 0 PROVE \E j \in 0 .. Len(s) : k = j + 1
      <4>1. k - 1 \in 0 .. Len(s) /\ k = (k - 1) + 1
        BY <1>1, <3>1
      <4>. QED
        BY <4>1
    <3>. QED
      BY <3>1
  <2>3. PICK A : A = [k \in 0 .. Len(q) |-> After(q, k)]
    OBVIOUS
  <2>4. PICK B : B = [k \in 0 .. Len(s) |-> After(s, k)]
    OBVIOUS
  <2>5. A[0] = q /\ \A k \in 0 .. Len(s) : A[k + 1] = B[k]
    BY <1>2, <2>1, <2>3, <2>4
  <2>6. (\A k \in 0 .. Len(q) : Covered(A[k])) <=> Covered(q) /\ \A k \in 0 .. Len(s) : Covered(B[k])
    BY <2>1, <2>2, <2>5
  <2>. QED
    BY <2>3, <2>4, <2>6
<1>6. (\A k \in 1 .. Len(q) : HeadOK(q[k], After(q, k), N))
        <=> HeadOK(x, s, N) /\ \A k \in 1 .. Len(s) : HeadOK(s[k], After(s, k), N)
  <2>1. 1 \in 1 .. Len(q) /\ \A k \in 1 .. Len(s) : k + 1 \in 1 .. Len(q)
    BY <1>1
  <2>2. After(q, 1) = s
    BY <1>1, <1>2, <1>3
  <2>3. \A k \in 1 .. Len(q) : k = 1 \/ (k - 1 \in 1 .. Len(s) /\ (k - 1) + 1 = k)
    BY <1>1
  <2>4. PICK A : A = [k \in 1 .. Len(q) |-> After(q, k)]
    OBVIOUS
  <2>5. PICK B : B = [k \in 1 .. Len(s) |-> After(s, k)]
    OBVIOUS
  <2>6. A[1] = s /\ \A k \in 1 .. Len(s) : A[k + 1] = B[k] /\ q[k + 1] = s[k]
    BY <1>1, <1>2, <2>1, <2>2, <2>4, <2>5
  <2>7. ASSUME \A k \in 1 .. Len(q) : HeadOK(q[k], A[k], N)
        PROVE  HeadOK(x, s, N) /\ \A k \in 1 .. Len(s) : HeadOK(s[k], B[k], N)
    <3>1. HeadOK(q[1], A[1], N)
      BY <2>1, <2>7
    <3>2. ASSUME NEW k \in 1 .. Len(s) PROVE HeadOK(q[k + 1], A[k + 1], N)
      BY <2>1, <2>7
    <3>3. q[1] = x
      BY <1>1
    <3>. QED
      BY <2>6, <3>1, <3>2, <3>3
  <2>8. ASSUME HeadOK(x, s, N), \A k \in 1 .. Len(s) : HeadOK(s[k], B[k], N), NEW k \in 1 .. Len(q)
        PROVE  HeadOK(q[k], A[k], N)
    <3>1. CASE k = 1
      <4>1. q[k] = x /\ A[k] = s
        BY <1>1, <2>6, <3>1
      <4>. QED
        BY <2>8, <4>1
    <3>2. CASE k # 1
      <4>1. PICK j \in 1 .. Len(s) : k = j + 1
        BY <2>3, <3>2
      <4>2. q[k] = s[j] /\ A[k] = B[j]
        BY <2>6, <4>1
      <4>. QED
        BY <2>8, <4>2
    <3>. QED
      BY <3>1, <3>2
  <2>. QED
    BY <2>4, <2>5, <2>7, <2>8
<1>. QED
  BY <1>5, <1>6 DEF Well, q

(***************************************************************************)
(* The pieces of a call.                                                   *)
(***************************************************************************)
LEMMA StepTypes ==
  /\ \A n \in Nodes : [op |-> "inc", node |-> n] \in Steps /\ [op |-> "dec", node |-> n] \in Steps
  /\ \A n \in Nodes, k \in {1, 2}, r \in Nodes \cup {None} :
       [op |-> "put", node |-> n, at |-> k, ref |-> r] \in Steps
  /\ \A o \in Objects : [op |-> "start", refs |-> <<o>>] \in Steps
  /\ [op |-> "wait"] \in Steps /\ [op |-> "unlock"] \in Steps /\ [op |-> "gone"] \in Steps
BY DEF Steps

LEMMA NoneIsNoNode == None \notin Nodes
BY HandleRefsAssumption DEF Nodes, Handles, Objects

LEMMA SetOfCons ==
  \A s \in Seq(Steps), x \in Steps :
    Cons(x, s) \in Seq(Steps) /\ ToSet(Cons(x, s)) = ToSet(s) \cup {x}
<1>. SUFFICES ASSUME NEW s \in Seq(Steps), NEW x \in Steps
              PROVE  Cons(x, s) \in Seq(Steps) /\ ToSet(Cons(x, s)) = ToSet(s) \cup {x}
  OBVIOUS
<1>1. Cons(x, s) \in Seq(Steps) /\ ToSet(Cons(x, s)) = {x} \cup ToSet(s)
  BY ConsSeq
<1>. QED
  BY <1>1

\* A step before a sequence: what remains to be shown of the longer one.
LEMMA Before ==
  ASSUME NEW s \in Seq(Steps), NEW x \in Steps, NEW N,
         Well(s, N), HeadOK(x, s, N),
         \A n \in Nodes : x \in Incs(n) => Number(s, Incs(n)) < Number(s, Releases(n))
  PROVE  Well(Cons(x, s), N)
<1> DEFINE q == Cons(x, s)
<1>1. \A n \in Nodes : Number(s, Incs(n)) <= Number(s, Releases(n))
  <2>1. After(s, 0) = s /\ 0 \in 0 .. Len(s)
    BY DEF After
  <2>2. Covered(After(s, 0))
    BY <2>1 DEF Well
  <2>. QED
    BY <2>1, <2>2 DEF Covered
<1>2. ASSUME NEW n \in Nodes PROVE Number(q, Incs(n)) <= Number(q, Releases(n))
  <2>1. /\ Number(q, Incs(n)) = Number(s, Incs(n)) + (IF x \in Incs(n) THEN 1 ELSE 0)
        /\ Number(q, Releases(n)) = Number(s, Releases(n)) + (IF x \in Releases(n) THEN 1 ELSE 0)
    BY NumberCons
  <2>2. Number(s, Incs(n)) \in Nat /\ Number(s, Releases(n)) \in Nat
    BY NumberType
  <2>. HIDE DEF q
  <2>. QED
    BY <1>1, <2>1, <2>2
<1>. QED
  BY <1>2, WellCons DEF Covered

LEMMA AddInc ==
  ASSUME NEW s \in Seq(Steps), NEW m \in Nodes \cup {None}
  PROVE  LET q == Inc(m) \o s
         IN  /\ q \in Seq(Steps) /\ ToSet(q) = ToSet(s) \cup Incs(m)
             /\ \A n \in Nodes : Number(q, Incs(n)) = Number(s, Incs(n)) + (IF n = m THEN 1 ELSE 0)
             /\ \A n \in Nodes : Number(q, Releases(n)) = Number(s, Releases(n))
             /\ \A N : /\ Well(s, N)
                       /\ m \in Nodes => Number(s, Incs(m)) < Number(s, Releases(m))
                       /\ m \in N => \A y \in ToSet(s) : y.op \in {"inc", "put"} => y.node # m
                       => Well(q, N)
<1>1. CASE m = None
  <2>1. Inc(m) \o s = s
    BY <1>1, ConcatEmptySeq DEF Inc
  <2>2. Incs(m) = {}
    BY <1>1, NoneIsNoNode DEF Incs, Steps
  <2>3. \A n \in Nodes : n # m /\ Number(s, Incs(n)) \in Nat /\ Number(s, Releases(n)) \in Nat
    BY <1>1, NumberType, NoneIsNoNode
  <2>4. ToSet(s) \cup {} = ToSet(s)
    OBVIOUS
  <2>. QED
    BY <2>1, <2>2, <2>3, <2>4
<1>2. CASE m # None
  <2> DEFINE x == [op |-> "inc", node |-> m]
             q == Cons(x, s)
  <2>1. m \in Nodes /\ x \in Steps /\ Incs(m) = {x}
    BY <1>2, StepTypes DEF Incs, Steps
  <2>2. Inc(m) \o s = q
    BY <1>2 DEF Inc, Cons
  <2>3. \A n \in Nodes : (x \in Incs(n) <=> n = m) /\ x \notin Releases(n)
    BY <2>1 DEF Incs, Releases
  <2>4. q \in Seq(Steps) /\ ToSet(q) = ToSet(s) \cup {x}
    <3>. HIDE DEF x
    <3>. QED
      BY <2>1, SetOfCons
  <2>5. ASSUME NEW n \in Nodes
        PROVE  /\ Number(q, Incs(n)) = Number(s, Incs(n)) + (IF n = m THEN 1 ELSE 0)
               /\ Number(q, Releases(n)) = Number(s, Releases(n))
    <3>1. /\ Number(q, Incs(n)) = Number(s, Incs(n)) + (IF x \in Incs(n) THEN 1 ELSE 0)
          /\ Number(q, Releases(n)) = Number(s, Releases(n)) + (IF x \in Releases(n) THEN 1 ELSE 0)
      BY <2>1, NumberCons
    <3>2. Number(s, Incs(n)) \in Nat /\ Number(s, Releases(n)) \in Nat
      BY NumberType
    <3>. HIDE DEF q, x
    <3>. QED
      BY <2>3, <3>1, <3>2
  <2>6. ASSUME NEW N, Well(s, N), Number(s, Incs(m)) < Number(s, Releases(m)),
               m \in N => \A y \in ToSet(s) : y.op \in {"inc", "put"} => y.node # m
        PROVE  Well(q, N)
    <3>1. HeadOK(x, s, N)
      BY <2>6 DEF HeadOK
    <3>. HIDE DEF x
    <3>. QED
      BY <2>1, <2>3, <2>6, <3>1, Before
  <2>. QED
    BY <2>1, <2>2, <2>4, <2>5, <2>6
<1>. QED
  BY <1>1, <1>2

LEMMA AddDec ==
  ASSUME NEW s \in Seq(Steps), NEW m \in Nodes \cup {None}
  PROVE  LET q == Dec(m) \o s
         IN  /\ q \in Seq(Steps)
             /\ ToSet(q) = ToSet(s) \cup Drops(m)
             /\ \A n \in Nodes : Number(q, Incs(n)) = Number(s, Incs(n))
             /\ \A n \in Nodes : Number(q, Releases(n)) = Number(s, Releases(n)) + (IF n = m THEN 1 ELSE 0)
             /\ \A N : Well(s, N) => Well(q, N)
<1>1. CASE m = None
  <2>1. Dec(m) \o s = s
    BY <1>1, ConcatEmptySeq DEF Dec
  <2>2. Drops(m) = {}
    BY <1>1, NoneIsNoNode DEF Steps, Drops
  <2>3. \A n \in Nodes : n # m /\ Number(s, Incs(n)) \in Nat /\ Number(s, Releases(n)) \in Nat
    BY <1>1, NumberType, NoneIsNoNode
  <2>4. ToSet(s) \cup {} = ToSet(s)
    OBVIOUS
  <2>. QED
    BY <2>1, <2>2, <2>3, <2>4
<1>2. CASE m # None
  <2> DEFINE x == [op |-> "dec", node |-> m]
             q == Cons(x, s)
  <2>1. m \in Nodes /\ x \in Steps /\ Drops(m) = {x}
    BY <1>2, StepTypes DEF Steps, Drops
  <2>2. Dec(m) \o s = q
    BY <1>2 DEF Dec, Cons
  <2>3. \A n \in Nodes : (x \in Releases(n) <=> n = m) /\ x \notin Incs(n)
    BY <2>1 DEF Incs, Releases
  <2>4. q \in Seq(Steps) /\ ToSet(q) = ToSet(s) \cup {x}
    <3>. HIDE DEF x
    <3>. QED
      BY <2>1, SetOfCons
  <2>5. ASSUME NEW n \in Nodes
        PROVE  /\ Number(q, Incs(n)) = Number(s, Incs(n))
               /\ Number(q, Releases(n)) = Number(s, Releases(n)) + (IF n = m THEN 1 ELSE 0)
    <3>1. /\ Number(q, Incs(n)) = Number(s, Incs(n)) + (IF x \in Incs(n) THEN 1 ELSE 0)
          /\ Number(q, Releases(n)) = Number(s, Releases(n)) + (IF x \in Releases(n) THEN 1 ELSE 0)
      BY <2>1, NumberCons
    <3>2. Number(s, Incs(n)) \in Nat /\ Number(s, Releases(n)) \in Nat
      BY NumberType
    <3>. HIDE DEF q, x
    <3>. QED
      BY <2>3, <3>1, <3>2
  <2>6. ASSUME NEW N, Well(s, N) PROVE Well(q, N)
    <3>1. HeadOK(x, s, N)
      BY DEF HeadOK
    <3>. HIDE DEF x
    <3>. QED
      BY <2>1, <2>3, <2>6, <3>1, Before
  <2>. QED
    BY <2>1, <2>2, <2>4, <2>5, <2>6
<1>. QED
  BY <1>1, <1>2

LEMMA AddPut ==
  ASSUME NEW s \in Seq(Steps), NEW m \in Nodes, NEW k \in {1, 2}, NEW r \in Nodes \cup {None}
  PROVE  LET q == Put(m, k, r) \o s
         IN  /\ q \in Seq(Steps)
             /\ ToSet(q) = ToSet(s) \cup {[op |-> "put", node |-> m, at |-> k, ref |-> r]}
             /\ \A n \in Nodes : Number(q, Incs(n)) = Number(s, Incs(n))
             /\ \A n \in Nodes : Number(q, Releases(n)) = Number(s, Releases(n)) + (IF n = r THEN 1 ELSE 0)
             /\ \A N : Well(s, N) /\ (\A y \in ToSet(s) : y.op = "put" => y.node # m) => Well(q, N)
<1> DEFINE x == [op |-> "put", node |-> m, at |-> k, ref |-> r]
           q == Cons(x, s)
<1>1. x \in Steps
  BY StepTypes
<1>2. Put(m, k, r) \o s = q
  BY DEF Put, Cons
<1>3. \A n \in Nodes : (x \in Releases(n) <=> n = r) /\ x \notin Incs(n)
  BY <1>1 DEF Incs, Releases
<1>4. q \in Seq(Steps) /\ ToSet(q) = ToSet(s) \cup {x}
  <2>. HIDE DEF x
  <2>. QED
    BY <1>1, SetOfCons
<1>5. ASSUME NEW n \in Nodes
      PROVE  /\ Number(q, Incs(n)) = Number(s, Incs(n))
             /\ Number(q, Releases(n)) = Number(s, Releases(n)) + (IF n = r THEN 1 ELSE 0)
  <2>1. /\ Number(q, Incs(n)) = Number(s, Incs(n)) + (IF x \in Incs(n) THEN 1 ELSE 0)
        /\ Number(q, Releases(n)) = Number(s, Releases(n)) + (IF x \in Releases(n) THEN 1 ELSE 0)
    BY <1>1, NumberCons
  <2>2. Number(s, Incs(n)) \in Nat /\ Number(s, Releases(n)) \in Nat
    BY NumberType
  <2>. HIDE DEF q, x
  <2>. QED
    BY <1>3, <2>1, <2>2
<1>6. ASSUME NEW N, Well(s, N), \A y \in ToSet(s) : y.op = "put" => y.node # m PROVE Well(q, N)
  <2>1. HeadOK(x, s, N)
    BY <1>6 DEF HeadOK
  <2>. HIDE DEF x
  <2>. QED
    BY <1>1, <1>3, <1>6, <2>1, Before
<1>. QED
  BY <1>2, <1>4, <1>5, <1>6

\* Starting the job, and waiting for it.
LEMMA AddStart ==
  ASSUME NEW s \in Seq(Steps), NEW o \in Objects, \A y \in ToSet(s) : y.op # "start"
  PROVE  LET q == <<[op |-> "start", refs |-> <<o>>], [op |-> "wait"]>> \o s
         IN  /\ q \in Seq(Steps)
             /\ ToSet(q) = ToSet(s) \cup {[op |-> "start", refs |-> <<o>>], [op |-> "wait"]}
             /\ \A n \in Nodes : Number(q, Incs(n)) = Number(s, Incs(n))
             /\ \A n \in Nodes : Number(q, Releases(n)) = Number(s, Releases(n)) + (IF n = o THEN 1 ELSE 0)
             /\ \A N : Well(s, N) => Well(q, N)
<1> DEFINE x == [op |-> "start", refs |-> <<o>>]
           w == [op |-> "wait"]
           p == Cons(w, s)
           q == Cons(x, p)
<1>1. x \in Steps /\ w \in Steps
  BY StepTypes
<1>2. <<x, w>> \o s = q
  <2>1. <<x, w>> = <<x>> \o <<w>> /\ <<x>> \in Seq(Steps) /\ <<w>> \in Seq(Steps)
    BY <1>1
  <2>. HIDE DEF x, w
  <2>2. <<x, w>> \o s = <<x>> \o (<<w>> \o s)
    BY <2>1, ConcatAssociative
  <2>. QED
    BY <2>2 DEF Cons
<1>3. \A n \in Nodes : (x \in Releases(n) <=> n = o) /\ x \notin Incs(n) /\ w \notin Incs(n) /\ w \notin Releases(n)
  BY <1>1 DEF Incs, Releases
<1>4. p \in Seq(Steps) /\ ToSet(p) = ToSet(s) \cup {w}
  <2>. HIDE DEF w
  <2>. QED
    BY <1>1, SetOfCons
<1>5. q \in Seq(Steps) /\ ToSet(q) = ToSet(p) \cup {x}
  <2>. HIDE DEF x, p
  <2>. QED
    BY <1>1, <1>4, SetOfCons
<1>6. ASSUME NEW n \in Nodes
      PROVE  /\ Number(q, Incs(n)) = Number(s, Incs(n))
             /\ Number(q, Releases(n)) = Number(s, Releases(n)) + (IF n = o THEN 1 ELSE 0)
  <2>1. /\ Number(q, Incs(n)) = Number(p, Incs(n)) + (IF x \in Incs(n) THEN 1 ELSE 0)
        /\ Number(q, Releases(n)) = Number(p, Releases(n)) + (IF x \in Releases(n) THEN 1 ELSE 0)
    BY <1>1, <1>4, NumberCons
  <2>2. /\ Number(p, Incs(n)) = Number(s, Incs(n)) + (IF w \in Incs(n) THEN 1 ELSE 0)
        /\ Number(p, Releases(n)) = Number(s, Releases(n)) + (IF w \in Releases(n) THEN 1 ELSE 0)
    BY <1>1, NumberCons
  <2>3. Number(s, Incs(n)) \in Nat /\ Number(s, Releases(n)) \in Nat
    BY NumberType
  <2>. HIDE DEF q, p, x, w
  <2>. QED
    BY <1>3, <2>1, <2>2, <2>3
<1>7. ASSUME NEW N, Well(s, N) PROVE Well(q, N)
  <2>1. HeadOK(w, s, N)
    BY DEF HeadOK
  <2>2. HeadOK(x, p, N)
    <3>1. (\E y \in ToSet(p) : y.op = "wait") /\ \A y \in ToSet(p) : y.op # "start"
      BY <1>4
    <3>. HIDE DEF p
    <3>. QED
      BY <3>1 DEF HeadOK
  <2>. HIDE DEF x, w
  <2>3. Well(p, N)
    BY <1>1, <1>3, <1>7, <2>1, Before
  <2>. HIDE DEF p
  <2>. QED
    BY <1>1, <1>3, <1>4, <2>2, <2>3, Before
<1>. QED
  BY <1>2, <1>4, <1>5, <1>6, <1>7

\* The end of a call that took the mutex, and that of a frame.
LEMMA Endings ==
  ASSUME NEW x \in Steps, x.op \in {"unlock", "gone"}
  PROVE  /\ <<x>> \in Seq(Steps) /\ ToSet(<<x>>) = {x}
         /\ \A n \in Nodes : Number(<<x>>, Incs(n)) = 0 /\ Number(<<x>>, Releases(n)) = 0
         /\ \A N : Well(<<x>>, N)
<1>1. <<x>> = Cons(x, <<>>) /\ <<>> \in Seq(Steps)
  <2>1. <<x>> \o <<>> = <<x>>
    BY ConcatEmptySeq
  <2>. QED
    BY <2>1 DEF Cons
<1>2. \A n \in Nodes : x \notin Incs(n) /\ x \notin Releases(n)
  BY DEF Incs, Releases
<1>3. ASSUME NEW N PROVE Well(<<x>>, N)
  <2>1. HeadOK(x, <<>>, N)
    BY DEF HeadOK, ToSet
  <2>2. Well(<<>>, N)
    <3>1. \A k \in 0 .. Len(<<>>) : After(<<>>, k) = <<>>
      BY DEF After
    <3>2. Covered(<<>>)
      BY NumberEmpty DEF Covered
    <3>. QED
      BY <3>1, <3>2 DEF Well
  <2>. QED
    BY <1>1, <1>2, <2>1, <2>2, Before
<1>4. ASSUME NEW n \in Nodes PROVE Number(<<x>>, Incs(n)) = 0 /\ Number(<<x>>, Releases(n)) = 0
  <2>1. \A T : Number(<<x>>, T) = Number(<<>>, T) + (IF x \in T THEN 1 ELSE 0)
    BY <1>1, NumberCons
  <2>. QED
    BY <1>2, <2>1, NumberEmpty
<1>5. ToSet(<<x>>) = {x}
  BY DEF ToSet
<1>. QED
  BY <1>1, <1>3, <1>4, <1>5

(***************************************************************************)
(* The calls, as sequences of steps: which references they lack and hold.  *)
(***************************************************************************)
LEMMA DistinctNodes ==
  /\ Shape \in Nodes /\ Primitive \in Nodes /\ Scene \in Nodes /\ Objects \subseteq Nodes
  /\ Objects \cap {Shape, Primitive, Scene} = {} /\ None \notin Nodes
  /\ Shape # Primitive /\ Shape # Scene /\ Primitive # Scene
<1>1. Objects \subseteq Nat
  BY HandleRefsAssumption DEF Objects
<1>. QED
  BY <1>1, HandleRefsAssumption, NoneIsNoNode DEF Nodes, Handles

LEMMA Regroup == \A v, u, s \in Seq(Steps) : (v \o u) \o s = v \o (u \o s)
BY ConcatAssociative

LEMMA PutFirst ==
  \A s \in Seq(Steps), m \in Nodes, k \in {1, 2}, r \in Nodes \cup {None} :
    /\ Put(m, k, r) \o s \in Seq(Steps)
    /\ ToSet(Put(m, k, r) \o s) = ToSet(s) \cup {[op |-> "put", node |-> m, at |-> k, ref |-> r]}
    /\ \A n \in Nodes : Number(Put(m, k, r) \o s, Incs(n)) = Number(s, Incs(n))
    /\ \A n \in Nodes :
         Number(Put(m, k, r) \o s, Releases(n)) = Number(s, Releases(n)) + (IF n = r THEN 1 ELSE 0)
    /\ \A N : Well(s, N) /\ (\A y \in ToSet(s) : y.op = "put" => y.node # m)
              => Well(Put(m, k, r) \o s, N)
BY AddPut

LEMMA PieceTypes ==
  /\ \A n \in Nodes \cup {None} : Inc(n) \in Seq(Steps) /\ Dec(n) \in Seq(Steps)
  /\ \A n \in Nodes, k \in {1, 2}, r \in Nodes \cup {None} : Put(n, k, r) \in Seq(Steps)
  /\ \A o \in Objects : <<[op |-> "start", refs |-> <<o>>], [op |-> "wait"]>> \in Seq(Steps)
<1>1. \A x, y \in Steps : <<x>> \in Seq(Steps) /\ <<x, y>> \in Seq(Steps)
  OBVIOUS
<1>2. <<>> \in Seq(Steps)
  OBVIOUS
<1>3. \A n \in Nodes \cup {None} : Inc(n) \in Seq(Steps) /\ Dec(n) \in Seq(Steps)
  BY <1>1, <1>2, StepTypes DEF Inc, Dec
<1>4. \A n \in Nodes, k \in {1, 2}, r \in Nodes \cup {None} : Put(n, k, r) \in Seq(Steps)
  BY <1>1, StepTypes DEF Put
<1>5. ASSUME NEW o \in Objects
      PROVE  <<[op |-> "start", refs |-> <<o>>], [op |-> "wait"]>> \in Seq(Steps)
  <2>1. PICK x \in Steps : x = [op |-> "start", refs |-> <<o>>]
    BY StepTypes
  <2>2. PICK y \in Steps : y = [op |-> "wait"]
    BY StepTypes
  <2>. QED
    BY <1>1, <2>1, <2>2
<1>. QED
  BY <1>3, <1>4, <1>5

\* rtNewShapePrimitive.
LEMMA ProgramNewPrimitive ==
  ASSUME NEW N \in SUBSET Objects
  PROVE  LET p == Inc(Shape) \o Inc(Shape) \o Put(Primitive, 1, Shape) \o Dec(Shape) \o Unlock
         IN  /\ p \in Seq(Steps)
             /\ ToSet(p) = {[op |-> "unlock"]} \cup Drops(Shape)
                        \cup {[op |-> "put", node |-> Primitive, at |-> 1, ref |-> Shape]}
                        \cup Incs(Shape) \cup Incs(Shape)
             /\ \A n \in Nodes : Number(p, Incs(n)) = Is(n, Shape) + Is(n, Shape)
             /\ \A n \in Nodes : Number(p, Releases(n)) = Is(n, Shape) + Is(n, Shape)
             /\ Well(p, N)
<1> DEFINE u1 == Inc(Shape)
           u2 == Inc(Shape)
           u3 == Put(Primitive, 1, Shape)
           u4 == Dec(Shape)
           s5 == Unlock
           s4 == u4 \o s5
           s3 == u3 \o s4
           s2 == u2 \o s3
           s1 == u1 \o s2
<1>0. /\ Shape \in Nodes /\ Primitive \in Nodes /\ Scene \in Nodes /\ Objects \subseteq Nodes
      /\ Objects \cap {Shape, Primitive, Scene} = {} /\ None \notin Nodes
      /\ Shape # Primitive /\ Shape # Scene /\ Primitive # Scene
  BY DistinctNodes
<1>1. /\ s5 \in Seq(Steps)
      /\ ToSet(s5) = {[op |-> "unlock"]}
      /\ \A n \in Nodes : Number(s5, Incs(n)) = 0
      /\ \A n \in Nodes : Number(s5, Releases(n)) = 0
      /\ Well(s5, N)
  BY StepTypes, Endings DEF Unlock
<1>2. /\ s4 \in Seq(Steps)
      /\ ToSet(s4) = {[op |-> "unlock"]} \cup Drops(Shape)
      /\ \A n \in Nodes : Number(s4, Incs(n)) = 0
      /\ \A n \in Nodes : Number(s4, Releases(n)) = Is(n, Shape)
      /\ Well(s4, N)
  <2>. HIDE DEF s5
  <2>1. Shape \in Nodes \cup {None}
    BY <1>0
  <2>. QED
    BY <1>1, <2>1, AddDec DEF Is, Drops
<1>3. /\ s3 \in Seq(Steps)
      /\ ToSet(s3) = {[op |-> "unlock"]} \cup Drops(Shape)
                 \cup {[op |-> "put", node |-> Primitive, at |-> 1, ref |-> Shape]}
      /\ \A n \in Nodes : Number(s3, Incs(n)) = 0
      /\ \A n \in Nodes : Number(s3, Releases(n)) = Is(n, Shape) + Is(n, Shape)
      /\ Well(s3, N)
  <2>. HIDE DEF s4
  <2>1. \A y \in ToSet(s4) : y.op = "put" => y.node # Primitive
    BY <1>0, <1>2 DEF Incs, Drops
  <2>2. Primitive \in Nodes /\ Shape \in Nodes \cup {None}
    BY <1>0
  <2>3. 1 \in {1, 2}
    OBVIOUS
  <2>4. s4 \in Seq(Steps)
    BY <1>2
  <2>5. /\ s3 \in Seq(Steps)
        /\ ToSet(s3) = ToSet(s4) \cup {[op |-> "put", node |-> Primitive, at |-> 1, ref |-> Shape]}
        /\ \A n \in Nodes : Number(s3, Incs(n)) = Number(s4, Incs(n))
        /\ \A n \in Nodes : Number(s3, Releases(n)) = Number(s4, Releases(n)) + Is(n, Shape)
        /\ Well(s4, N) /\ (\A y \in ToSet(s4) : y.op = "put" => y.node # Primitive) => Well(s3, N)
    BY <2>2, <2>3, <2>4, PutFirst, SMTT(30) DEF Is
  <2>. QED
    BY <1>2, <2>1, <2>5 DEF Is
<1>4. /\ s2 \in Seq(Steps)
      /\ ToSet(s2) = {[op |-> "unlock"]} \cup Drops(Shape)
                 \cup {[op |-> "put", node |-> Primitive, at |-> 1, ref |-> Shape]}
                 \cup Incs(Shape)
      /\ \A n \in Nodes : Number(s2, Incs(n)) = Is(n, Shape)
      /\ \A n \in Nodes : Number(s2, Releases(n)) = Is(n, Shape) + Is(n, Shape)
      /\ Well(s2, N)
  <2>. HIDE DEF s3
  <2>1. Shape \in Nodes => Number(s3, Incs(Shape)) < Number(s3, Releases(Shape))
    BY <1>0, <1>3 DEF Is
  <2>2. Shape \in N => \A y \in ToSet(s3) : y.op \in {"inc", "put"} => y.node # Shape
    BY <1>0, <1>3 DEF Incs, Drops
  <2>3. Shape \in Nodes \cup {None}
    BY <1>0
  <2>. QED
    BY <1>3, <2>1, <2>2, <2>3, AddInc DEF Is
<1>5. /\ s1 \in Seq(Steps)
      /\ ToSet(s1) = {[op |-> "unlock"]} \cup Drops(Shape)
                 \cup {[op |-> "put", node |-> Primitive, at |-> 1, ref |-> Shape]}
                 \cup Incs(Shape) \cup Incs(Shape)
      /\ \A n \in Nodes : Number(s1, Incs(n)) = Is(n, Shape) + Is(n, Shape)
      /\ \A n \in Nodes : Number(s1, Releases(n)) = Is(n, Shape) + Is(n, Shape)
      /\ Well(s1, N)
  <2>. HIDE DEF s2
  <2>1. Shape \in Nodes => Number(s2, Incs(Shape)) < Number(s2, Releases(Shape))
    BY <1>0, <1>4 DEF Is
  <2>2. Shape \in N => \A y \in ToSet(s2) : y.op \in {"inc", "put"} => y.node # Shape
    BY <1>0, <1>4 DEF Incs, Drops
  <2>3. Shape \in Nodes \cup {None}
    BY <1>0
  <2>. QED
    BY <1>4, <2>1, <2>2, <2>3, AddInc DEF Is
<1>6. u1 \o u2 \o u3 \o u4 \o s5 = s1
  <2>1. u1 \in Seq(Steps) /\ u2 \in Seq(Steps) /\ u3 \in Seq(Steps) /\ u4 \in Seq(Steps)
    BY <1>0, PieceTypes
  <2>2. s1 \in Seq(Steps) /\ s2 \in Seq(Steps) /\ s3 \in Seq(Steps) /\ s4 \in Seq(Steps) /\ s5 \in Seq(Steps)
    BY <1>1, <1>2, <1>3, <1>4, <1>5
  <2> DEFINE v1 == u1
             v2 == v1 \o u2
             v3 == v2 \o u3
             v4 == v3 \o u4
  <2>. HIDE DEF u1, u2, u3, u4
  <2>3. v1 \in Seq(Steps) /\ v2 \in Seq(Steps) /\ v3 \in Seq(Steps) /\ v4 \in Seq(Steps)
    BY <2>1, ConcatProperties
  <2>4. v4 \o s5 = v3 \o s4
    <3>. HIDE DEF v1, v2, v3, v4
    <3>. HIDE DEF s1, s2, s3, s4, s5
    <3>0. v3 \in Seq(Steps) /\ u4 \in Seq(Steps) /\ s5 \in Seq(Steps)
      BY <2>1, <2>2, <2>3
    <3>1. (v3 \o u4) \o s5 = v3 \o (u4 \o s5)
      BY <3>0, Regroup
    <3>. QED
      BY <3>1 DEF v4, s4
  <2>5. v3 \o s4 = v2 \o s3
    <3>. HIDE DEF v1, v2, v3, v4
    <3>. HIDE DEF s1, s2, s3, s4, s5
    <3>0. v2 \in Seq(Steps) /\ u3 \in Seq(Steps) /\ s4 \in Seq(Steps)
      BY <2>1, <2>2, <2>3
    <3>1. (v2 \o u3) \o s4 = v2 \o (u3 \o s4)
      BY <3>0, Regroup
    <3>. QED
      BY <3>1 DEF v3, s3
  <2>6. v2 \o s3 = v1 \o s2
    <3>. HIDE DEF v1, v2, v3, v4
    <3>. HIDE DEF s1, s2, s3, s4, s5
    <3>0. v1 \in Seq(Steps) /\ u2 \in Seq(Steps) /\ s3 \in Seq(Steps)
      BY <2>1, <2>2, <2>3
    <3>1. (v1 \o u2) \o s3 = v1 \o (u2 \o s3)
      BY <3>0, Regroup
    <3>. QED
      BY <3>1 DEF v2, s2
  <2>. HIDE DEF s1, s2, s3, s4, s5
  <2>. QED
    BY <2>4, <2>5, <2>6 DEF s1
<1>. QED
  BY <1>5, <1>6

\* rtCommit of a shape.
LEMMA ProgramCommitShape ==
  ASSUME NEW o \in Objects, NEW old \in Nodes \cup {None}, NEW N \in SUBSET Objects
  PROVE  LET p == Inc(o) \o Dec(old) \o Put(Shape, 1, o) \o Unlock
         IN  /\ p \in Seq(Steps)
             /\ ToSet(p) = {[op |-> "unlock"]}
                        \cup {[op |-> "put", node |-> Shape, at |-> 1, ref |-> o]}
                        \cup Drops(old) \cup Incs(o)
             /\ \A n \in Nodes : Number(p, Incs(n)) = Is(n, o)
             /\ \A n \in Nodes : Number(p, Releases(n)) = Is(n, o) + Is(n, old)
             /\ Well(p, N)
<1> DEFINE u1 == Inc(o)
           u2 == Dec(old)
           u3 == Put(Shape, 1, o)
           s4 == Unlock
           s3 == u3 \o s4
           s2 == u2 \o s3
           s1 == u1 \o s2
<1>0. /\ Shape \in Nodes /\ Primitive \in Nodes /\ Scene \in Nodes /\ Objects \subseteq Nodes
      /\ Objects \cap {Shape, Primitive, Scene} = {} /\ None \notin Nodes
      /\ Shape # Primitive /\ Shape # Scene /\ Primitive # Scene
  BY DistinctNodes
<1>1. /\ s4 \in Seq(Steps)
      /\ ToSet(s4) = {[op |-> "unlock"]}
      /\ \A n \in Nodes : Number(s4, Incs(n)) = 0
      /\ \A n \in Nodes : Number(s4, Releases(n)) = 0
      /\ Well(s4, N)
  BY StepTypes, Endings DEF Unlock
<1>2. /\ s3 \in Seq(Steps)
      /\ ToSet(s3) = {[op |-> "unlock"]}
                 \cup {[op |-> "put", node |-> Shape, at |-> 1, ref |-> o]}
      /\ \A n \in Nodes : Number(s3, Incs(n)) = 0
      /\ \A n \in Nodes : Number(s3, Releases(n)) = Is(n, o)
      /\ Well(s3, N)
  <2>. HIDE DEF s4
  <2>1. \A y \in ToSet(s4) : y.op = "put" => y.node # Shape
    BY <1>0, <1>1 DEF Incs, Drops
  <2>2. Shape \in Nodes /\ o \in Nodes \cup {None}
    BY <1>0
  <2>3. 1 \in {1, 2}
    OBVIOUS
  <2>4. s4 \in Seq(Steps)
    BY <1>1
  <2>5. /\ s3 \in Seq(Steps)
        /\ ToSet(s3) = ToSet(s4) \cup {[op |-> "put", node |-> Shape, at |-> 1, ref |-> o]}
        /\ \A n \in Nodes : Number(s3, Incs(n)) = Number(s4, Incs(n))
        /\ \A n \in Nodes : Number(s3, Releases(n)) = Number(s4, Releases(n)) + Is(n, o)
        /\ Well(s4, N) /\ (\A y \in ToSet(s4) : y.op = "put" => y.node # Shape) => Well(s3, N)
    BY <2>2, <2>3, <2>4, PutFirst, SMTT(30) DEF Is
  <2>. QED
    BY <1>1, <2>1, <2>5 DEF Is
<1>3. /\ s2 \in Seq(Steps)
      /\ ToSet(s2) = {[op |-> "unlock"]}
                 \cup {[op |-> "put", node |-> Shape, at |-> 1, ref |-> o]}
                 \cup Drops(old)
      /\ \A n \in Nodes : Number(s2, Incs(n)) = 0
      /\ \A n \in Nodes : Number(s2, Releases(n)) = Is(n, o) + Is(n, old)
      /\ Well(s2, N)
  <2>. HIDE DEF s3
  <2>1. old \in Nodes \cup {None}
    BY <1>0
  <2>. QED
    BY <1>2, <2>1, AddDec DEF Is, Drops
<1>4. /\ s1 \in Seq(Steps)
      /\ ToSet(s1) = {[op |-> "unlock"]}
                 \cup {[op |-> "put", node |-> Shape, at |-> 1, ref |-> o]}
                 \cup Drops(old) \cup Incs(o)
      /\ \A n \in Nodes : Number(s1, Incs(n)) = Is(n, o)
      /\ \A n \in Nodes : Number(s1, Releases(n)) = Is(n, o) + Is(n, old)
      /\ Well(s1, N)
  <2>. HIDE DEF s2
  <2>1. o \in Nodes => Number(s2, Incs(o)) < Number(s2, Releases(o))
    BY <1>0, <1>3 DEF Is
  <2>2. o \in N => \A y \in ToSet(s2) : y.op \in {"inc", "put"} => y.node # o
    BY <1>0, <1>3 DEF Incs, Drops
  <2>3. o \in Nodes \cup {None}
    BY <1>0
  <2>. QED
    BY <1>3, <2>1, <2>2, <2>3, AddInc DEF Is
<1>5. u1 \o u2 \o u3 \o s4 = s1
  <2>1. u1 \in Seq(Steps) /\ u2 \in Seq(Steps) /\ u3 \in Seq(Steps)
    BY <1>0, PieceTypes
  <2>2. s1 \in Seq(Steps) /\ s2 \in Seq(Steps) /\ s3 \in Seq(Steps) /\ s4 \in Seq(Steps)
    BY <1>1, <1>2, <1>3, <1>4
  <2> DEFINE v1 == u1
             v2 == v1 \o u2
             v3 == v2 \o u3
  <2>. HIDE DEF u1, u2, u3
  <2>3. v1 \in Seq(Steps) /\ v2 \in Seq(Steps) /\ v3 \in Seq(Steps)
    BY <2>1, ConcatProperties
  <2>4. v3 \o s4 = v2 \o s3
    <3>. HIDE DEF v1, v2, v3
    <3>. HIDE DEF s1, s2, s3, s4
    <3>0. v2 \in Seq(Steps) /\ u3 \in Seq(Steps) /\ s4 \in Seq(Steps)
      BY <2>1, <2>2, <2>3
    <3>1. (v2 \o u3) \o s4 = v2 \o (u3 \o s4)
      BY <3>0, Regroup
    <3>. QED
      BY <3>1 DEF v3, s3
  <2>5. v2 \o s3 = v1 \o s2
    <3>. HIDE DEF v1, v2, v3
    <3>. HIDE DEF s1, s2, s3, s4
    <3>0. v1 \in Seq(Steps) /\ u2 \in Seq(Steps) /\ s3 \in Seq(Steps)
      BY <2>1, <2>2, <2>3
    <3>1. (v1 \o u2) \o s3 = v1 \o (u2 \o s3)
      BY <3>0, Regroup
    <3>. QED
      BY <3>1 DEF v2, s2
  <2>. HIDE DEF s1, s2, s3, s4
  <2>. QED
    BY <2>4, <2>5 DEF s1
<1>. QED
  BY <1>4, <1>5

\* rtSetPrimitive.
LEMMA ProgramSetPrimitive ==
  ASSUME NEW o \in Objects, NEW shape \in Nodes \cup {None}, NEW old \in Objects \cup {None}, NEW N \in SUBSET Objects,
         shape # o, shape \notin N
  PROVE  LET p == Inc(Primitive) \o Inc(shape) \o Inc(shape) \o Put(o, 1, shape) \o Inc(o) \o Dec(old) \o Put(Scene, 2, o) \o Dec(shape) \o Dec(Primitive) \o Unlock
         IN  /\ p \in Seq(Steps)
             /\ ToSet(p) = {[op |-> "unlock"]} \cup Drops(Primitive) \cup Drops(shape)
                        \cup {[op |-> "put", node |-> Scene, at |-> 2, ref |-> o]}
                        \cup Drops(old) \cup Incs(o)
                        \cup {[op |-> "put", node |-> o, at |-> 1, ref |-> shape]}
                        \cup Incs(shape) \cup Incs(shape) \cup Incs(Primitive)
             /\ \A n \in Nodes : Number(p, Incs(n)) = Is(n, Primitive) + Is(n, shape) + Is(n, shape) + Is(n, o)
             /\ \A n \in Nodes : Number(p, Releases(n))
                   = Is(n, Primitive) + Is(n, shape) + Is(n, o) + Is(n, old) + Is(n, shape)
             /\ Well(p, N)
<1> DEFINE u1 == Inc(Primitive)
           u2 == Inc(shape)
           u3 == Inc(shape)
           u4 == Put(o, 1, shape)
           u5 == Inc(o)
           u6 == Dec(old)
           u7 == Put(Scene, 2, o)
           u8 == Dec(shape)
           u9 == Dec(Primitive)
           s10 == Unlock
           s9 == u9 \o s10
           s8 == u8 \o s9
           s7 == u7 \o s8
           s6 == u6 \o s7
           s5 == u5 \o s6
           s4 == u4 \o s5
           s3 == u3 \o s4
           s2 == u2 \o s3
           s1 == u1 \o s2
<1>0. /\ Shape \in Nodes /\ Primitive \in Nodes /\ Scene \in Nodes /\ Objects \subseteq Nodes
      /\ Objects \cap {Shape, Primitive, Scene} = {} /\ None \notin Nodes
      /\ Shape # Primitive /\ Shape # Scene /\ Primitive # Scene
  BY DistinctNodes
<1>1. /\ s10 \in Seq(Steps)
      /\ ToSet(s10) = {[op |-> "unlock"]}
      /\ \A n \in Nodes : Number(s10, Incs(n)) = 0
      /\ \A n \in Nodes : Number(s10, Releases(n)) = 0
      /\ Well(s10, N)
  BY StepTypes, Endings DEF Unlock
<1>2. /\ s9 \in Seq(Steps)
      /\ ToSet(s9) = {[op |-> "unlock"]} \cup Drops(Primitive)
      /\ \A n \in Nodes : Number(s9, Incs(n)) = 0
      /\ \A n \in Nodes : Number(s9, Releases(n)) = Is(n, Primitive)
      /\ Well(s9, N)
  <2>. HIDE DEF s10
  <2>1. Primitive \in Nodes \cup {None}
    BY <1>0
  <2>. QED
    BY <1>1, <2>1, AddDec DEF Is, Drops
<1>3. /\ s8 \in Seq(Steps)
      /\ ToSet(s8) = {[op |-> "unlock"]} \cup Drops(Primitive) \cup Drops(shape)
      /\ \A n \in Nodes : Number(s8, Incs(n)) = 0
      /\ \A n \in Nodes : Number(s8, Releases(n)) = Is(n, Primitive) + Is(n, shape)
      /\ Well(s8, N)
  <2>. HIDE DEF s9
  <2>1. shape \in Nodes \cup {None}
    BY <1>0
  <2>. QED
    BY <1>2, <2>1, AddDec DEF Is, Drops
<1>4. /\ s7 \in Seq(Steps)
      /\ ToSet(s7) = {[op |-> "unlock"]} \cup Drops(Primitive) \cup Drops(shape)
                 \cup {[op |-> "put", node |-> Scene, at |-> 2, ref |-> o]}
      /\ \A n \in Nodes : Number(s7, Incs(n)) = 0
      /\ \A n \in Nodes : Number(s7, Releases(n))
            = Is(n, Primitive) + Is(n, shape) + Is(n, o)
      /\ Well(s7, N)
  <2>. HIDE DEF s8
  <2>1. \A y \in ToSet(s8) : y.op = "put" => y.node # Scene
    BY <1>0, <1>3 DEF Incs, Drops
  <2>2. Scene \in Nodes /\ o \in Nodes \cup {None}
    BY <1>0
  <2>3. 2 \in {1, 2}
    OBVIOUS
  <2>4. s8 \in Seq(Steps)
    BY <1>3
  <2>5. /\ s7 \in Seq(Steps)
        /\ ToSet(s7) = ToSet(s8) \cup {[op |-> "put", node |-> Scene, at |-> 2, ref |-> o]}
        /\ \A n \in Nodes : Number(s7, Incs(n)) = Number(s8, Incs(n))
        /\ \A n \in Nodes : Number(s7, Releases(n)) = Number(s8, Releases(n)) + Is(n, o)
        /\ Well(s8, N) /\ (\A y \in ToSet(s8) : y.op = "put" => y.node # Scene) => Well(s7, N)
    BY <2>2, <2>3, <2>4, PutFirst, SMTT(30) DEF Is
  <2>. QED
    BY <1>3, <2>1, <2>5 DEF Is
<1>5. /\ s6 \in Seq(Steps)
      /\ ToSet(s6) = {[op |-> "unlock"]} \cup Drops(Primitive) \cup Drops(shape)
                 \cup {[op |-> "put", node |-> Scene, at |-> 2, ref |-> o]}
                 \cup Drops(old)
      /\ \A n \in Nodes : Number(s6, Incs(n)) = 0
      /\ \A n \in Nodes : Number(s6, Releases(n))
            = Is(n, Primitive) + Is(n, shape) + Is(n, o) + Is(n, old)
      /\ Well(s6, N)
  <2>. HIDE DEF s7
  <2>1. old \in Nodes \cup {None}
    BY <1>0
  <2>. QED
    BY <1>4, <2>1, AddDec DEF Is, Drops
<1>6. /\ s5 \in Seq(Steps)
      /\ ToSet(s5) = {[op |-> "unlock"]} \cup Drops(Primitive) \cup Drops(shape)
                 \cup {[op |-> "put", node |-> Scene, at |-> 2, ref |-> o]}
                 \cup Drops(old) \cup Incs(o)
      /\ \A n \in Nodes : Number(s5, Incs(n)) = Is(n, o)
      /\ \A n \in Nodes : Number(s5, Releases(n))
            = Is(n, Primitive) + Is(n, shape) + Is(n, o) + Is(n, old)
      /\ Well(s5, N)
  <2>. HIDE DEF s6
  <2>1. o \in Nodes => Number(s6, Incs(o)) < Number(s6, Releases(o))
    BY <1>0, <1>5 DEF Is
  <2>2. o \in N => \A y \in ToSet(s6) : y.op \in {"inc", "put"} => y.node # o
    BY <1>0, <1>5 DEF Incs, Drops
  <2>3. o \in Nodes \cup {None}
    BY <1>0
  <2>. QED
    BY <1>5, <2>1, <2>2, <2>3, AddInc DEF Is
<1>7. /\ s4 \in Seq(Steps)
      /\ ToSet(s4) = {[op |-> "unlock"]} \cup Drops(Primitive) \cup Drops(shape)
                 \cup {[op |-> "put", node |-> Scene, at |-> 2, ref |-> o]}
                 \cup Drops(old) \cup Incs(o)
                 \cup {[op |-> "put", node |-> o, at |-> 1, ref |-> shape]}
      /\ \A n \in Nodes : Number(s4, Incs(n)) = Is(n, o)
      /\ \A n \in Nodes : Number(s4, Releases(n))
            = Is(n, Primitive) + Is(n, shape) + Is(n, o) + Is(n, old) + Is(n, shape)
      /\ Well(s4, N)
  <2>. HIDE DEF s5
  <2>1. \A y \in ToSet(s5) : y.op = "put" => y.node # o
    BY <1>0, <1>6 DEF Incs, Drops
  <2>2. o \in Nodes /\ shape \in Nodes \cup {None}
    BY <1>0
  <2>3. 1 \in {1, 2}
    OBVIOUS
  <2>4. s5 \in Seq(Steps)
    BY <1>6
  <2>5. /\ s4 \in Seq(Steps)
        /\ ToSet(s4) = ToSet(s5) \cup {[op |-> "put", node |-> o, at |-> 1, ref |-> shape]}
        /\ \A n \in Nodes : Number(s4, Incs(n)) = Number(s5, Incs(n))
        /\ \A n \in Nodes : Number(s4, Releases(n)) = Number(s5, Releases(n)) + Is(n, shape)
        /\ Well(s5, N) /\ (\A y \in ToSet(s5) : y.op = "put" => y.node # o) => Well(s4, N)
    BY <2>2, <2>3, <2>4, PutFirst, SMTT(30) DEF Is
  <2>. QED
    BY <1>6, <2>1, <2>5 DEF Is
<1>8. /\ s3 \in Seq(Steps)
      /\ ToSet(s3) = {[op |-> "unlock"]} \cup Drops(Primitive) \cup Drops(shape)
                 \cup {[op |-> "put", node |-> Scene, at |-> 2, ref |-> o]}
                 \cup Drops(old) \cup Incs(o)
                 \cup {[op |-> "put", node |-> o, at |-> 1, ref |-> shape]}
                 \cup Incs(shape)
      /\ \A n \in Nodes : Number(s3, Incs(n)) = Is(n, shape) + Is(n, o)
      /\ \A n \in Nodes : Number(s3, Releases(n))
            = Is(n, Primitive) + Is(n, shape) + Is(n, o) + Is(n, old) + Is(n, shape)
      /\ Well(s3, N)
  <2>. HIDE DEF s4
  <2>1. shape \in Nodes => Number(s4, Incs(shape)) < Number(s4, Releases(shape))
    BY <1>0, <1>7 DEF Is
  <2>2. shape \in N => \A y \in ToSet(s4) : y.op \in {"inc", "put"} => y.node # shape
    BY <1>0, <1>7 DEF Incs, Drops
  <2>3. shape \in Nodes \cup {None}
    BY <1>0
  <2>. QED
    BY <1>7, <2>1, <2>2, <2>3, AddInc DEF Is
<1>9. /\ s2 \in Seq(Steps)
      /\ ToSet(s2) = {[op |-> "unlock"]} \cup Drops(Primitive) \cup Drops(shape)
                 \cup {[op |-> "put", node |-> Scene, at |-> 2, ref |-> o]}
                 \cup Drops(old) \cup Incs(o)
                 \cup {[op |-> "put", node |-> o, at |-> 1, ref |-> shape]}
                 \cup Incs(shape) \cup Incs(shape)
      /\ \A n \in Nodes : Number(s2, Incs(n)) = Is(n, shape) + Is(n, shape) + Is(n, o)
      /\ \A n \in Nodes : Number(s2, Releases(n))
            = Is(n, Primitive) + Is(n, shape) + Is(n, o) + Is(n, old) + Is(n, shape)
      /\ Well(s2, N)
  <2>. HIDE DEF s3
  <2>1. shape \in Nodes => Number(s3, Incs(shape)) < Number(s3, Releases(shape))
    BY <1>0, <1>8 DEF Is
  <2>2. shape \in N => \A y \in ToSet(s3) : y.op \in {"inc", "put"} => y.node # shape
    BY <1>0, <1>8 DEF Incs, Drops
  <2>3. shape \in Nodes \cup {None}
    BY <1>0
  <2>. QED
    BY <1>8, <2>1, <2>2, <2>3, AddInc DEF Is
<1>10. /\ s1 \in Seq(Steps)
       /\ ToSet(s1) = {[op |-> "unlock"]} \cup Drops(Primitive) \cup Drops(shape)
                  \cup {[op |-> "put", node |-> Scene, at |-> 2, ref |-> o]}
                  \cup Drops(old) \cup Incs(o)
                  \cup {[op |-> "put", node |-> o, at |-> 1, ref |-> shape]}
                  \cup Incs(shape) \cup Incs(shape) \cup Incs(Primitive)
       /\ \A n \in Nodes : Number(s1, Incs(n)) = Is(n, Primitive) + Is(n, shape) + Is(n, shape) + Is(n, o)
       /\ \A n \in Nodes : Number(s1, Releases(n))
             = Is(n, Primitive) + Is(n, shape) + Is(n, o) + Is(n, old) + Is(n, shape)
       /\ Well(s1, N)
  <2>. HIDE DEF s2
  <2>1. Primitive \in Nodes => Number(s2, Incs(Primitive)) < Number(s2, Releases(Primitive))
    BY <1>0, <1>9 DEF Is
  <2>2. Primitive \in N => \A y \in ToSet(s2) : y.op \in {"inc", "put"} => y.node # Primitive
    BY <1>0, <1>9 DEF Incs, Drops
  <2>3. Primitive \in Nodes \cup {None}
    BY <1>0
  <2>. QED
    BY <1>9, <2>1, <2>2, <2>3, AddInc DEF Is
<1>11. u1 \o u2 \o u3 \o u4 \o u5 \o u6 \o u7 \o u8 \o u9 \o s10 = s1
  <2>1. u1 \in Seq(Steps) /\ u2 \in Seq(Steps) /\ u3 \in Seq(Steps) /\ u4 \in Seq(Steps) /\ u5 \in Seq(Steps) /\ u6 \in Seq(Steps) /\ u7 \in Seq(Steps) /\ u8 \in Seq(Steps) /\ u9 \in Seq(Steps)
    BY <1>0, PieceTypes
  <2>2. s1 \in Seq(Steps) /\ s2 \in Seq(Steps) /\ s3 \in Seq(Steps) /\ s4 \in Seq(Steps) /\ s5 \in Seq(Steps) /\ s6 \in Seq(Steps) /\ s7 \in Seq(Steps) /\ s8 \in Seq(Steps) /\ s9 \in Seq(Steps) /\ s10 \in Seq(Steps)
    BY <1>1, <1>2, <1>3, <1>4, <1>5, <1>6, <1>7, <1>8, <1>9, <1>10
  <2> DEFINE v1 == u1
             v2 == v1 \o u2
             v3 == v2 \o u3
             v4 == v3 \o u4
             v5 == v4 \o u5
             v6 == v5 \o u6
             v7 == v6 \o u7
             v8 == v7 \o u8
             v9 == v8 \o u9
  <2>. HIDE DEF u1, u2, u3, u4, u5, u6, u7, u8, u9
  <2>3. v1 \in Seq(Steps) /\ v2 \in Seq(Steps) /\ v3 \in Seq(Steps) /\ v4 \in Seq(Steps) /\ v5 \in Seq(Steps) /\ v6 \in Seq(Steps) /\ v7 \in Seq(Steps) /\ v8 \in Seq(Steps) /\ v9 \in Seq(Steps)
    BY <2>1, ConcatProperties
  <2>4. v9 \o s10 = v8 \o s9
    <3>. HIDE DEF v1, v2, v3, v4, v5, v6, v7, v8, v9
    <3>. HIDE DEF s1, s2, s3, s4, s5, s6, s7, s8, s9, s10
    <3>0. v8 \in Seq(Steps) /\ u9 \in Seq(Steps) /\ s10 \in Seq(Steps)
      BY <2>1, <2>2, <2>3
    <3>1. (v8 \o u9) \o s10 = v8 \o (u9 \o s10)
      BY <3>0, Regroup
    <3>. QED
      BY <3>1 DEF v9, s9
  <2>5. v8 \o s9 = v7 \o s8
    <3>. HIDE DEF v1, v2, v3, v4, v5, v6, v7, v8, v9
    <3>. HIDE DEF s1, s2, s3, s4, s5, s6, s7, s8, s9, s10
    <3>0. v7 \in Seq(Steps) /\ u8 \in Seq(Steps) /\ s9 \in Seq(Steps)
      BY <2>1, <2>2, <2>3
    <3>1. (v7 \o u8) \o s9 = v7 \o (u8 \o s9)
      BY <3>0, Regroup
    <3>. QED
      BY <3>1 DEF v8, s8
  <2>6. v7 \o s8 = v6 \o s7
    <3>. HIDE DEF v1, v2, v3, v4, v5, v6, v7, v8, v9
    <3>. HIDE DEF s1, s2, s3, s4, s5, s6, s7, s8, s9, s10
    <3>0. v6 \in Seq(Steps) /\ u7 \in Seq(Steps) /\ s8 \in Seq(Steps)
      BY <2>1, <2>2, <2>3
    <3>1. (v6 \o u7) \o s8 = v6 \o (u7 \o s8)
      BY <3>0, Regroup
    <3>. QED
      BY <3>1 DEF v7, s7
  <2>7. v6 \o s7 = v5 \o s6
    <3>. HIDE DEF v1, v2, v3, v4, v5, v6, v7, v8, v9
    <3>. HIDE DEF s1, s2, s3, s4, s5, s6, s7, s8, s9, s10
    <3>0. v5 \in Seq(Steps) /\ u6 \in Seq(Steps) /\ s7 \in Seq(Steps)
      BY <2>1, <2>2, <2>3
    <3>1. (v5 \o u6) \o s7 = v5 \o (u6 \o s7)
      BY <3>0, Regroup
    <3>. QED
      BY <3>1 DEF v6, s6
  <2>8. v5 \o s6 = v4 \o s5
    <3>. HIDE DEF v1, v2, v3, v4, v5, v6, v7, v8, v9
    <3>. HIDE DEF s1, s2, s3, s4, s5, s6, s7, s8, s9, s10
    <3>0. v4 \in Seq(Steps) /\ u5 \in Seq(Steps) /\ s6 \in Seq(Steps)
      BY <2>1, <2>2, <2>3
    <3>1. (v4 \o u5) \o s6 = v4 \o (u5 \o s6)
      BY <3>0, Regroup
    <3>. QED
      BY <3>1 DEF v5, s5
  <2>9. v4 \o s5 = v3 \o s4
    <3>. HIDE DEF v1, v2, v3, v4, v5, v6, v7, v8, v9
    <3>. HIDE DEF s1, s2, s3, s4, s5, s6, s7, s8, s9, s10
    <3>0. v3 \in Seq(Steps) /\ u4 \in Seq(Steps) /\ s5 \in Seq(Steps)
      BY <2>1, <2>2, <2>3
    <3>1. (v3 \o u4) \o s5 = v3 \o (u4 \o s5)
      BY <3>0, Regroup
    <3>. QED
      BY <3>1 DEF v4, s4
  <2>10. v3 \o s4 = v2 \o s3
    <3>. HIDE DEF v1, v2, v3, v4, v5, v6, v7, v8, v9
    <3>. HIDE DEF s1, s2, s3, s4, s5, s6, s7, s8, s9, s10
    <3>0. v2 \in Seq(Steps) /\ u3 \in Seq(Steps) /\ s4 \in Seq(Steps)
      BY <2>1, <2>2, <2>3
    <3>1. (v2 \o u3) \o s4 = v2 \o (u3 \o s4)
      BY <3>0, Regroup
    <3>. QED
      BY <3>1 DEF v3, s3
  <2>11. v2 \o s3 = v1 \o s2
    <3>. HIDE DEF v1, v2, v3, v4, v5, v6, v7, v8, v9
    <3>. HIDE DEF s1, s2, s3, s4, s5, s6, s7, s8, s9, s10
    <3>0. v1 \in Seq(Steps) /\ u2 \in Seq(Steps) /\ s3 \in Seq(Steps)
      BY <2>1, <2>2, <2>3
    <3>1. (v1 \o u2) \o s3 = v1 \o (u2 \o s3)
      BY <3>0, Regroup
    <3>. QED
      BY <3>1 DEF v2, s2
  <2>. HIDE DEF s1, s2, s3, s4, s5, s6, s7, s8, s9, s10
  <2>. QED
    BY <2>4, <2>5, <2>6, <2>7, <2>8, <2>9, <2>10, <2>11 DEF s1
<1>. QED
  BY <1>10, <1>11

\* rtCommit of the scene.
LEMMA ProgramCommitScene ==
  ASSUME NEW o \in Objects, NEW x \in Objects \cup {None}, NEW old \in Objects \cup {None}, NEW N \in SUBSET Objects,
         x # o, x \notin N
  PROVE  LET p == Inc(x) \o Put(o, 1, x) \o Inc(o) \o Dec(old) \o Put(Scene, 1, o) \o Unlock
         IN  /\ p \in Seq(Steps)
             /\ ToSet(p) = {[op |-> "unlock"]}
                        \cup {[op |-> "put", node |-> Scene, at |-> 1, ref |-> o]}
                        \cup Drops(old) \cup Incs(o)
                        \cup {[op |-> "put", node |-> o, at |-> 1, ref |-> x]}
                        \cup Incs(x)
             /\ \A n \in Nodes : Number(p, Incs(n)) = Is(n, x) + Is(n, o)
             /\ \A n \in Nodes : Number(p, Releases(n)) = Is(n, o) + Is(n, old) + Is(n, x)
             /\ Well(p, N)
<1> DEFINE u1 == Inc(x)
           u2 == Put(o, 1, x)
           u3 == Inc(o)
           u4 == Dec(old)
           u5 == Put(Scene, 1, o)
           s6 == Unlock
           s5 == u5 \o s6
           s4 == u4 \o s5
           s3 == u3 \o s4
           s2 == u2 \o s3
           s1 == u1 \o s2
<1>0. /\ Shape \in Nodes /\ Primitive \in Nodes /\ Scene \in Nodes /\ Objects \subseteq Nodes
      /\ Objects \cap {Shape, Primitive, Scene} = {} /\ None \notin Nodes
      /\ Shape # Primitive /\ Shape # Scene /\ Primitive # Scene
  BY DistinctNodes
<1>1. /\ s6 \in Seq(Steps)
      /\ ToSet(s6) = {[op |-> "unlock"]}
      /\ \A n \in Nodes : Number(s6, Incs(n)) = 0
      /\ \A n \in Nodes : Number(s6, Releases(n)) = 0
      /\ Well(s6, N)
  BY StepTypes, Endings DEF Unlock
<1>2. /\ s5 \in Seq(Steps)
      /\ ToSet(s5) = {[op |-> "unlock"]}
                 \cup {[op |-> "put", node |-> Scene, at |-> 1, ref |-> o]}
      /\ \A n \in Nodes : Number(s5, Incs(n)) = 0
      /\ \A n \in Nodes : Number(s5, Releases(n)) = Is(n, o)
      /\ Well(s5, N)
  <2>. HIDE DEF s6
  <2>1. \A y \in ToSet(s6) : y.op = "put" => y.node # Scene
    BY <1>0, <1>1 DEF Incs, Drops
  <2>2. Scene \in Nodes /\ o \in Nodes \cup {None}
    BY <1>0
  <2>3. 1 \in {1, 2}
    OBVIOUS
  <2>4. s6 \in Seq(Steps)
    BY <1>1
  <2>5. /\ s5 \in Seq(Steps)
        /\ ToSet(s5) = ToSet(s6) \cup {[op |-> "put", node |-> Scene, at |-> 1, ref |-> o]}
        /\ \A n \in Nodes : Number(s5, Incs(n)) = Number(s6, Incs(n))
        /\ \A n \in Nodes : Number(s5, Releases(n)) = Number(s6, Releases(n)) + Is(n, o)
        /\ Well(s6, N) /\ (\A y \in ToSet(s6) : y.op = "put" => y.node # Scene) => Well(s5, N)
    BY <2>2, <2>3, <2>4, PutFirst, SMTT(30) DEF Is
  <2>. QED
    BY <1>1, <2>1, <2>5 DEF Is
<1>3. /\ s4 \in Seq(Steps)
      /\ ToSet(s4) = {[op |-> "unlock"]}
                 \cup {[op |-> "put", node |-> Scene, at |-> 1, ref |-> o]}
                 \cup Drops(old)
      /\ \A n \in Nodes : Number(s4, Incs(n)) = 0
      /\ \A n \in Nodes : Number(s4, Releases(n)) = Is(n, o) + Is(n, old)
      /\ Well(s4, N)
  <2>. HIDE DEF s5
  <2>1. old \in Nodes \cup {None}
    BY <1>0
  <2>. QED
    BY <1>2, <2>1, AddDec DEF Is, Drops
<1>4. /\ s3 \in Seq(Steps)
      /\ ToSet(s3) = {[op |-> "unlock"]}
                 \cup {[op |-> "put", node |-> Scene, at |-> 1, ref |-> o]}
                 \cup Drops(old) \cup Incs(o)
      /\ \A n \in Nodes : Number(s3, Incs(n)) = Is(n, o)
      /\ \A n \in Nodes : Number(s3, Releases(n)) = Is(n, o) + Is(n, old)
      /\ Well(s3, N)
  <2>. HIDE DEF s4
  <2>1. o \in Nodes => Number(s4, Incs(o)) < Number(s4, Releases(o))
    BY <1>0, <1>3 DEF Is
  <2>2. o \in N => \A y \in ToSet(s4) : y.op \in {"inc", "put"} => y.node # o
    BY <1>0, <1>3 DEF Incs, Drops
  <2>3. o \in Nodes \cup {None}
    BY <1>0
  <2>. QED
    BY <1>3, <2>1, <2>2, <2>3, AddInc DEF Is
<1>5. /\ s2 \in Seq(Steps)
      /\ ToSet(s2) = {[op |-> "unlock"]}
                 \cup {[op |-> "put", node |-> Scene, at |-> 1, ref |-> o]}
                 \cup Drops(old) \cup Incs(o)
                 \cup {[op |-> "put", node |-> o, at |-> 1, ref |-> x]}
      /\ \A n \in Nodes : Number(s2, Incs(n)) = Is(n, o)
      /\ \A n \in Nodes : Number(s2, Releases(n)) = Is(n, o) + Is(n, old) + Is(n, x)
      /\ Well(s2, N)
  <2>. HIDE DEF s3
  <2>1. \A y \in ToSet(s3) : y.op = "put" => y.node # o
    BY <1>0, <1>4 DEF Incs, Drops
  <2>2. o \in Nodes /\ x \in Nodes \cup {None}
    BY <1>0
  <2>3. 1 \in {1, 2}
    OBVIOUS
  <2>4. s3 \in Seq(Steps)
    BY <1>4
  <2>5. /\ s2 \in Seq(Steps)
        /\ ToSet(s2) = ToSet(s3) \cup {[op |-> "put", node |-> o, at |-> 1, ref |-> x]}
        /\ \A n \in Nodes : Number(s2, Incs(n)) = Number(s3, Incs(n))
        /\ \A n \in Nodes : Number(s2, Releases(n)) = Number(s3, Releases(n)) + Is(n, x)
        /\ Well(s3, N) /\ (\A y \in ToSet(s3) : y.op = "put" => y.node # o) => Well(s2, N)
    BY <2>2, <2>3, <2>4, PutFirst, SMTT(30) DEF Is
  <2>. QED
    BY <1>4, <2>1, <2>5 DEF Is
<1>6. /\ s1 \in Seq(Steps)
      /\ ToSet(s1) = {[op |-> "unlock"]}
                 \cup {[op |-> "put", node |-> Scene, at |-> 1, ref |-> o]}
                 \cup Drops(old) \cup Incs(o)
                 \cup {[op |-> "put", node |-> o, at |-> 1, ref |-> x]} \cup Incs(x)
      /\ \A n \in Nodes : Number(s1, Incs(n)) = Is(n, x) + Is(n, o)
      /\ \A n \in Nodes : Number(s1, Releases(n)) = Is(n, o) + Is(n, old) + Is(n, x)
      /\ Well(s1, N)
  <2>. HIDE DEF s2
  <2>1. x \in Nodes => Number(s2, Incs(x)) < Number(s2, Releases(x))
    BY <1>0, <1>5 DEF Is
  <2>2. x \in N => \A y \in ToSet(s2) : y.op \in {"inc", "put"} => y.node # x
    BY <1>0, <1>5 DEF Incs, Drops
  <2>3. x \in Nodes \cup {None}
    BY <1>0
  <2>. QED
    BY <1>5, <2>1, <2>2, <2>3, AddInc DEF Is
<1>7. u1 \o u2 \o u3 \o u4 \o u5 \o s6 = s1
  <2>1. u1 \in Seq(Steps) /\ u2 \in Seq(Steps) /\ u3 \in Seq(Steps) /\ u4 \in Seq(Steps) /\ u5 \in Seq(Steps)
    BY <1>0, PieceTypes
  <2>2. s1 \in Seq(Steps) /\ s2 \in Seq(Steps) /\ s3 \in Seq(Steps) /\ s4 \in Seq(Steps) /\ s5 \in Seq(Steps) /\ s6 \in Seq(Steps)
    BY <1>1, <1>2, <1>3, <1>4, <1>5, <1>6
  <2> DEFINE v1 == u1
             v2 == v1 \o u2
             v3 == v2 \o u3
             v4 == v3 \o u4
             v5 == v4 \o u5
  <2>. HIDE DEF u1, u2, u3, u4, u5
  <2>3. v1 \in Seq(Steps) /\ v2 \in Seq(Steps) /\ v3 \in Seq(Steps) /\ v4 \in Seq(Steps) /\ v5 \in Seq(Steps)
    BY <2>1, ConcatProperties
  <2>4. v5 \o s6 = v4 \o s5
    <3>. HIDE DEF v1, v2, v3, v4, v5
    <3>. HIDE DEF s1, s2, s3, s4, s5, s6
    <3>0. v4 \in Seq(Steps) /\ u5 \in Seq(Steps) /\ s6 \in Seq(Steps)
      BY <2>1, <2>2, <2>3
    <3>1. (v4 \o u5) \o s6 = v4 \o (u5 \o s6)
      BY <3>0, Regroup
    <3>. QED
      BY <3>1 DEF v5, s5
  <2>5. v4 \o s5 = v3 \o s4
    <3>. HIDE DEF v1, v2, v3, v4, v5
    <3>. HIDE DEF s1, s2, s3, s4, s5, s6
    <3>0. v3 \in Seq(Steps) /\ u4 \in Seq(Steps) /\ s5 \in Seq(Steps)
      BY <2>1, <2>2, <2>3
    <3>1. (v3 \o u4) \o s5 = v3 \o (u4 \o s5)
      BY <3>0, Regroup
    <3>. QED
      BY <3>1 DEF v4, s4
  <2>6. v3 \o s4 = v2 \o s3
    <3>. HIDE DEF v1, v2, v3, v4, v5
    <3>. HIDE DEF s1, s2, s3, s4, s5, s6
    <3>0. v2 \in Seq(Steps) /\ u3 \in Seq(Steps) /\ s4 \in Seq(Steps)
      BY <2>1, <2>2, <2>3
    <3>1. (v2 \o u3) \o s4 = v2 \o (u3 \o s4)
      BY <3>0, Regroup
    <3>. QED
      BY <3>1 DEF v3, s3
  <2>7. v2 \o s3 = v1 \o s2
    <3>. HIDE DEF v1, v2, v3, v4, v5
    <3>. HIDE DEF s1, s2, s3, s4, s5, s6
    <3>0. v1 \in Seq(Steps) /\ u2 \in Seq(Steps) /\ s3 \in Seq(Steps)
      BY <2>1, <2>2, <2>3
    <3>1. (v1 \o u2) \o s3 = v1 \o (u2 \o s3)
      BY <3>0, Regroup
    <3>. QED
      BY <3>1 DEF v2, s2
  <2>. HIDE DEF s1, s2, s3, s4, s5, s6
  <2>. QED
    BY <2>4, <2>5, <2>6, <2>7 DEF s1
<1>. QED
  BY <1>6, <1>7

\* rtRenderFrame.
LEMMA ProgramRenderFrame ==
  ASSUME NEW o \in Objects, NEW N \in SUBSET Objects,
         o \notin N
  PROVE  LET p == Inc(Scene) \o Inc(o) \o Inc(o) \o <<[op |-> "start", refs |-> <<o>>], [op |-> "wait"]>> \o Dec(o) \o Dec(Scene) \o Unlock
         IN  /\ p \in Seq(Steps)
             /\ ToSet(p) = {[op |-> "unlock"]} \cup Drops(Scene) \cup Drops(o)
                        \cup {[op |-> "start", refs |-> <<o>>], [op |-> "wait"]}
                        \cup Incs(o) \cup Incs(o) \cup Incs(Scene)
             /\ \A n \in Nodes : Number(p, Incs(n)) = Is(n, Scene) + Is(n, o) + Is(n, o)
             /\ \A n \in Nodes : Number(p, Releases(n))
                   = Is(n, Scene) + Is(n, o) + Is(n, o)
             /\ Well(p, N)
<1> DEFINE u1 == Inc(Scene)
           u2 == Inc(o)
           u3 == Inc(o)
           u4 == <<[op |-> "start", refs |-> <<o>>], [op |-> "wait"]>>
           u5 == Dec(o)
           u6 == Dec(Scene)
           s7 == Unlock
           s6 == u6 \o s7
           s5 == u5 \o s6
           s4 == u4 \o s5
           s3 == u3 \o s4
           s2 == u2 \o s3
           s1 == u1 \o s2
<1>0. /\ Shape \in Nodes /\ Primitive \in Nodes /\ Scene \in Nodes /\ Objects \subseteq Nodes
      /\ Objects \cap {Shape, Primitive, Scene} = {} /\ None \notin Nodes
      /\ Shape # Primitive /\ Shape # Scene /\ Primitive # Scene
  BY DistinctNodes
<1>1. /\ s7 \in Seq(Steps)
      /\ ToSet(s7) = {[op |-> "unlock"]}
      /\ \A n \in Nodes : Number(s7, Incs(n)) = 0
      /\ \A n \in Nodes : Number(s7, Releases(n)) = 0
      /\ Well(s7, N)
  BY StepTypes, Endings DEF Unlock
<1>2. /\ s6 \in Seq(Steps)
      /\ ToSet(s6) = {[op |-> "unlock"]} \cup Drops(Scene)
      /\ \A n \in Nodes : Number(s6, Incs(n)) = 0
      /\ \A n \in Nodes : Number(s6, Releases(n)) = Is(n, Scene)
      /\ Well(s6, N)
  <2>. HIDE DEF s7
  <2>1. Scene \in Nodes \cup {None}
    BY <1>0
  <2>. QED
    BY <1>1, <2>1, AddDec DEF Is, Drops
<1>3. /\ s5 \in Seq(Steps)
      /\ ToSet(s5) = {[op |-> "unlock"]} \cup Drops(Scene) \cup Drops(o)
      /\ \A n \in Nodes : Number(s5, Incs(n)) = 0
      /\ \A n \in Nodes : Number(s5, Releases(n)) = Is(n, Scene) + Is(n, o)
      /\ Well(s5, N)
  <2>. HIDE DEF s6
  <2>1. o \in Nodes \cup {None}
    BY <1>0
  <2>. QED
    BY <1>2, <2>1, AddDec DEF Is, Drops
<1>4. /\ s4 \in Seq(Steps)
      /\ ToSet(s4) = {[op |-> "unlock"]} \cup Drops(Scene) \cup Drops(o)
                 \cup {[op |-> "start", refs |-> <<o>>], [op |-> "wait"]}
      /\ \A n \in Nodes : Number(s4, Incs(n)) = 0
      /\ \A n \in Nodes : Number(s4, Releases(n)) = Is(n, Scene) + Is(n, o) + Is(n, o)
      /\ Well(s4, N)
  <2>. HIDE DEF s5
  <2>1. \A y \in ToSet(s5) : y.op # "start"
    BY <1>0, <1>3 DEF Incs, Drops
  <2>. QED
    BY <1>3, <2>1, AddStart DEF Is
<1>5. /\ s3 \in Seq(Steps)
      /\ ToSet(s3) = {[op |-> "unlock"]} \cup Drops(Scene) \cup Drops(o)
                 \cup {[op |-> "start", refs |-> <<o>>], [op |-> "wait"]}
                 \cup Incs(o)
      /\ \A n \in Nodes : Number(s3, Incs(n)) = Is(n, o)
      /\ \A n \in Nodes : Number(s3, Releases(n)) = Is(n, Scene) + Is(n, o) + Is(n, o)
      /\ Well(s3, N)
  <2>. HIDE DEF s4
  <2>1. o \in Nodes => Number(s4, Incs(o)) < Number(s4, Releases(o))
    BY <1>0, <1>4 DEF Is
  <2>2. o \in N => \A y \in ToSet(s4) : y.op \in {"inc", "put"} => y.node # o
    BY <1>0, <1>4 DEF Incs, Drops
  <2>3. o \in Nodes \cup {None}
    BY <1>0
  <2>. QED
    BY <1>4, <2>1, <2>2, <2>3, AddInc DEF Is
<1>6. /\ s2 \in Seq(Steps)
      /\ ToSet(s2) = {[op |-> "unlock"]} \cup Drops(Scene) \cup Drops(o)
                 \cup {[op |-> "start", refs |-> <<o>>], [op |-> "wait"]}
                 \cup Incs(o) \cup Incs(o)
      /\ \A n \in Nodes : Number(s2, Incs(n)) = Is(n, o) + Is(n, o)
      /\ \A n \in Nodes : Number(s2, Releases(n)) = Is(n, Scene) + Is(n, o) + Is(n, o)
      /\ Well(s2, N)
  <2>. HIDE DEF s3
  <2>1. o \in Nodes => Number(s3, Incs(o)) < Number(s3, Releases(o))
    BY <1>0, <1>5 DEF Is
  <2>2. o \in N => \A y \in ToSet(s3) : y.op \in {"inc", "put"} => y.node # o
    BY <1>0, <1>5 DEF Incs, Drops
  <2>3. o \in Nodes \cup {None}
    BY <1>0
  <2>. QED
    BY <1>5, <2>1, <2>2, <2>3, AddInc DEF Is
<1>7. /\ s1 \in Seq(Steps)
      /\ ToSet(s1) = {[op |-> "unlock"]} \cup Drops(Scene) \cup Drops(o)
                 \cup {[op |-> "start", refs |-> <<o>>], [op |-> "wait"]}
                 \cup Incs(o) \cup Incs(o) \cup Incs(Scene)
      /\ \A n \in Nodes : Number(s1, Incs(n)) = Is(n, Scene) + Is(n, o) + Is(n, o)
      /\ \A n \in Nodes : Number(s1, Releases(n)) = Is(n, Scene) + Is(n, o) + Is(n, o)
      /\ Well(s1, N)
  <2>. HIDE DEF s2
  <2>1. Scene \in Nodes => Number(s2, Incs(Scene)) < Number(s2, Releases(Scene))
    BY <1>0, <1>6 DEF Is
  <2>2. Scene \in N => \A y \in ToSet(s2) : y.op \in {"inc", "put"} => y.node # Scene
    BY <1>0, <1>6 DEF Incs, Drops
  <2>3. Scene \in Nodes \cup {None}
    BY <1>0
  <2>. QED
    BY <1>6, <2>1, <2>2, <2>3, AddInc DEF Is
<1>8. u1 \o u2 \o u3 \o u4 \o u5 \o u6 \o s7 = s1
  <2>1. u1 \in Seq(Steps) /\ u2 \in Seq(Steps) /\ u3 \in Seq(Steps) /\ u4 \in Seq(Steps) /\ u5 \in Seq(Steps) /\ u6 \in Seq(Steps)
    BY <1>0, PieceTypes
  <2>2. s1 \in Seq(Steps) /\ s2 \in Seq(Steps) /\ s3 \in Seq(Steps) /\ s4 \in Seq(Steps) /\ s5 \in Seq(Steps) /\ s6 \in Seq(Steps) /\ s7 \in Seq(Steps)
    BY <1>1, <1>2, <1>3, <1>4, <1>5, <1>6, <1>7
  <2> DEFINE v1 == u1
             v2 == v1 \o u2
             v3 == v2 \o u3
             v4 == v3 \o u4
             v5 == v4 \o u5
             v6 == v5 \o u6
  <2>. HIDE DEF u1, u2, u3, u4, u5, u6
  <2>3. v1 \in Seq(Steps) /\ v2 \in Seq(Steps) /\ v3 \in Seq(Steps) /\ v4 \in Seq(Steps) /\ v5 \in Seq(Steps) /\ v6 \in Seq(Steps)
    BY <2>1, ConcatProperties
  <2>4. v6 \o s7 = v5 \o s6
    <3>. HIDE DEF v1, v2, v3, v4, v5, v6
    <3>. HIDE DEF s1, s2, s3, s4, s5, s6, s7
    <3>0. v5 \in Seq(Steps) /\ u6 \in Seq(Steps) /\ s7 \in Seq(Steps)
      BY <2>1, <2>2, <2>3
    <3>1. (v5 \o u6) \o s7 = v5 \o (u6 \o s7)
      BY <3>0, Regroup
    <3>. QED
      BY <3>1 DEF v6, s6
  <2>5. v5 \o s6 = v4 \o s5
    <3>. HIDE DEF v1, v2, v3, v4, v5, v6
    <3>. HIDE DEF s1, s2, s3, s4, s5, s6, s7
    <3>0. v4 \in Seq(Steps) /\ u5 \in Seq(Steps) /\ s6 \in Seq(Steps)
      BY <2>1, <2>2, <2>3
    <3>1. (v4 \o u5) \o s6 = v4 \o (u5 \o s6)
      BY <3>0, Regroup
    <3>. QED
      BY <3>1 DEF v5, s5
  <2>6. v4 \o s5 = v3 \o s4
    <3>. HIDE DEF v1, v2, v3, v4, v5, v6
    <3>. HIDE DEF s1, s2, s3, s4, s5, s6, s7
    <3>0. v3 \in Seq(Steps) /\ u4 \in Seq(Steps) /\ s5 \in Seq(Steps)
      BY <2>1, <2>2, <2>3
    <3>1. (v3 \o u4) \o s5 = v3 \o (u4 \o s5)
      BY <3>0, Regroup
    <3>. QED
      BY <3>1 DEF v4, s4
  <2>7. v3 \o s4 = v2 \o s3
    <3>. HIDE DEF v1, v2, v3, v4, v5, v6
    <3>. HIDE DEF s1, s2, s3, s4, s5, s6, s7
    <3>0. v2 \in Seq(Steps) /\ u3 \in Seq(Steps) /\ s4 \in Seq(Steps)
      BY <2>1, <2>2, <2>3
    <3>1. (v2 \o u3) \o s4 = v2 \o (u3 \o s4)
      BY <3>0, Regroup
    <3>. QED
      BY <3>1 DEF v3, s3
  <2>8. v2 \o s3 = v1 \o s2
    <3>. HIDE DEF v1, v2, v3, v4, v5, v6
    <3>. HIDE DEF s1, s2, s3, s4, s5, s6, s7
    <3>0. v1 \in Seq(Steps) /\ u2 \in Seq(Steps) /\ s3 \in Seq(Steps)
      BY <2>1, <2>2, <2>3
    <3>1. (v1 \o u2) \o s3 = v1 \o (u2 \o s3)
      BY <3>0, Regroup
    <3>. QED
      BY <3>1 DEF v2, s2
  <2>. HIDE DEF s1, s2, s3, s4, s5, s6, s7
  <2>. QED
    BY <2>4, <2>5, <2>6, <2>7, <2>8 DEF s1
<1>. QED
  BY <1>7, <1>8

(***************************************************************************)
(* The steps of all actors.                                                *)
(***************************************************************************)
MarkedOf(a, T) == {k \in DOMAIN todo[a] : todo[a][k] \in T}
MarkedElsewhere(a, T) == {x \in Marked(T) : x[1] # a}

LEMMA MarkedSplit ==
  ASSUME NEW a \in Actors, NEW T, todo \in [Actors -> Seq(Steps)], IsFiniteSet(Marked(T))
  PROVE  /\ IsFiniteSet(MarkedElsewhere(a, T)) /\ Cardinality(MarkedElsewhere(a, T)) \in Nat
         /\ Number(todo[a], T) \in Nat
         /\ Cardinality(Marked(T)) = Cardinality(MarkedElsewhere(a, T)) + Number(todo[a], T)
<1> DEFINE K == MarkedOf(a, T)
           E == MarkedElsewhere(a, T)
<1>1. Marked(T) = E \cup ({a} \X K) /\ E \cap ({a} \X K) = {}
  <2>1. \A x \in Marked(T) : \E b \in Actors : x \in {b} \X MarkedOf(b, T)
    BY DEF Marked, MarkedOf
  <2>2. {a} \X K \subseteq Marked(T)
    BY DEF Marked, MarkedOf
  <2>3. \A x \in Marked(T) : x[1] = a => x \in {a} \X K
    BY <2>1
  <2>4. \A x \in {a} \X K : x[1] = a
    OBVIOUS
  <2>. HIDE DEF K
  <2>. QED
    BY <2>2, <2>3, <2>4 DEF MarkedElsewhere
<1>2. IsFiniteSet(K) /\ Number(todo[a], T) = Cardinality(K) /\ Number(todo[a], T) \in Nat
  BY NumberType DEF Number, MarkedOf
<1>3. IsFiniteSet({a}) /\ Cardinality({a}) = 1
  BY FS_Singleton
<1>. HIDE DEF K
<1>4. IsFiniteSet({a} \X K) /\ Cardinality({a} \X K) = 1 * Cardinality(K)
  BY <1>2, <1>3, FS_Product
<1>5. IsFiniteSet(E)
  BY FS_Subset DEF MarkedElsewhere
<1>. HIDE DEF E
<1>6. Cardinality(E) \in Nat
  BY <1>5, FS_CardinalityType
<1>7. Cardinality(E \cup ({a} \X K)) = Cardinality(E) + Cardinality({a} \X K)
  <2>1. Cardinality(E \cup ({a} \X K)) = Cardinality(E) + Cardinality({a} \X K) - Cardinality(E \cap ({a} \X K))
    BY <1>4, <1>5, FS_Union
  <2>2. Cardinality(E \cap ({a} \X K)) = 0
    BY <1>1, FS_EmptySet
  <2>. QED
    BY <1>2, <1>4, <1>6, <2>1, <2>2
<1>. QED
  BY <1>1, <1>2, <1>4, <1>5, <1>6, <1>7 DEF E

\* An actor goes on: the others have what they had.
LEMMA ActorChange ==
  ASSUME NEW a \in Actors, NEW s \in Seq(Steps), NEW T,
         todo \in [Actors -> Seq(Steps)], IsFiniteSet(Marked(T)),
         todo' = [todo EXCEPT ![a] = s]
  PROVE  /\ todo' \in [Actors -> Seq(Steps)] /\ IsFiniteSet(Marked(T)')
         /\ Cardinality(Marked(T)) \in Nat /\ Cardinality(Marked(T)') \in Nat
         /\ Number(todo[a], T) \in Nat /\ Number(s, T) \in Nat
         /\ Cardinality(Marked(T)') + Number(todo[a], T) = Cardinality(Marked(T)) + Number(s, T)
<1> DEFINE E == MarkedElsewhere(a, T)
           K == {k \in DOMAIN s : s[k] \in T}
<1>1. todo' \in [Actors -> Seq(Steps)] /\ todo'[a] = s /\ \A b \in Actors \ {a} : todo'[b] = todo[b]
  OBVIOUS
<1>2. Marked(T)' = E \cup ({a} \X K) /\ E \cap ({a} \X K) = {}
  <2>1. Marked(T)' = UNION {{b} \X {k \in DOMAIN todo'[b] : todo'[b][k] \in T} : b \in Actors}
    BY DEF Marked
  <2>2. \A b \in Actors \ {a} : {b} \X {k \in DOMAIN todo'[b] : todo'[b][k] \in T} = {b} \X MarkedOf(b, T)
    BY <1>1 DEF MarkedOf
  <2>3. {a} \X {k \in DOMAIN todo'[a] : todo'[a][k] \in T} = {a} \X K
    BY <1>1
  <2>4. \A b \in Actors \ {a} : {b} \X MarkedOf(b, T) \subseteq E
    BY DEF Marked, MarkedElsewhere, MarkedOf
  <2>5. \A x \in E : \E b \in Actors \ {a} : x \in {b} \X MarkedOf(b, T)
    BY DEF Marked, MarkedElsewhere, MarkedOf
  <2>6. \A x \in E : x[1] # a
    BY DEF MarkedElsewhere
  <2>7. \A x \in {a} \X K : x[1] = a
    OBVIOUS
  <2>. HIDE DEF E, K
  <2>8. Marked(T)' \subseteq E \cup ({a} \X K)
    <3>1. ASSUME NEW x \in Marked(T)' PROVE x \in E \cup ({a} \X K)
      <4>1. PICK b \in Actors : x \in {b} \X {k \in DOMAIN todo'[b] : todo'[b][k] \in T}
        BY <2>1
      <4>2. CASE b = a
        BY <2>3, <4>1, <4>2
      <4>3. CASE b # a
        BY <2>2, <2>4, <4>1, <4>3
      <4>. QED
        BY <4>2, <4>3
    <3>. QED
      BY <3>1
  <2>9. E \cup ({a} \X K) \subseteq Marked(T)'
    <3>1. ASSUME NEW x \in E PROVE x \in Marked(T)'
      <4>1. PICK b \in Actors \ {a} : x \in {b} \X MarkedOf(b, T)
        BY <2>5
      <4>2. x \in {b} \X {k \in DOMAIN todo'[b] : todo'[b][k] \in T}
        BY <2>2, <4>1
      <4>. QED
        BY <2>1, <4>2
    <3>2. ASSUME NEW x \in {a} \X K PROVE x \in Marked(T)'
      BY <2>1, <2>3
    <3>. QED
      BY <3>1, <3>2
  <2>. QED
    BY <2>6, <2>7, <2>8, <2>9
<1>3. IsFiniteSet(K) /\ Number(s, T) = Cardinality(K) /\ Number(s, T) \in Nat
  BY NumberType DEF Number
<1>4. /\ IsFiniteSet(E) /\ Cardinality(E) \in Nat /\ Number(todo[a], T) \in Nat
      /\ Cardinality(Marked(T)) = Cardinality(E) + Number(todo[a], T)
  BY MarkedSplit
<1>5. IsFiniteSet({a}) /\ Cardinality({a}) = 1
  BY FS_Singleton
<1>. HIDE DEF E, K
<1>6. IsFiniteSet({a} \X K) /\ Cardinality({a} \X K) = 1 * Cardinality(K)
  BY <1>3, <1>5, FS_Product
<1>7. /\ IsFiniteSet(E \cup ({a} \X K))
      /\ Cardinality(E \cup ({a} \X K)) = Cardinality(E) + Cardinality({a} \X K)
  <2>1. /\ IsFiniteSet(E \cup ({a} \X K))
        /\ Cardinality(E \cup ({a} \X K)) = Cardinality(E) + Cardinality({a} \X K) - Cardinality(E \cap ({a} \X K))
    BY <1>4, <1>6, FS_Union
  <2>2. Cardinality(E \cap ({a} \X K)) = 0
    BY <1>2, FS_EmptySet
  <2>. QED
    BY <1>3, <1>4, <1>6, <2>1, <2>2
<1>. QED
  BY <1>1, <1>2, <1>3, <1>4, <1>6, <1>7

\* Two actors together have at most what all have.
LEMMA TwoActors ==
  ASSUME NEW a \in Actors, NEW b \in Actors, a # b, NEW T,
         todo \in [Actors -> Seq(Steps)], IsFiniteSet(Marked(T))
  PROVE  /\ Number(todo[a], T) \in Nat /\ Number(todo[b], T) \in Nat /\ Cardinality(Marked(T)) \in Nat
         /\ Number(todo[a], T) + Number(todo[b], T) <= Cardinality(Marked(T))
<1> DEFINE E == MarkedElsewhere(a, T)
           K == MarkedOf(b, T)
<1>1. /\ IsFiniteSet(E) /\ Cardinality(E) \in Nat /\ Number(todo[a], T) \in Nat
      /\ Cardinality(Marked(T)) = Cardinality(E) + Number(todo[a], T)
  BY MarkedSplit
<1>2. {b} \X K \subseteq E
  BY DEF Marked, MarkedElsewhere, MarkedOf
<1>3. IsFiniteSet(K) /\ Number(todo[b], T) = Cardinality(K) /\ Number(todo[b], T) \in Nat
  BY NumberType DEF Number, MarkedOf
<1>4. IsFiniteSet({b}) /\ Cardinality({b}) = 1
  BY FS_Singleton
<1>. HIDE DEF E, K
<1>5. IsFiniteSet({b} \X K) /\ Cardinality({b} \X K) = 1 * Cardinality(K)
  BY <1>3, <1>4, FS_Product
<1>6. Cardinality({b} \X K) <= Cardinality(E)
  BY <1>1, <1>2, FS_Subset
<1>. QED
  BY <1>1, <1>3, <1>5, <1>6

\* Steps that nobody has, or only one actor.
LEMMA OneActor ==
  ASSUME NEW T, todo \in [Actors -> Seq(Steps)], NEW a \in Actors,
         \A b \in Actors \ {a} : \A x \in ToSet(todo[b]) : x \notin T
  PROVE  IsFiniteSet(Marked(T)) => Cardinality(Marked(T)) = Number(todo[a], T)
<1>1. SUFFICES ASSUME IsFiniteSet(Marked(T)) PROVE Cardinality(Marked(T)) = Number(todo[a], T)
  OBVIOUS
<1>2. MarkedElsewhere(a, T) = {}
  <2>1. ASSUME NEW x \in MarkedElsewhere(a, T) PROVE FALSE
    <3>1. PICK b \in Actors : x \in {b} \X {k \in DOMAIN todo[b] : todo[b][k] \in T}
      BY DEF MarkedElsewhere, Marked
    <3>2. b # a
      BY <3>1 DEF MarkedElsewhere
    <3>3. x[2] \in DOMAIN todo[b] /\ todo[b][x[2]] \in T
      BY <3>1
    <3>4. todo[b][x[2]] \in ToSet(todo[b])
      BY <3>3 DEF ToSet
    <3>. QED
      BY <3>2, <3>3, <3>4
  <2>. QED
    BY <2>1
<1>3. /\ Number(todo[a], T) \in Nat
      /\ Cardinality(Marked(T)) = Cardinality(MarkedElsewhere(a, T)) + Number(todo[a], T)
  BY <1>1, MarkedSplit
<1>. QED
  BY <1>2, <1>3, FS_EmptySet

LEMMA NoStep ==
  ASSUME NEW T, NEW s \in Seq(Steps), \A x \in ToSet(s) : x \notin T
  PROVE  Number(s, T) = 0
<1>1. {k \in DOMAIN s : s[k] \in T} = {}
  BY DEF ToSet
<1>. QED
  BY <1>1, FS_EmptySet DEF Number

LEMMA WellMono ==
  ASSUME NEW s \in Seq(Steps), NEW N, NEW M, Well(s, N),
         \A y \in ToSet(s) : y.op = "inc" /\ y.node \in M => y.node \in N
  PROVE  Well(s, M)
<1>1. ASSUME NEW k \in 1 .. Len(s) PROVE HeadOK(s[k], After(s, k), M)
  <2>1. s[k] \in ToSet(s)
    BY DEF ToSet
  <2>2. HeadOK(s[k], After(s, k), N)
    BY DEF Well
  <2>. QED
    BY <2>1, <2>2 DEF HeadOK
<1>. QED
  BY <1>1 DEF Well

(***************************************************************************)
(* What the invariant says of the next step of an actor, and of counters.  *)
(***************************************************************************)
LEMMA NextStep ==
  ASSUME Types, Control, NEW a \in Actors, ~Idle(a)
  PROVE  LET x == Head(todo[a])
             r == Rest(a)
         IN  /\ x \in Steps /\ r \in Seq(Steps) /\ todo[a] = Cons(x, r)
             /\ ToSet(todo[a]) = ToSet(r) \cup {x}
             /\ Well(r, Newborn) /\ HeadOK(x, r, Newborn) /\ StepOK(a, x)
             /\ \A y \in ToSet(r) : StepOK(a, y)
             /\ \A T : Number(todo[a], T) = Number(r, T) + (IF x \in T THEN 1 ELSE 0)
             /\ \A T : Number(r, T) \in Nat
<1>1. todo[a] \in Seq(Steps) /\ todo[a] # <<>>
  BY DEF Types, Idle
<1>2. PICK x, r : x = Head(todo[a]) /\ r = Rest(a)
  OBVIOUS
<1>3. x \in Steps /\ r \in Seq(Steps) /\ todo[a] = Cons(x, r)
  BY <1>1, <1>2, NonEmpty DEF Rest
<1>4. ToSet(todo[a]) = ToSet(r) \cup {x}
  BY <1>3, SetOfCons
<1>5. Well(todo[a], Newborn) /\ \A y \in ToSet(todo[a]) : StepOK(a, y)
  BY DEF Control
<1>6. Well(r, Newborn) /\ HeadOK(x, r, Newborn)
  BY <1>3, <1>5, WellCons
<1>7. \A T : Number(todo[a], T) = Number(r, T) + (IF x \in T THEN 1 ELSE 0)
  BY <1>3, NumberCons
<1>8. \A T : Number(r, T) \in Nat
  BY <1>3, NumberType
<1>. QED
  BY <1>2, <1>3, <1>4, <1>5, <1>6, <1>7, <1>8

LEMMA WellCovered ==
  ASSUME NEW s \in Seq(Steps), NEW N, Well(s, N), NEW n \in Nodes
  PROVE  Number(s, Incs(n)) <= Number(s, Releases(n))
<1>1. After(s, 0) = s /\ 0 \in 0 .. Len(s)
  BY DEF After
<1>2. Covered(After(s, 0))
  BY <1>1 DEF Well
<1>. QED
  BY <1>1, <1>2 DEF Covered

LEMMA HeldType ==
  ASSUME NEW n \in Nodes, Exact(n)
  PROVE  /\ Held(n) \in Nat
         /\ Owned(n) # {} \/ Placed(n) # {} \/ n = Scene \/ job = <<n>> => Held(n) >= 1
<1>1. Cardinality(Owned(n)) \in Nat /\ Cardinality(Placed(n)) \in Nat
  BY FS_CardinalityType DEF Exact
<1>2. /\ Owned(n) # {} => Cardinality(Owned(n)) # 0
      /\ Placed(n) # {} => Cardinality(Placed(n)) # 0
  BY FS_EmptySet DEF Exact
<1>3. PICK o, p, s, j :
        /\ o = Cardinality(Owned(n)) /\ p = Cardinality(Placed(n))
        /\ s = (IF n = Scene THEN 1 ELSE 0) /\ j = (IF job = <<n>> THEN 1 ELSE 0)
  OBVIOUS
<1>4. Held(n) = s + o + p + j
  BY <1>3 DEF Held
<1>5. /\ s \in {0, 1} /\ (n = Scene => s = 1)
      /\ j \in {0, 1} /\ (job = <<n>> => j = 1)
  BY <1>3
<1>. QED
  BY <1>1, <1>2, <1>3, <1>4, <1>5

\* Only the holder of the mutex increments counters, and puts Refs.
LEMMA Holder ==
  ASSUME Control, NEW b \in Actors, NEW x \in ToSet(todo[b]),
         x.op \in {"inc", "put", "start", "wait", "unlock"}
  PROVE  b = mutex /\ mutex # None
BY HandleRefsAssumption DEF Control, StepOK, Actors

LEMMA CountHolds ==
  ASSUME Types, Control, NEW n \in Nodes, Exact(n)
  PROVE  /\ count[n] >= Held(n) /\ count[n] \in Nat
         /\ \A a \in Actors : Does(a, "dec") /\ Head(todo[a]).node = n => count[n] >= Held(n) + 1
<1> DEFINE I == Cardinality(Marked(Incs(n)))
           R == Cardinality(Marked(Releases(n)))
           i(a) == Number(todo[a], Incs(n))
           r(a) == Number(todo[a], Releases(n))
<1>1. /\ todo \in [Actors -> Seq(Steps)] /\ count[n] \in Nat /\ Held(n) \in Nat
      /\ IsFiniteSet(Marked(Incs(n))) /\ IsFiniteSet(Marked(Releases(n)))
      /\ count[n] + I = Held(n) + R /\ I \in Nat /\ R \in Nat
  BY HeldType, FS_CardinalityType DEF Types, Exact
<1>2. \A a \in Actors : i(a) \in Nat /\ r(a) \in Nat /\ r(a) <= R
  <2>1. ASSUME NEW a \in Actors PROVE i(a) \in Nat /\ r(a) \in Nat /\ r(a) <= R
    <3>1. i(a) \in Nat /\ r(a) \in Nat
      BY <1>1, NumberType
    <3>2. /\ Cardinality(MarkedElsewhere(a, Releases(n))) \in Nat
          /\ R = Cardinality(MarkedElsewhere(a, Releases(n))) + r(a)
      BY <1>1, MarkedSplit
    <3>. HIDE DEF R, r
    <3>. QED
      BY <1>1, <3>1, <3>2
  <2>. QED
    BY <2>1
<1>3. \A a \in Actors : i(a) <= r(a)
  BY <1>1, WellCovered DEF Control
<1>4. \A b \in Actors : \A x \in ToSet(todo[b]) : x \in Incs(n) => b = mutex /\ mutex # None
  BY Holder DEF Incs
<1>5. PICK h \in Actors : I = i(h) /\ (mutex # None => h = mutex)
  <2>1. CASE mutex = None
    <3>1. Worker \in Actors /\ \A b \in Actors \ {Worker} : \A x \in ToSet(todo[b]) : x \notin Incs(n)
      BY <1>4, <2>1 DEF Actors
    <3>. QED
      BY <1>1, <2>1, <3>1, OneActor
  <2>2. CASE mutex # None
    <3>1. mutex \in Actors /\ \A b \in Actors \ {mutex} : \A x \in ToSet(todo[b]) : x \notin Incs(n)
      BY <1>4, <2>2 DEF Actors, Types
    <3>. QED
      BY <1>1, <2>2, <3>1, OneActor
  <2>. QED
    BY <2>1, <2>2
<1>6. count[n] >= Held(n)
  <2>1. i(h) \in Nat /\ r(h) \in Nat /\ r(h) <= R /\ i(h) <= r(h)
    BY <1>2, <1>3
  <2>. HIDE DEF i, r, I, R
  <2>. QED
    BY <1>1, <1>5, <2>1
<1>7. ASSUME NEW a \in Actors, Does(a, "dec"), Head(todo[a]).node = n
      PROVE  count[n] >= Held(n) + 1
  <2>1. PICK x, s : x = Head(todo[a]) /\ s = Rest(a)
    OBVIOUS
  <2>2. /\ x \in Steps /\ s \in Seq(Steps) /\ Well(s, Newborn)
        /\ \A T : Number(todo[a], T) = Number(s, T) + (IF x \in T THEN 1 ELSE 0)
        /\ \A T : Number(s, T) \in Nat
    BY <1>7, <2>1, NextStep DEF Does
  <2>3. x \in Releases(n) /\ x \notin Incs(n)
    BY <1>7, <2>1, <2>2 DEF Does, Releases, Incs
  <2>4. Number(s, Incs(n)) <= Number(s, Releases(n))
    BY <2>2, WellCovered
  <2>5. i(a) = Number(s, Incs(n)) /\ r(a) = Number(s, Releases(n)) + 1
    BY <2>2, <2>3
  <2>6. i(a) + 1 <= r(a) /\ i(a) \in Nat /\ r(a) \in Nat /\ r(a) <= R
    <3>1. Number(s, Incs(n)) \in Nat /\ Number(s, Releases(n)) \in Nat
      BY <2>2
    <3>2. i(a) \in Nat /\ r(a) \in Nat /\ r(a) <= R
      BY <1>2
    <3>. HIDE DEF i, r, R
    <3>. QED
      BY <2>4, <2>5, <3>1, <3>2
  <2>7. CASE h = a
    <3>. HIDE DEF i, r, I, R
    <3>. QED
      BY <1>1, <1>5, <2>6, <2>7
  <2>8. CASE h # a
    <3>1. r(h) + r(a) <= R /\ i(h) \in Nat /\ r(h) \in Nat /\ i(h) <= r(h)
      BY <1>1, <1>2, <1>3, <2>8, TwoActors
    <3>. HIDE DEF i, r, I, R
    <3>. QED
      BY <1>1, <1>5, <2>6, <3>1
  <2>. QED
    BY <2>7, <2>8
<1>. QED
  BY <1>1, <1>6, <1>7

\* What a thread keeps by what it has a reference to is not deleted.
LEMMA KeptHolds ==
  ASSUME Types, NEW a \in Actors, NEW n \in Nodes, Kept(a, n), Exact(n)
  PROVE  Held(n) >= 1
<1>1. Owns(a, n) => n = Scene \/ Owned(n) # {}
  <2>1. ASSUME a \in Threads, n \in Handles, owns[a][n] > 0 PROVE <<a, 1>> \in Owned(n)
    BY <2>1, HandleRefsAssumption DEF Types, Owned
  <2>. QED
    BY <2>1 DEF Owns
<1>. QED
  BY <1>1, HeldType DEF Kept

LEMMA KeptExists ==
  ASSUME Types, Control, Alive, NEW a \in Actors, NEW n \in Nodes, Kept(a, n), Exact(n)
  PROVE  Exists(n) /\ count[n] >= 1
<1>1. Held(n) >= 1 /\ count[n] >= Held(n) /\ Held(n) \in Nat /\ count[n] \in Nat
  BY KeptHolds, HeldType, CountHolds
<1>. QED
  BY <1>1 DEF Alive

(***************************************************************************)
(* What does not change.                                                   *)
(***************************************************************************)
LEMMA Advance ==
  ASSUME Types, Control, NEW a \in Actors, ~Idle(a), todo' = [todo EXCEPT ![a] = Rest(a)]
  PROVE  LET x == Head(todo[a])
         IN  /\ todo' \in [Actors -> Seq(Steps)]
             /\ \A b \in Actors : todo'[b] = IF b = a THEN Rest(a) ELSE todo[b]
             /\ \A m, k : Under(m, k)' => Under(m, k)
             /\ x.op # "put" => \A m, k : Under(m, k)' = Under(m, k)
             /\ \A b \in Actors : \A op : Has(b, op)' => Has(b, op)
             /\ \A b \in Actors : \A op : op # x.op => Has(b, op)' = Has(b, op)
<1>1. PICK x, r : x = Head(todo[a]) /\ r = Rest(a)
  OBVIOUS
<1>2. x \in Steps /\ r \in Seq(Steps) /\ ToSet(todo[a]) = ToSet(r) \cup {x}
  BY <1>1, NextStep
<1>3. /\ todo' \in [Actors -> Seq(Steps)]
      /\ \A b \in Actors : todo'[b] = IF b = a THEN r ELSE todo[b]
  BY <1>1, <1>2 DEF Types
<1>4. \A b \in Actors : ToSet(todo'[b]) \subseteq ToSet(todo[b])
  BY <1>2, <1>3
<1>5. \A b \in Actors : \A y \in ToSet(todo[b]) : y \in ToSet(todo'[b]) \/ y = x
  BY <1>2, <1>3
<1>6. \A m, k : Under(m, k)' => Under(m, k)
  BY <1>4 DEF Under
<1>7. x.op # "put" => \A m, k : Under(m, k) => Under(m, k)'
  BY <1>5 DEF Under
<1>8. \A b \in Actors : \A op : Has(b, op)' => Has(b, op)
  BY <1>4 DEF Has
<1>9. \A b \in Actors : \A op : op # x.op => (Has(b, op) => Has(b, op)')
  BY <1>5 DEF Has
<1>10. x.op # "put" => \A m, k : Under(m, k)' = Under(m, k)
  BY <1>6, <1>7 DEF Under
<1>11. \A b \in Actors : \A op : op # x.op => Has(b, op)' = Has(b, op)
  BY <1>8, <1>9 DEF Has
<1>. QED
  BY <1>1, <1>3, <1>6, <1>8, <1>10, <1>11

LEMMA AdvanceHas ==
  ASSUME Types, Control, NEW a \in Actors, ~Idle(a), todo' = [todo EXCEPT ![a] = Rest(a)],
         NEW b \in Actors, NEW op, op # Head(todo[a]).op
  PROVE  Has(b, op)' = Has(b, op)
<1>1. \A c \in Actors : \A p : p # Head(todo[a]).op => Has(c, p)' = Has(c, p)
  BY Advance
<1>. QED
  BY <1>1

LEMMA AdvanceMarks ==
  ASSUME Types, Control, NEW a \in Actors, ~Idle(a), todo' = [todo EXCEPT ![a] = Rest(a)],
         NEW T, IsFiniteSet(Marked(T))
  PROVE  /\ IsFiniteSet(Marked(T)') /\ Cardinality(Marked(T)) \in Nat /\ Cardinality(Marked(T)') \in Nat
         /\ Cardinality(Marked(T)) = Cardinality(Marked(T)') + (IF Head(todo[a]) \in T THEN 1 ELSE 0)
<1>1. PICK x, r : x = Head(todo[a]) /\ r = Rest(a)
  OBVIOUS
<1>2. /\ r \in Seq(Steps) /\ Number(r, T) \in Nat
      /\ Number(todo[a], T) = Number(r, T) + (IF x \in T THEN 1 ELSE 0)
  BY <1>1, NextStep
<1>3. /\ IsFiniteSet(Marked(T)') /\ Cardinality(Marked(T)) \in Nat /\ Cardinality(Marked(T)') \in Nat
      /\ Number(todo[a], T) \in Nat
      /\ Cardinality(Marked(T)') + Number(todo[a], T) = Cardinality(Marked(T)) + Number(r, T)
  BY <1>1, <1>2, ActorChange DEF Types
<1>. QED
  BY <1>1, <1>2, <1>3

LEMMA HeldSame ==
  ASSUME UNCHANGED <<fields, owns, job>>, \A m, k : Under(m, k)' = Under(m, k)
  PROVE  /\ \A n : Owned(n)' = Owned(n) /\ Placed(n)' = Placed(n) /\ Held(n)' = Held(n)
         /\ \A b, n : Owns(b, n)' = Owns(b, n) /\ Kept(b, n)' = Kept(b, n)
<1>1. \A n : Owned(n)' = Owned(n) /\ Refs(n)' = Refs(n)
  BY DEF Owned, Refs, Exists
<1>2. \A n : Placed(n)' = Placed(n)
  BY <1>1 DEF Placed
<1>3. \A n : Held(n)' = Held(n)
  BY <1>1, <1>2 DEF Held
<1>4. \A b, n : Owns(b, n)' = Owns(b, n)
  BY DEF Owns
<1>5. \A b, n : Kept(b, n)' = Kept(b, n)
  BY <1>2, <1>4 DEF Kept
<1>. QED
  BY <1>1, <1>2, <1>3, <1>4, <1>5

\* Whatever happens, it is nothing to actors without the mutex.
LEMMA OthersFine ==
  ASSUME Types, Control, NEW b \in Actors, b # mutex, NEW N
  PROVE  Well(todo[b], N) /\ \A y \in ToSet(todo[b]) : StepOK(b, y)'
<1>1. \A y \in ToSet(todo[b]) : y \in Steps /\ y.op \in {"dec", "gone"} /\ StepOK(b, y)
  <2>1. \A y \in ToSet(todo[b]) : y \in Steps
    BY DEF Types, ToSet
  <2>2. \A y \in Steps : y.op \in {"inc", "dec", "put", "start", "wait", "unlock", "gone"}
    BY DEF Steps
  <2>. QED
    BY <2>1, <2>2, Holder DEF Control
<1>2. Well(todo[b], Newborn) /\ todo[b] \in Seq(Steps)
  BY DEF Control, Types
<1>3. Well(todo[b], N)
  BY <1>1, <1>2, WellMono
<1>4. \A y \in ToSet(todo[b]) : StepOK(b, y)'
  BY <1>1 DEF StepOK
<1>. QED
  BY <1>3, <1>4

(***************************************************************************)
(* Every step preserves the invariant: incrementing a counter.             *)
(***************************************************************************)
LEMMA RefIncKeeps ==
  ASSUME IInv, NEW a \in Actors, RefInc(a)
  PROVE  IInv'
<1>1. PICK x, r : x = Head(todo[a]) /\ r = Rest(a)
  OBVIOUS
<1> DEFINE n0 == x.node
<1>2. /\ x \in Steps /\ r \in Seq(Steps) /\ ToSet(todo[a]) = ToSet(r) \cup {x}
      /\ Well(r, Newborn) /\ HeadOK(x, r, Newborn) /\ StepOK(a, x)
      /\ \A y \in ToSet(r) : StepOK(a, y)
  BY <1>1, NextStep DEF RefInc, Does, IInv
<1>3. /\ x.op = "inc" /\ n0 \in Nodes /\ ~Idle(a) /\ mutex = a
      /\ count' = [count EXCEPT ![n0] = @ + 1] /\ todo' = [todo EXCEPT ![a] = Rest(a)]
      /\ UNCHANGED <<fields, owns, mutex, job>>
  BY <1>1, <1>2 DEF RefInc, Does, StepOK, Steps
<1>4. Kept(a, n0) \/ n0 \in Newborn
  BY <1>2, <1>3 DEF StepOK
<1>5. Exists(n0)
  BY <1>3, <1>4, KeptExists DEF IInv, Newborn
<1>6. /\ todo' \in [Actors -> Seq(Steps)]
      /\ \A b \in Actors : todo'[b] = IF b = a THEN r ELSE todo[b]
      /\ \A m, k : Under(m, k)' = Under(m, k)
      /\ \A b \in Actors : \A op : op # "inc" => Has(b, op)' = Has(b, op)
  BY <1>1, <1>3, Advance DEF IInv
<1>7. /\ \A n : Owned(n)' = Owned(n) /\ Placed(n)' = Placed(n) /\ Held(n)' = Held(n)
      /\ \A b, n : Owns(b, n)' = Owns(b, n) /\ Kept(b, n)' = Kept(b, n)
  BY <1>3, <1>6, HeldSame
<1>8. Types'
  BY <1>3, <1>6 DEF IInv, Types, Exists
<1>9. \A n \in Nodes : (x \in Incs(n) <=> n = n0) /\ x \notin Releases(n)
  BY <1>2, <1>3 DEF Incs, Releases
<1>10. ASSUME NEW n \in Nodes
       PROVE  /\ IsFiniteSet(Marked(Incs(n))') /\ IsFiniteSet(Marked(Releases(n))')
              /\ Cardinality(Marked(Incs(n))') \in Nat /\ Cardinality(Marked(Releases(n))') \in Nat
              /\ Cardinality(Marked(Incs(n))) = Cardinality(Marked(Incs(n))') + (IF n = n0 THEN 1 ELSE 0)
              /\ Cardinality(Marked(Releases(n))) = Cardinality(Marked(Releases(n))')
  <2>1. IsFiniteSet(Marked(Incs(n))) /\ IsFiniteSet(Marked(Releases(n)))
    BY DEF IInv, Exact
  <2>2. /\ IsFiniteSet(Marked(Incs(n))') /\ Cardinality(Marked(Incs(n))') \in Nat
        /\ Cardinality(Marked(Incs(n))) = Cardinality(Marked(Incs(n))') + (IF x \in Incs(n) THEN 1 ELSE 0)
    BY <1>1, <1>3, <2>1, AdvanceMarks DEF IInv
  <2>3. /\ IsFiniteSet(Marked(Releases(n))') /\ Cardinality(Marked(Releases(n))') \in Nat
        /\ Cardinality(Marked(Releases(n))) = Cardinality(Marked(Releases(n))') + (IF x \in Releases(n) THEN 1 ELSE 0)
    BY <1>1, <1>3, <2>1, AdvanceMarks DEF IInv
  <2>. QED
    BY <1>9, <2>2, <2>3
<1>11. ASSUME NEW n \in Nodes PROVE Exact(n)'
  <2>1. /\ count[n] + Cardinality(Marked(Incs(n))) = Held(n) + Cardinality(Marked(Releases(n)))
        /\ IsFiniteSet(Owned(n)) /\ IsFiniteSet(Placed(n)) /\ count[n] \in Nat /\ Held(n) \in Nat
    BY HeldType DEF IInv, Exact, Types
  <2>2. count'[n] = count[n] + (IF n = n0 THEN 1 ELSE 0)
    BY <1>3 DEF IInv, Types
  <2>. QED
    BY <1>7, <1>10, <2>1, <2>2 DEF Exact
<1>12. Alive'
  BY <1>3, <1>5, <1>10 DEF Alive, IInv, Types, Exists
<1>13. PrimitivesHaveShapes'
  BY <1>3, <1>6 DEF IInv, PrimitivesHaveShapes, Exists
<1>14. Newborn' = Newborn \ {n0}
  BY <1>3 DEF Newborn, Exists, IInv, Types, Nodes
<1>15. ASSUME NEW b \in Actors
       PROVE  Well(todo'[b], Newborn') /\ \A y \in ToSet(todo'[b]) : StepOK(b, y)'
  <2>1. CASE b # a
    <3>1. Well(todo[b], Newborn') /\ \A y \in ToSet(todo[b]) : StepOK(b, y)'
      BY <1>3, <2>1, OthersFine DEF IInv
    <3>. QED
      BY <1>6, <2>1, <3>1
  <2>2. CASE b = a
    <3>1. Well(r, Newborn')
      BY <1>2, <1>14, WellMono
    <3>2. ASSUME NEW y \in ToSet(r) PROVE StepOK(a, y)'
      <4>1. StepOK(a, y) /\ (n0 \in Newborn /\ y.op \in {"inc", "put"} => y.node # n0)
        BY <1>2, <1>3 DEF HeadOK
      <4>. QED
        BY <1>3, <1>7, <1>14, <4>1 DEF StepOK
    <3>. QED
      BY <1>6, <2>2, <3>1, <3>2
  <2>. QED
    BY <2>1, <2>2
<1>16. Control'
  <2>1. mutex # None => Has(mutex, "unlock")'
    BY <1>3, <1>6 DEF IInv, Control
  <2>2. job # None => mutex # None /\ Has(mutex, "wait")' /\ ~Has(mutex, "start")'
    BY <1>3, <1>6 DEF IInv, Control
  <2>3. todo'[Worker] # <<>> => job' = <<>>
    <3>1. a # Worker
      BY <1>3, HandleRefsAssumption DEF IInv, Types, Actors
    <3>. QED
      BY <1>3, <1>6, <3>1 DEF IInv, Control, Actors
  <2>. QED
    BY <1>3, <1>15, <2>1, <2>2, <2>3 DEF Control, Has
<1>. QED
  BY <1>8, <1>11, <1>12, <1>13, <1>16 DEF IInv

(***************************************************************************)
(* Starting a job, waiting for it, its end, and the end of a call.         *)
(***************************************************************************)
LEMMA TuplesAreNotNone ==
  /\ <<>> # None /\ \A n \in Nodes \cup {None} : <<n>> # None
  /\ \A s \in Seq(Nodes \cup {None}) : Len(s) <= 2 => s # None
<1>1. Nodes \cup {None} = {Shape, Primitive, Scene, None} \cup 1 .. MaxObjects
  BY DEF Nodes, Handles, Objects
<1>2. \A l \in 0 .. 2 : None \notin [1 .. l -> Nodes \cup {None}]
  BY <1>1, HandleRefsAssumption
<1>3. ASSUME NEW s \in Seq(Nodes \cup {None}), Len(s) <= 2 PROVE s # None
  <2>1. s \in [1 .. Len(s) -> Nodes \cup {None}] /\ Len(s) \in Nat
    BY LenProperties
  <2>2. Len(s) \in 0 .. 2
    BY <1>3, <2>1
  <2>. QED
    BY <1>2, <2>1, <2>2
<1>4. <<>> \in Seq(Nodes \cup {None}) /\ Len(<<>>) <= 2
  OBVIOUS
<1>5. \A n \in Nodes \cup {None} : <<n>> \in Seq(Nodes \cup {None}) /\ Len(<<n>>) <= 2
  OBVIOUS
<1>. QED
  BY <1>3, <1>4, <1>5

LEMMA StepsSame ==
  ASSUME UNCHANGED <<count, fields, owns, mutex>>, \A m, k : Under(m, k)' = Under(m, k)
  PROVE  /\ \A n : Owned(n)' = Owned(n) /\ Placed(n)' = Placed(n)
         /\ Newborn' = Newborn
         /\ \A b, y : StepOK(b, y)' = StepOK(b, y)
<1>1. \A n : Owned(n)' = Owned(n) /\ Refs(n)' = Refs(n)
  BY DEF Owned, Refs, Exists
<1>2. \A n : Placed(n)' = Placed(n)
  BY <1>1 DEF Placed
<1>3. Newborn' = Newborn
  BY DEF Newborn, Exists
<1>4. \A b, n : Owns(b, n)' = Owns(b, n)
  BY DEF Owns
<1>5. \A b, n : Kept(b, n)' = Kept(b, n)
  BY <1>2, <1>4 DEF Kept
<1>6. \A b, y : StepOK(b, y)' = StepOK(b, y)
  BY <1>3, <1>4, <1>5 DEF StepOK
<1>. QED
  BY <1>1, <1>2, <1>3, <1>6

LEMMA AdvanceCounts ==
  ASSUME IInv, NEW a \in Actors, ~Idle(a), todo' = [todo EXCEPT ![a] = Rest(a)], NEW n \in Nodes
  PROVE  LET x == Head(todo[a])
         IN  /\ IsFiniteSet(Marked(Incs(n))') /\ IsFiniteSet(Marked(Releases(n))')
             /\ Cardinality(Marked(Incs(n))') \in Nat /\ Cardinality(Marked(Releases(n))') \in Nat
             /\ Cardinality(Marked(Incs(n)))
                  = Cardinality(Marked(Incs(n))') + (IF x \in Incs(n) THEN 1 ELSE 0)
             /\ Cardinality(Marked(Releases(n)))
                  = Cardinality(Marked(Releases(n))') + (IF x \in Releases(n) THEN 1 ELSE 0)
             /\ count[n] + Cardinality(Marked(Incs(n))) = Held(n) + Cardinality(Marked(Releases(n)))
             /\ IsFiniteSet(Owned(n)) /\ IsFiniteSet(Placed(n)) /\ count[n] \in Nat /\ Held(n) \in Nat
<1>1. IsFiniteSet(Marked(Incs(n))) /\ IsFiniteSet(Marked(Releases(n)))
  BY DEF IInv, Exact
<1>2. /\ IsFiniteSet(Marked(Incs(n))') /\ Cardinality(Marked(Incs(n))') \in Nat
      /\ Cardinality(Marked(Incs(n)))
           = Cardinality(Marked(Incs(n))') + (IF Head(todo[a]) \in Incs(n) THEN 1 ELSE 0)
  BY <1>1, AdvanceMarks DEF IInv
<1>3. /\ IsFiniteSet(Marked(Releases(n))') /\ Cardinality(Marked(Releases(n))') \in Nat
      /\ Cardinality(Marked(Releases(n)))
           = Cardinality(Marked(Releases(n))') + (IF Head(todo[a]) \in Releases(n) THEN 1 ELSE 0)
  BY <1>1, AdvanceMarks DEF IInv
<1>4. /\ count[n] + Cardinality(Marked(Incs(n))) = Held(n) + Cardinality(Marked(Releases(n)))
      /\ IsFiniteSet(Owned(n)) /\ IsFiniteSet(Placed(n)) /\ count[n] \in Nat /\ Held(n) \in Nat
  BY HeldType DEF IInv, Exact, Types
<1>. QED
  BY <1>2, <1>3, <1>4

\* A step that leaves counters, Refs and references alone, and takes or
\* leaves one for the job.
LEMMA QuietStep ==
  ASSUME IInv, NEW a \in Actors, ~Idle(a), todo' = [todo EXCEPT ![a] = Rest(a)],
         UNCHANGED <<count, fields, owns>>, Head(todo[a]).op \notin {"inc", "dec", "put"},
         job' \in {None, <<>>} \cup {<<o>> : o \in Objects}, mutex' \in Threads \cup {None},
         \A n \in Nodes : (IF job' = <<n>> THEN 1 ELSE 0)
           = (IF job = <<n>> THEN 1 ELSE 0) + (IF Head(todo[a]) \in Releases(n) THEN 1 ELSE 0)
  PROVE  Types' /\ Alive' /\ PrimitivesHaveShapes' /\ \A n \in Nodes : Exact(n)'
<1>1. PICK x : x = Head(todo[a])
  OBVIOUS
<1>2. /\ todo' \in [Actors -> Seq(Steps)]
      /\ \A m, k : Under(m, k)' = Under(m, k)
  BY Advance DEF IInv
<1>3. \A n : Owned(n)' = Owned(n) /\ Placed(n)' = Placed(n)
  <2>1. \A n : Owned(n)' = Owned(n) /\ Refs(n)' = Refs(n)
    BY DEF Owned, Refs, Exists
  <2>. QED
    BY <1>2, <2>1 DEF Placed
<1>4. Types'
  BY <1>2 DEF IInv, Types, Exists
<1>5. ASSUME NEW n \in Nodes
      PROVE  Exact(n)' /\ Cardinality(Marked(Incs(n))') = Cardinality(Marked(Incs(n)))
  <2>1. /\ IsFiniteSet(Marked(Incs(n))') /\ IsFiniteSet(Marked(Releases(n))')
        /\ Cardinality(Marked(Incs(n))') \in Nat /\ Cardinality(Marked(Releases(n))') \in Nat
        /\ Cardinality(Marked(Incs(n)))
             = Cardinality(Marked(Incs(n))') + (IF x \in Incs(n) THEN 1 ELSE 0)
        /\ Cardinality(Marked(Releases(n)))
             = Cardinality(Marked(Releases(n))') + (IF x \in Releases(n) THEN 1 ELSE 0)
        /\ count[n] + Cardinality(Marked(Incs(n))) = Held(n) + Cardinality(Marked(Releases(n)))
        /\ IsFiniteSet(Owned(n)) /\ IsFiniteSet(Placed(n)) /\ count[n] \in Nat /\ Held(n) \in Nat
    BY <1>1, AdvanceCounts
  <2>2. x \notin Incs(n)
    BY <1>1 DEF Incs
  <2>3. Cardinality(Owned(n)) \in Nat /\ Cardinality(Placed(n)) \in Nat
    BY <2>1, FS_CardinalityType
  <2>4. PICK s, j, jj, rr :
          /\ s = (IF n = Scene THEN 1 ELSE 0) /\ j = (IF job = <<n>> THEN 1 ELSE 0)
          /\ jj = (IF job' = <<n>> THEN 1 ELSE 0) /\ rr = (IF x \in Releases(n) THEN 1 ELSE 0)
    OBVIOUS
  <2>5. s \in Nat /\ j \in Nat /\ jj \in Nat /\ rr \in Nat /\ jj = j + rr
    BY <1>1, <2>4
  <2>6. Held(n) = s + Cardinality(Owned(n)) + Cardinality(Placed(n)) + j
    BY <2>4 DEF Held
  <2>7. Held(n)' = s + Cardinality(Owned(n)) + Cardinality(Placed(n)) + jj
    BY <1>3, <2>4 DEF Held
  <2>8. Held(n)' = Held(n) + rr
    BY <2>3, <2>5, <2>6, <2>7
  <2>9. Cardinality(Marked(Releases(n))) = Cardinality(Marked(Releases(n))') + rr
    BY <2>1, <2>4
  <2>10. count'[n] + Cardinality(Marked(Incs(n))') = Held(n)' + Cardinality(Marked(Releases(n))')
    BY <2>1, <2>2, <2>5, <2>8, <2>9
  <2>. QED
    BY <1>3, <2>1, <2>2, <2>10 DEF Exact
<1>6. Alive'
  BY <1>5 DEF Alive, IInv, Exists
<1>7. PrimitivesHaveShapes'
  BY <1>2 DEF IInv, PrimitivesHaveShapes, Exists
<1>. QED
  BY <1>4, <1>5, <1>6, <1>7

LEMMA StartJobKeeps ==
  ASSUME IInv, NEW a \in Actors, StartJob(a)
  PROVE  IInv'
<1>1. PICK x, r : x = Head(todo[a]) /\ r = Rest(a)
  OBVIOUS
<1>2. /\ x \in Steps /\ r \in Seq(Steps) /\ ToSet(todo[a]) = ToSet(r) \cup {x}
      /\ Well(r, Newborn) /\ HeadOK(x, r, Newborn) /\ StepOK(a, x)
      /\ \A y \in ToSet(r) : StepOK(a, y)
  BY <1>1, NextStep DEF StartJob, Does, IInv
<1>3. /\ x.op = "start" /\ ~Idle(a) /\ mutex = a /\ job' = x.refs
      /\ todo' = [todo EXCEPT ![a] = Rest(a)] /\ UNCHANGED <<count, fields, owns, mutex>>
  BY <1>1, <1>2 DEF StartJob, Does, StepOK
<1>4. PICK o \in Objects : x.refs = <<o>>
  BY <1>2, <1>3 DEF Steps
<1>5. job = None
  <2>1. Has(a, "start")
    BY <1>2, <1>3 DEF Has
  <2>. QED
    BY <1>3, <2>1 DEF IInv, Control
<1>6. /\ todo' \in [Actors -> Seq(Steps)]
      /\ \A b \in Actors : todo'[b] = IF b = a THEN r ELSE todo[b]
      /\ \A m, k : Under(m, k)' = Under(m, k)
      /\ \A b \in Actors : \A op : op # "start" => Has(b, op)' = Has(b, op)
  BY <1>1, <1>3, Advance DEF IInv
<1>7. Types' /\ Alive' /\ PrimitivesHaveShapes' /\ \A n \in Nodes : Exact(n)'
  <2>1. ASSUME NEW n \in Nodes
        PROVE  (IF job' = <<n>> THEN 1 ELSE 0)
                 = (IF job = <<n>> THEN 1 ELSE 0) + (IF Head(todo[a]) \in Releases(n) THEN 1 ELSE 0)
    <3>1. job # <<n>>
      BY <1>5, TuplesAreNotNone
    <3>2. job' = <<n>> <=> o = n
      BY <1>3, <1>4
    <3>3. x \in Releases(n) <=> o = n
      BY <1>2, <1>3, <1>4 DEF Releases
    <3>. QED
      BY <1>1, <3>1, <3>2, <3>3
  <2>2. mutex' \in Threads \cup {None} /\ job' \in {None, <<>>} \cup {<<p>> : p \in Objects}
    BY <1>3, <1>4 DEF IInv, Types
  <2>. QED
    BY <1>1, <1>3, <2>1, <2>2, QuietStep
<1>8. \A b, y : StepOK(b, y)' = StepOK(b, y)
  BY <1>3, <1>6, StepsSame
<1>9. Newborn' = Newborn
  BY <1>3 DEF Newborn, Exists
<1>10. a # Worker
  BY <1>3, HandleRefsAssumption DEF IInv, Types, Actors
<1>11. Control'
  <2>1. ASSUME NEW b \in Actors
        PROVE  Well(todo'[b], Newborn') /\ \A y \in ToSet(todo'[b]) : StepOK(b, y)'
    BY <1>2, <1>6, <1>8, <1>9 DEF IInv, Control
  <2>2. mutex # None => Has(mutex, "unlock")'
    BY <1>3, <1>6 DEF IInv, Control
  <2>3. mutex # None /\ Has(mutex, "wait")' /\ ~Has(mutex, "start")'
    <3>1. (\E y \in ToSet(r) : y.op = "wait") /\ \A y \in ToSet(r) : y.op # "start"
      BY <1>2, <1>3 DEF HeadOK
    <3>2. mutex # None
      BY <1>3, HandleRefsAssumption DEF Actors
    <3>. QED
      BY <1>3, <1>6, <3>1, <3>2 DEF Has
  <2>4. todo'[Worker] = <<>>
    BY <1>5, <1>6, <1>10, TuplesAreNotNone DEF IInv, Control, Actors
  <2>. QED
    BY <1>3, <2>1, <2>2, <2>3, <2>4 DEF Control, Has
<1>. QED
  BY <1>7, <1>11 DEF IInv

LEMMA WaitedKeeps ==
  ASSUME IInv, NEW a \in Actors, Waited(a)
  PROVE  IInv'
<1>1. PICK x, r : x = Head(todo[a]) /\ r = Rest(a)
  OBVIOUS
<1>2. /\ x \in Steps /\ r \in Seq(Steps) /\ Well(r, Newborn) /\ StepOK(a, x)
      /\ \A y \in ToSet(r) : StepOK(a, y)
  BY <1>1, NextStep DEF Waited, Does, IInv
<1>3. /\ x.op = "wait" /\ ~Idle(a) /\ mutex = a /\ job = None
      /\ todo' = [todo EXCEPT ![a] = Rest(a)] /\ UNCHANGED <<count, fields, owns, mutex, job>>
  BY <1>1, <1>2 DEF Waited, Does, StepOK
<1>4. /\ \A b \in Actors : todo'[b] = IF b = a THEN r ELSE todo[b]
      /\ \A m, k : Under(m, k)' = Under(m, k)
      /\ \A b \in Actors : \A op : op # "wait" => Has(b, op)' = Has(b, op)
  BY <1>1, <1>3, Advance DEF IInv
<1>5. Types' /\ Alive' /\ PrimitivesHaveShapes' /\ \A n \in Nodes : Exact(n)'
  <2>1. \A n \in Nodes : Head(todo[a]) \notin Releases(n)
    BY <1>1, <1>3 DEF Releases
  <2>2. mutex' \in Threads \cup {None} /\ job' \in {None, <<>>} \cup {<<p>> : p \in Objects}
    BY <1>3 DEF IInv, Types
  <2>4. \A n \in Nodes : (IF job' = <<n>> THEN 1 ELSE 0)
          = (IF job = <<n>> THEN 1 ELSE 0) + (IF Head(todo[a]) \in Releases(n) THEN 1 ELSE 0)
    BY <1>3, <2>1
  <2>5. Head(todo[a]).op \notin {"inc", "dec", "put"}
    BY <1>1, <1>3
  <2>. QED
    BY <1>3, <2>2, <2>4, <2>5, QuietStep
<1>6. \A b, y : StepOK(b, y)' = StepOK(b, y)
  BY <1>3, <1>4, StepsSame
<1>7. Newborn' = Newborn
  BY <1>3 DEF Newborn, Exists
<1>8. Control'
  <2>1. ASSUME NEW b \in Actors
        PROVE  Well(todo'[b], Newborn') /\ \A y \in ToSet(todo'[b]) : StepOK(b, y)'
    BY <1>2, <1>4, <1>6, <1>7 DEF IInv, Control
  <2>2. mutex # None => Has(mutex, "unlock")'
    BY <1>3, <1>4 DEF IInv, Control
  <2>3. todo'[Worker] = <<>>
    <3>1. a # Worker
      BY <1>3, HandleRefsAssumption DEF IInv, Types, Actors
    <3>. QED
      BY <1>3, <1>4, <3>1, TuplesAreNotNone DEF IInv, Control, Actors
  <2>. QED
    BY <1>3, <2>1, <2>2, <2>3 DEF Control, Has
<1>. QED
  BY <1>5, <1>8 DEF IInv

LEMMA UnlockMutexKeeps ==
  ASSUME IInv, NEW a \in Actors, UnlockMutex(a)
  PROVE  IInv'
<1>1. PICK x, r : x = Head(todo[a]) /\ r = Rest(a)
  OBVIOUS
<1>2. /\ x \in Steps /\ HeadOK(x, r, Newborn) /\ StepOK(a, x) /\ Well(r, Newborn)
      /\ ToSet(todo[a]) = ToSet(r) \cup {x} /\ r \in Seq(Steps)
  BY <1>1, NextStep DEF UnlockMutex, Does, IInv
<1>3. /\ x.op = "unlock" /\ ~Idle(a) /\ mutex = a /\ mutex' = None
      /\ todo' = [todo EXCEPT ![a] = Rest(a)] /\ UNCHANGED <<count, fields, owns, job>>
  BY <1>1, <1>2 DEF UnlockMutex, Does, StepOK
<1>4. r = <<>> /\ ToSet(r) = {}
  BY <1>2, <1>3 DEF HeadOK, ToSet
<1>5. /\ \A b \in Actors : todo'[b] = IF b = a THEN r ELSE todo[b]
      /\ \A m, k : Under(m, k)' = Under(m, k)
  BY <1>1, <1>3, Advance DEF IInv
<1>6. job = None
  <2>1. ~Has(a, "wait")
    BY <1>2, <1>3, <1>4 DEF Has
  <2>. QED
    BY <1>3, <2>1 DEF IInv, Control
<1>7. Types' /\ Alive' /\ PrimitivesHaveShapes' /\ \A n \in Nodes : Exact(n)'
  <2>1. \A n \in Nodes : Head(todo[a]) \notin Releases(n)
    BY <1>1, <1>3 DEF Releases
  <2>2. mutex' \in Threads \cup {None} /\ job' \in {None, <<>>} \cup {<<p>> : p \in Objects}
    BY <1>3 DEF IInv, Types
  <2>4. \A n \in Nodes : (IF job' = <<n>> THEN 1 ELSE 0)
          = (IF job = <<n>> THEN 1 ELSE 0) + (IF Head(todo[a]) \in Releases(n) THEN 1 ELSE 0)
    BY <1>3, <2>1
  <2>5. Head(todo[a]).op \notin {"inc", "dec", "put"}
    BY <1>1, <1>3
  <2>. QED
    BY <1>3, <2>2, <2>4, <2>5, QuietStep
<1>8. Newborn' = Newborn
  BY <1>3 DEF Newborn, Exists
<1>9. Control'
  <2>1. ASSUME NEW b \in Actors
        PROVE  Well(todo'[b], Newborn') /\ \A y \in ToSet(todo'[b]) : StepOK(b, y)'
    <3>1. CASE b # a
      <4>1. Well(todo[b], Newborn') /\ \A y \in ToSet(todo[b]) : StepOK(b, y)'
        BY <1>3, <3>1, OthersFine DEF IInv
      <4>. QED
        BY <1>5, <3>1, <4>1
    <3>2. CASE b = a
      BY <1>2, <1>4, <1>5, <1>8, <3>2
    <3>. QED
      BY <3>1, <3>2
  <2>2. todo'[Worker] = <<>>
    <3>1. a # Worker
      BY <1>3, HandleRefsAssumption DEF IInv, Types, Actors
    <3>. QED
      BY <1>5, <1>6, <3>1, TuplesAreNotNone DEF IInv, Control, Actors
  <2>. QED
    BY <1>3, <1>6, <2>1, <2>2 DEF Control
<1>. QED
  BY <1>7, <1>9 DEF IInv

LEMMA JobGoneKeeps ==
  ASSUME IInv, JobGone
  PROVE  IInv'
<1>1. PICK x, r : x = Head(todo[Worker]) /\ r = Rest(Worker)
  OBVIOUS
<1>0. Worker \in Actors /\ Worker # mutex
  BY HandleRefsAssumption DEF Actors, IInv, Types
<1>2. /\ x \in Steps /\ HeadOK(x, r, Newborn) /\ r \in Seq(Steps)
      /\ Well(r, Newborn)
  BY <1>0, <1>1, NextStep DEF JobGone, Does, IInv
<1>3. /\ x.op = "gone" /\ ~Idle(Worker) /\ job' = None
      /\ todo' = [todo EXCEPT ![Worker] = Rest(Worker)] /\ UNCHANGED <<count, fields, owns, mutex>>
  BY <1>1 DEF JobGone, Does
<1>4. r = <<>> /\ ToSet(r) = {}
  BY <1>2, <1>3 DEF HeadOK, ToSet
<1>5. /\ \A b \in Actors : todo'[b] = IF b = Worker THEN r ELSE todo[b]
      /\ \A m, k : Under(m, k)' = Under(m, k)
      /\ \A b \in Actors : \A op : op # "gone" => Has(b, op)' = Has(b, op)
  BY <1>0, <1>1, <1>3, Advance DEF IInv
<1>6. job = <<>>
  BY <1>3 DEF IInv, Control, Idle
<1>7. Types' /\ Alive' /\ PrimitivesHaveShapes' /\ \A n \in Nodes : Exact(n)'
  <2>1. \A n \in Nodes : Head(todo[Worker]) \notin Releases(n)
    BY <1>1, <1>3 DEF Releases
  <2>2. mutex' \in Threads \cup {None} /\ job' \in {None, <<>>} \cup {<<p>> : p \in Objects}
    BY <1>3 DEF IInv, Types
  <2>3. \A n \in Nodes : job # <<n>> /\ job' # <<n>>
    BY <1>3, <1>6, TuplesAreNotNone
  <2>4. \A n \in Nodes : (IF job' = <<n>> THEN 1 ELSE 0)
          = (IF job = <<n>> THEN 1 ELSE 0) + (IF Head(todo[Worker]) \in Releases(n) THEN 1 ELSE 0)
    BY <2>1, <2>3
  <2>5. Head(todo[Worker]).op \notin {"inc", "dec", "put"}
    BY <1>1, <1>3
  <2>. QED
    BY <1>0, <1>3, <2>2, <2>4, <2>5, QuietStep
<1>8. \A b, y : StepOK(b, y)' = StepOK(b, y)
  BY <1>3, <1>5, StepsSame
<1>9. Newborn' = Newborn
  BY <1>3 DEF Newborn, Exists
<1>10. Control'
  <2>1. ASSUME NEW b \in Actors
        PROVE  Well(todo'[b], Newborn') /\ \A y \in ToSet(todo'[b]) : StepOK(b, y)'
    BY <1>2, <1>4, <1>5, <1>8, <1>9 DEF IInv, Control
  <2>2. mutex # None => Has(mutex, "unlock")'
    BY <1>3, <1>5 DEF IInv, Control, Types, Actors
  <2>. QED
    BY <1>0, <1>3, <1>4, <1>5, <2>1, <2>2 DEF Control, Has
<1>. QED
  BY <1>7, <1>10 DEF IInv

(***************************************************************************)
(* Releasing a node that others still refer to.                            *)
(***************************************************************************)
LEMMA RefDecKeepsOthers ==
  ASSUME IInv, NEW a \in Actors, RefDec(a), count[Head(todo[a]).node] # 1
  PROVE  IInv'
<1>1. PICK x, r : x = Head(todo[a]) /\ r = Rest(a)
  OBVIOUS
<1> DEFINE n0 == x.node
<1>2. /\ x \in Steps /\ r \in Seq(Steps) /\ ToSet(todo[a]) = ToSet(r) \cup {x}
      /\ Well(r, Newborn) /\ \A y \in ToSet(r) : StepOK(a, y)
  BY <1>1, NextStep DEF RefDec, Does, IInv
<1>3. /\ x.op = "dec" /\ n0 \in Nodes /\ ~Idle(a)
      /\ count' = [count EXCEPT ![n0] = @ - 1] /\ todo' = [todo EXCEPT ![a] = Rest(a)]
      /\ UNCHANGED <<fields, owns, mutex, job>>
  BY <1>1, <1>2 DEF RefDec, Does, Steps
<1>4. count[n0] \in Nat /\ count[n0] >= 2
  <2>1. Does(a, "dec") /\ Head(todo[a]).node = n0
    BY <1>1 DEF RefDec
  <2>2. count[n0] \in Nat /\ count[n0] >= Held(n0) + 1 /\ Held(n0) \in Nat
    BY <1>3, <2>1, CountHolds, HeldType DEF IInv
  <2>. QED
    BY <1>1, <2>2
<1>5. Exists(n0)
  BY <1>3, <1>4 DEF IInv, Alive
<1>6. /\ todo' \in [Actors -> Seq(Steps)]
      /\ \A b \in Actors : todo'[b] = IF b = a THEN r ELSE todo[b]
      /\ \A m, k : Under(m, k)' = Under(m, k)
      /\ \A b \in Actors : \A op : op # "dec" => Has(b, op)' = Has(b, op)
  <2>1. Types /\ Control /\ ~Idle(a) /\ todo' = [todo EXCEPT ![a] = Rest(a)]
    BY <1>3 DEF IInv
  <2>2. Head(todo[a]).op = "dec" /\ Rest(a) = r
    BY <1>1, <1>3
  <2>3. /\ todo' \in [Actors -> Seq(Steps)]
        /\ \A b \in Actors : todo'[b] = IF b = a THEN r ELSE todo[b]
    BY <2>1, <2>2, Advance
  <2>4. \A m, k : Under(m, k)' = Under(m, k)
    BY <2>1, <2>2, Advance
  <2>5. \A b \in Actors : \A op : op # "dec" => Has(b, op)' = Has(b, op)
    <3>1. ASSUME NEW b \in Actors, NEW op, op # "dec" PROVE Has(b, op)' = Has(b, op)
      <4>1. op # Head(todo[a]).op
        BY <2>2, <3>1
      <4>. QED
        BY <2>1, <4>1, AdvanceHas
    <3>. QED
      BY <3>1
  <2>. QED
    BY <2>3, <2>4, <2>5
<1>7. /\ \A n : Owned(n)' = Owned(n) /\ Placed(n)' = Placed(n) /\ Held(n)' = Held(n)
      /\ \A b, n : Owns(b, n)' = Owns(b, n) /\ Kept(b, n)' = Kept(b, n)
  BY <1>3, <1>6, HeldSame
<1>8. Types'
  BY <1>3, <1>4, <1>6 DEF IInv, Types, Exists
<1>9. \A n \in Nodes : (x \in Releases(n) <=> n = n0) /\ x \notin Incs(n)
  BY <1>2, <1>3 DEF Incs, Releases
<1>10. ASSUME NEW n \in Nodes
       PROVE  Exact(n)' /\ Cardinality(Marked(Incs(n))') = Cardinality(Marked(Incs(n)))
  <2>1. /\ IsFiniteSet(Marked(Incs(n))') /\ IsFiniteSet(Marked(Releases(n))')
        /\ Cardinality(Marked(Incs(n))') \in Nat /\ Cardinality(Marked(Releases(n))') \in Nat
        /\ Cardinality(Marked(Incs(n)))
             = Cardinality(Marked(Incs(n))') + (IF x \in Incs(n) THEN 1 ELSE 0)
        /\ Cardinality(Marked(Releases(n)))
             = Cardinality(Marked(Releases(n))') + (IF x \in Releases(n) THEN 1 ELSE 0)
        /\ count[n] + Cardinality(Marked(Incs(n))) = Held(n) + Cardinality(Marked(Releases(n)))
        /\ IsFiniteSet(Owned(n)) /\ IsFiniteSet(Placed(n)) /\ count[n] \in Nat /\ Held(n) \in Nat
    BY <1>1, <1>3, AdvanceCounts
  <2>2. count'[n] = count[n] - (IF n = n0 THEN 1 ELSE 0)
    BY <1>3 DEF IInv, Types
  <2>. QED
    BY <1>7, <1>9, <2>1, <2>2 DEF Exact
<1>11. Alive'
  BY <1>3, <1>4, <1>5, <1>10 DEF Alive, IInv, Types, Exists
<1>12. PrimitivesHaveShapes'
  BY <1>3, <1>6 DEF IInv, PrimitivesHaveShapes, Exists
<1>13. Newborn' = Newborn
  BY <1>3, <1>4 DEF Newborn, Exists, IInv, Types, Nodes
<1>14. \A b, y : StepOK(b, y)' = StepOK(b, y)
  BY <1>3, <1>7, <1>13 DEF StepOK
<1>15. Control'
  <2>1. ASSUME NEW b \in Actors
        PROVE  Well(todo'[b], Newborn') /\ \A y \in ToSet(todo'[b]) : StepOK(b, y)'
    BY <1>2, <1>6, <1>13, <1>14 DEF IInv, Control
  <2>2. mutex # None => Has(mutex, "unlock")'
    BY <1>3, <1>6 DEF IInv, Control, Types, Actors
  <2>3. job # None => mutex # None /\ Has(mutex, "wait")' /\ ~Has(mutex, "start")'
    BY <1>3, <1>6 DEF IInv, Control, Types, Actors
  <2>4. todo'[Worker] # <<>> => job' = <<>>
    <3>1. todo'[Worker] # <<>> => todo[Worker] # <<>>
      BY <1>3, <1>6 DEF Idle, Actors
    <3>. QED
      BY <1>3, <3>1 DEF IInv, Control
  <2>. QED
    BY <1>3, <2>1, <2>2, <2>3, <2>4 DEF Control, Has
<1>. QED
  BY <1>8, <1>10, <1>11, <1>12, <1>15 DEF IInv

(***************************************************************************)
(* Deleting a node: the Ref inside it becomes a step of the thread.        *)
(***************************************************************************)
LEMMA DecsOf ==
  /\ Decs(<<>>) = <<>>
  /\ \A s \in Seq(Nodes \cup {None}) : Len(s) = 1 => Decs(s) = Dec(s[1])
<1>1. Decs(<<>>) = <<>>
  <2>1. [k \in DOMAIN <<>> |-> Dec(<<>>[k])] = <<>>
    OBVIOUS
  <2>. QED
    BY <2>1 DEF Decs, FlattenSeq
<1>2. ASSUME NEW s \in Seq(Nodes \cup {None}), Len(s) = 1 PROVE Decs(s) = Dec(s[1])
  <2> DEFINE q == [k \in DOMAIN s |-> Dec(s[k])]
             D(f, i) == IF i = 1 THEN q[i] ELSE f[i - 1] \o q[i]
             F == CHOOSE f : f = [i \in 1 .. Len(q) |-> D(f, i)]
  <2>1. DOMAIN s = 1 .. 1
    BY <1>2
  <2>2. q = <<Dec(s[1])>>
    BY <2>1
  <2>3. Len(q) = 1 /\ q[1] = Dec(s[1])
    BY <2>2
  <2>. HIDE DEF q
  <2>4. \E f : f = [i \in 1 .. Len(q) |-> D(f, i)]
    <3> DEFINE g == [i \in 1 .. 1 |-> q[1]]
    <3>1. g = [i \in 1 .. Len(q) |-> D(g, i)]
      BY <2>3
    <3>. QED
      BY <3>1
  <2>5. F = [i \in 1 .. Len(q) |-> D(F, i)]
    BY <2>4
  <2>. HIDE DEF F
  <2>6. F[Len(q)] = q[1]
    BY <2>3, <2>5
  <2>7. Decs(s) = F[Len(q)]
    BY <2>3 DEF Decs, FlattenSeq, F, q
  <2>. QED
    BY <2>3, <2>6, <2>7
<1>. QED
  BY <1>1, <1>2
LEMMA FieldsTypes ==
  ASSUME Types, NEW n \in Nodes, Exists(n)
  PROVE  /\ fields[n] \in Seq(Nodes \cup {None}) /\ DOMAIN fields[n] = 1 .. Len(fields[n])
         /\ Len(fields[n]) \in Nat /\ Len(fields[n]) <= 2 /\ fields[n] # None
         /\ n # Scene => Len(fields[n]) <= 1
<1>1. fields[n] \in Seq(Nodes \cup {None})
  BY DEF Types, Exists
<1>2. Len(fields[n]) \in Nat /\ DOMAIN fields[n] = 1 .. Len(fields[n])
  BY <1>1
<1>3. n \in Handles \/ n = Scene \/ n \in Objects
  BY DEF Nodes
<1>4. Len(fields[n]) <= 2 /\ (n # Scene => Len(fields[n]) <= 1)
  <2>1. CASE n \in Handles
    <3>1. Len(fields[n]) = 1
      BY <2>1 DEF Types
    <3>. QED
      BY <3>1
  <2>2. CASE n = Scene
    <3>1. Len(fields[n]) = 2
      BY <2>2 DEF Types
    <3>. QED
      BY <2>2, <3>1
  <2>3. CASE n \in Objects
    <3>1. Len(fields[n]) <= 1
      BY <2>3 DEF Types
    <3>. QED
      BY <1>2, <3>1
  <2>. QED
    BY <1>3, <2>1, <2>2, <2>3
<1>. QED
  BY <1>1, <1>2, <1>4 DEF Exists

\* The Refs that are left when a node goes that only the Ref inside counts for.
LEMMA PlacedWithout ==
  ASSUME NEW n0 \in Nodes, NEW n \in Nodes, NEW c \in Nodes \cup {None},
         Types, Exists(n0), \A k : ~Under(n0, k),
         fields' = [fields EXCEPT ![n0] = None], \A m, k : Under(m, k)' = Under(m, k),
         (fields[n0] = <<>> /\ c = None) \/ (Len(fields[n0]) = 1 /\ c = fields[n0][1])
  PROVE  /\ Placed(n)' = Placed(n) \ {<<n0, 1>>}
         /\ <<n0, 1>> \in Placed(n) <=> n = c
<1>1. \A m \in Nodes : fields'[m] = IF m = n0 THEN None ELSE fields[m]
  BY DEF Types
<1>2. \A m \in Nodes : Exists(m)' <=> Exists(m) /\ m # n0
  BY <1>1 DEF Exists
<1>3. fields[n0] \in Seq(Nodes \cup {None}) /\ Len(fields[n0]) <= 1 /\ DOMAIN fields[n0] = 1 .. Len(fields[n0])
  <2>1. Len(<<>>) <= 1
    OBVIOUS
  <2>2. Len(fields[n0]) = 1 => Len(fields[n0]) <= 1
    OBVIOUS
  <2>. QED
    BY <2>1, <2>2, FieldsTypes
<1>4. 2 \notin DOMAIN fields[n0]
  BY <1>3
<1>5. \A p \in Nodes \X {1, 2} : p[1] \in Nodes /\ p[2] \in {1, 2} /\ p = <<p[1], p[2]>>
  OBVIOUS
<1>6. \A p \in Nodes \X {1, 2} : p \in Refs(n)' <=> p \in Refs(n) /\ p[1] # n0
  BY <1>1, <1>2, <1>5 DEF Refs
<1>7. \A p \in Refs(n) : p[1] = n0 => p = <<n0, 1>>
  BY <1>4, <1>5 DEF Refs
<1>8. \A p : p = <<n0, 1>> => p[1] = n0
  OBVIOUS
<1>9. Refs(n) \subseteq Nodes \X {1, 2} /\ Refs(n)' \subseteq Nodes \X {1, 2}
  BY DEF Refs
<1>10. Placed(n)' = Placed(n) \ {<<n0, 1>>}
  BY <1>6, <1>7, <1>8, <1>9 DEF Placed
<1>11. <<n0, 1>> \in Refs(n) <=> n = c
  <2>1. <<n0, 1>> \in Refs(n) <=> 1 \in DOMAIN fields[n0] /\ fields[n0][1] = n
    BY DEF Refs
  <2>2. CASE fields[n0] = <<>> /\ c = None
    BY <2>1, <2>2, NoneIsNoNode
  <2>3. CASE Len(fields[n0]) = 1 /\ c = fields[n0][1]
    BY <1>3, <2>1, <2>3
  <2>. QED
    BY <2>2, <2>3
<1>12. <<n0, 1>> \in Placed(n) <=> n = c
  BY <1>11 DEF Placed
<1>. QED
  BY <1>10, <1>12

LEMMA RefDecDeletes ==
  ASSUME IInv, NEW a \in Actors, RefDec(a), count[Head(todo[a]).node] = 1
  PROVE  IInv'
<1>1. PICK x, r : x = Head(todo[a]) /\ r = Rest(a)
  OBVIOUS
<1> DEFINE n0 == x.node
<1>2. /\ x \in Steps /\ r \in Seq(Steps) /\ ToSet(todo[a]) = ToSet(r) \cup {x}
      /\ Well(r, Newborn) /\ \A y \in ToSet(r) : StepOK(a, y)
      /\ \A T : Number(todo[a], T) = Number(r, T) + (IF x \in T THEN 1 ELSE 0)
      /\ \A T : Number(r, T) \in Nat
  BY <1>1, NextStep DEF RefDec, Does, IInv
<1>3. /\ x.op = "dec" /\ n0 \in Nodes /\ ~Idle(a) /\ count[n0] = 1
      /\ count' = [count EXCEPT ![n0] = @ - 1] /\ todo' = [todo EXCEPT ![a] = Deleted(n0) \o r]
      /\ fields' = [fields EXCEPT ![n0] = None]
      /\ UNCHANGED <<owns, mutex, job>>
  BY <1>1, <1>2 DEF RefDec, Does, Steps
<1>4. Held(n0) = 0
  <2>1. Does(a, "dec") /\ Head(todo[a]).node = n0
    BY <1>1 DEF RefDec
  <2>2. count[n0] \in Nat /\ count[n0] >= Held(n0) + 1 /\ Held(n0) \in Nat
    BY <1>3, <2>1, CountHolds, HeldType DEF IInv
  <2>. QED
    BY <1>3, <2>2
<1>5. Exists(n0) /\ Placed(n0) = {} /\ n0 # Scene /\ job # <<n0>> /\ n0 \notin Newborn
      /\ \A b \in Actors : ~Kept(b, n0) /\ ~Owns(b, n0)
  <2>1. Placed(n0) = {} /\ n0 # Scene /\ job # <<n0>>
    BY <1>3, <1>4, HeldType DEF IInv
  <2>2. \A b \in Actors : ~Kept(b, n0)
    BY <1>3, <1>4, KeptHolds DEF IInv
  <2>. QED
    BY <1>3, <2>1, <2>2 DEF IInv, Alive, Kept, Newborn
<1>6. \A k : ~Under(n0, k)
  <2>1. ASSUME NEW b \in Actors, NEW y \in ToSet(todo[b]), y.op = "put" PROVE y.node # n0
    <3>1. Owns(b, y.node) \/ y.node \in Newborn
      BY <2>1 DEF IInv, Control, StepOK
    <3>. QED
      BY <1>5, <3>1
  <2>. QED
    BY <2>1 DEF Under
<1>7. fields[n0] \in Seq(Nodes \cup {None}) /\ Len(fields[n0]) \in {0, 1}
  <2>1. fields[n0] \in Seq(Nodes \cup {None}) /\ Len(fields[n0]) <= 1 /\ Len(fields[n0]) \in Nat
    BY <1>3, <1>5, FieldsTypes DEF IInv
  <2>2. \A l \in Nat : l <= 1 => l \in {0, 1}
    OBVIOUS
  <2>. QED
    BY <2>1, <2>2
<1>8. PICK c \in Nodes \cup {None} :
        (fields[n0] = <<>> /\ c = None) \/ (Len(fields[n0]) = 1 /\ c = fields[n0][1])
  <2>1. CASE Len(fields[n0]) = 0
    <3>1. fields[n0] = <<>>
      BY <1>7, <2>1, EmptySeq
    <3>2. PICK d \in Nodes \cup {None} : d = None
      OBVIOUS
    <3>. QED
      BY <3>1, <3>2
  <2>2. CASE Len(fields[n0]) = 1
    <3>1. fields[n0][1] \in Nodes \cup {None}
      BY <1>7, <2>2
    <3>. QED
      BY <2>2, <3>1
  <2>. QED
    BY <1>7, <2>1, <2>2
<1>9. Deleted(n0) = Dec(c)
  <2>1. fields[n0] = <<>> /\ c = None => Deleted(n0) = Dec(c)
    BY DecsOf DEF Deleted, Dec
  <2>2. Len(fields[n0]) = 1 /\ c = fields[n0][1] => Deleted(n0) = Dec(c)
    BY <1>7, DecsOf DEF Deleted
  <2>. QED
    BY <1>8, <2>1, <2>2
<1>10. PICK s : s = Dec(c) \o r
  OBVIOUS
<1>11. /\ s \in Seq(Steps) /\ ToSet(s) = ToSet(r) \cup Drops(c)
       /\ \A n \in Nodes : Number(s, Incs(n)) = Number(r, Incs(n))
       /\ \A n \in Nodes : Number(s, Releases(n)) = Number(r, Releases(n)) + (IF n = c THEN 1 ELSE 0)
       /\ Well(s, Newborn)
  BY <1>2, <1>10, AddDec
<1>12. /\ todo' = [todo EXCEPT ![a] = s]
       /\ todo' \in [Actors -> Seq(Steps)]
       /\ \A b \in Actors : todo'[b] = IF b = a THEN s ELSE todo[b]
  BY <1>3, <1>9, <1>10, <1>11 DEF IInv, Types
<1>13. /\ \A b \in Actors : \A y \in ToSet(todo'[b]) : y \in ToSet(todo[b]) \/ y.op = "dec"
       /\ \A b \in Actors : \A y \in ToSet(todo[b]) : y \in ToSet(todo'[b]) \/ y.op = "dec"
  BY <1>2, <1>3, <1>11, <1>12 DEF Drops
<1>14. \A m, k : Under(m, k)' = Under(m, k)
  <2>1. \A m, k : Under(m, k)' => Under(m, k)
    BY <1>13 DEF Under
  <2>2. \A m, k : Under(m, k) => Under(m, k)'
    BY <1>13 DEF Under
  <2>. QED
    BY <2>1, <2>2 DEF Under
<1>15. \A n \in Nodes : Placed(n)' = Placed(n) \ {<<n0, 1>>} /\ (<<n0, 1>> \in Placed(n) <=> n = c)
  BY <1>3, <1>5, <1>6, <1>8, <1>14, PlacedWithout DEF IInv
<1>16. \A n : Owned(n)' = Owned(n)
  BY <1>3 DEF Owned
<1>17. /\ \A m \in Nodes : fields'[m] = IF m = n0 THEN None ELSE fields[m]
       /\ \A m \in Nodes : Exists(m)' <=> Exists(m) /\ m # n0
       /\ \A m \in Nodes : count'[m] = count[m] - (IF m = n0 THEN 1 ELSE 0) /\ count'[m] \in Nat
  BY <1>3 DEF Exists, IInv, Types
<1>18. Types'
  <2>1. count' \in [Nodes -> Nat]
    BY <1>3 DEF IInv, Types
  <2>2. fields' \in [Nodes -> Seq(Nodes \cup {None}) \cup {None}]
    BY <1>3 DEF IInv, Types
  <2>3. Scene \in Nodes /\ Handles \subseteq Nodes /\ Objects \subseteq Nodes
    BY DEF Nodes
  <2>. QED
    BY <1>3, <1>5, <1>12, <1>17, <2>1, <2>2, <2>3 DEF IInv, Types
<1>19. ASSUME NEW n \in Nodes
       PROVE  /\ IsFiniteSet(Marked(Incs(n))') /\ IsFiniteSet(Marked(Releases(n))')
              /\ Cardinality(Marked(Incs(n))') \in Nat /\ Cardinality(Marked(Releases(n))') \in Nat
              /\ Cardinality(Marked(Incs(n))') = Cardinality(Marked(Incs(n)))
              /\ Cardinality(Marked(Releases(n))')
                   = Cardinality(Marked(Releases(n))) - (IF n = n0 THEN 1 ELSE 0) + (IF n = c THEN 1 ELSE 0)
  <2>1. /\ IsFiniteSet(Marked(Incs(n))) /\ IsFiniteSet(Marked(Releases(n))) /\ todo \in [Actors -> Seq(Steps)]
    BY DEF IInv, Exact, Types
  <2>2. (x \in Releases(n) <=> n = n0) /\ x \notin Incs(n)
    BY <1>2, <1>3 DEF Incs, Releases
  <2>3. /\ IsFiniteSet(Marked(Incs(n))') /\ Cardinality(Marked(Incs(n))') \in Nat /\ Cardinality(Marked(Incs(n))) \in Nat
        /\ Cardinality(Marked(Incs(n))') + Number(todo[a], Incs(n)) = Cardinality(Marked(Incs(n))) + Number(s, Incs(n))
    BY <1>11, <1>12, <2>1, ActorChange
  <2>4. /\ IsFiniteSet(Marked(Releases(n))') /\ Cardinality(Marked(Releases(n))') \in Nat /\ Cardinality(Marked(Releases(n))) \in Nat
        /\ Cardinality(Marked(Releases(n))') + Number(todo[a], Releases(n))
             = Cardinality(Marked(Releases(n))) + Number(s, Releases(n))
    BY <1>11, <1>12, <2>1, ActorChange
  <2>5. /\ Number(todo[a], Incs(n)) = Number(r, Incs(n)) /\ Number(r, Incs(n)) \in Nat
        /\ Number(todo[a], Releases(n)) = Number(r, Releases(n)) + (IF n = n0 THEN 1 ELSE 0)
        /\ Number(r, Releases(n)) \in Nat
    <3>1. /\ Number(todo[a], Incs(n)) = Number(r, Incs(n)) + (IF x \in Incs(n) THEN 1 ELSE 0)
          /\ Number(todo[a], Releases(n)) = Number(r, Releases(n)) + (IF x \in Releases(n) THEN 1 ELSE 0)
          /\ Number(r, Incs(n)) \in Nat /\ Number(r, Releases(n)) \in Nat
      BY <1>2
    <3>. QED
      BY <2>2, <3>1
  <2>6. PICK d, e : d = (IF n = n0 THEN 1 ELSE 0) /\ e = (IF n = c THEN 1 ELSE 0)
    OBVIOUS
  <2>7. d \in {0, 1} /\ e \in {0, 1}
    BY <2>6
  <2>8. /\ Number(todo[a], Releases(n)) = Number(r, Releases(n)) + d
        /\ Number(s, Releases(n)) = Number(r, Releases(n)) + e
        /\ Number(s, Incs(n)) = Number(r, Incs(n))
    BY <1>11, <2>5, <2>6
  <2>9. Cardinality(Marked(Releases(n))') = Cardinality(Marked(Releases(n))) - d + e
    BY <2>4, <2>5, <2>7, <2>8
  <2>10. Cardinality(Marked(Incs(n))') = Cardinality(Marked(Incs(n)))
    BY <2>3, <2>5, <2>8
  <2>. QED
    BY <2>3, <2>4, <2>6, <2>9, <2>10
<1>20. ASSUME NEW n \in Nodes PROVE Exact(n)'
  <2>1. /\ count[n] + Cardinality(Marked(Incs(n))) = Held(n) + Cardinality(Marked(Releases(n)))
        /\ IsFiniteSet(Owned(n)) /\ IsFiniteSet(Placed(n)) /\ count[n] \in Nat /\ Held(n) \in Nat
    BY HeldType DEF IInv, Exact, Types
  <2>2. /\ IsFiniteSet(Placed(n)')
        /\ Cardinality(Placed(n)') = Cardinality(Placed(n)) - (IF n = c THEN 1 ELSE 0)
        /\ Cardinality(Placed(n)) \in Nat /\ Cardinality(Owned(n)) \in Nat
    <3>1. Placed(n)' = Placed(n) \ {<<n0, 1>>} /\ (<<n0, 1>> \in Placed(n) <=> n = c)
      BY <1>15
    <3>2. Cardinality(Placed(n)) \in Nat /\ Cardinality(Owned(n)) \in Nat
      BY <2>1, FS_CardinalityType
    <3>3. /\ IsFiniteSet(Placed(n) \ {<<n0, 1>>})
          /\ Cardinality(Placed(n) \ {<<n0, 1>>})
               = IF <<n0, 1>> \in Placed(n) THEN Cardinality(Placed(n)) - 1 ELSE Cardinality(Placed(n))
      BY <2>1, FS_RemoveElement
    <3>. QED
      BY <3>1, <3>2, <3>3
  <2>3. Held(n)' = Held(n) - (IF n = c THEN 1 ELSE 0)
    <3>1. PICK u, j : u = (IF n = Scene THEN 1 ELSE 0) /\ j = (IF job = <<n>> THEN 1 ELSE 0)
      OBVIOUS
    <3>2. u \in Nat /\ j \in Nat
      BY <3>1
    <3>3. Held(n) = u + Cardinality(Owned(n)) + Cardinality(Placed(n)) + j
      BY <3>1 DEF Held
    <3>4. Held(n)' = u + Cardinality(Owned(n)) + Cardinality(Placed(n)') + j
      BY <1>3, <1>16, <3>1 DEF Held
    <3>. QED
      BY <2>2, <3>2, <3>3, <3>4
  <2>4. count'[n] + Cardinality(Marked(Incs(n))') = Held(n)' + Cardinality(Marked(Releases(n))')
    <3>1. Cardinality(Marked(Incs(n))) \in Nat /\ Cardinality(Marked(Releases(n))) \in Nat
      BY FS_CardinalityType DEF IInv, Exact
    <3>. QED
      BY <1>17, <1>19, <2>1, <2>3, <3>1
  <2>. QED
    BY <1>16, <1>19, <2>1, <2>2, <2>4 DEF Exact
<1>21. Alive'
  BY <1>3, <1>17, <1>19 DEF Alive, IInv, Types
<1>22. PrimitivesHaveShapes'
  BY <1>14, <1>17, DistinctNodes DEF IInv, PrimitivesHaveShapes
<1>23. Newborn' = Newborn
  <2>1. \A n \in Objects : n \in Nodes
    BY DEF Nodes
  <2>. QED
    BY <1>3, <1>5, <1>17, <2>1 DEF Newborn
<1>24. \A b \in Actors, n \in Nodes : Kept(b, n) => Kept(b, n)'
  <2>1. ASSUME NEW b \in Actors, NEW n \in Nodes, Kept(b, n) PROVE Kept(b, n)'
    <3>1. \A m : Owns(b, m)' = Owns(b, m)
      BY <1>3 DEF Owns
    <3>2. CASE Owns(b, n)
      BY <3>1, <3>2 DEF Kept
    <3>3. ASSUME NEW k \in {1, 2}, <<Scene, k>> \in Placed(n) PROVE Kept(b, n)'
      <4>1. <<Scene, k>> # <<n0, 1>>
        BY <1>5
      <4>2. <<Scene, k>> \in Placed(n)'
        BY <1>15, <3>3, <4>1
      <4>. QED
        BY <4>2 DEF Kept
    <3>4. CASE Owns(b, Primitive) /\ <<Primitive, 1>> \in Placed(Shape) /\ <<Shape, 1>> \in Placed(n)
      <4>1. n0 # Primitive /\ n0 # Shape
        BY <1>5, <3>4
      <4>2. <<Primitive, 1>> # <<n0, 1>> /\ <<Shape, 1>> # <<n0, 1>>
        BY <4>1
      <4>3. <<Primitive, 1>> \in Placed(Shape)' /\ <<Shape, 1>> \in Placed(n)'
        BY <1>15, <3>4, <4>2, DistinctNodes
      <4>. QED
        BY <3>1, <3>4, <4>3 DEF Kept
    <3>. QED
      BY <2>1, <3>2, <3>3, <3>4 DEF Kept
  <2>. QED
    BY <2>1
<1>25. ASSUME NEW b \in Actors, NEW y \in ToSet(todo[b]) PROVE StepOK(b, y)'
  <2>1. StepOK(b, y) /\ y \in Steps
    BY DEF IInv, Control, Types, ToSet
  <2>2. Owns(b, y.node)' = Owns(b, y.node)
    BY <1>3 DEF Owns
  <2>3. y.op = "inc" => Kept(b, y.node)' \/ y.node \in Newborn'
    <3>1. y.op = "inc" => y.node \in Nodes
      BY <2>1 DEF Steps
    <3>. QED
      BY <1>23, <1>24, <2>1, <3>1 DEF StepOK
  <2>4. y.op = "put" => y.node \in Nodes /\ y.node # n0
    <3>1. y.op = "put" => y.node \in Nodes /\ Under(y.node, y.at)
      BY <2>1 DEF Steps, Under
    <3>. QED
      BY <1>6, <3>1
  <2>5. y.op = "put" => y.at \in DOMAIN fields'[y.node]
    BY <1>17, <2>1, <2>4 DEF StepOK
  <2>. QED
    BY <1>3, <1>23, <2>1, <2>2, <2>3, <2>5 DEF StepOK
<1>26. ASSUME NEW b \in Actors
       PROVE  Well(todo'[b], Newborn') /\ \A y \in ToSet(todo'[b]) : StepOK(b, y)'
  <2>1. \A y : y.op = "dec" => StepOK(b, y)'
    BY DEF StepOK
  <2>2. \A y \in ToSet(todo'[b]) : StepOK(b, y)'
    BY <1>13, <1>25, <2>1
  <2>3. Well(todo'[b], Newborn')
    BY <1>11, <1>12, <1>23 DEF IInv, Control
  <2>. QED
    BY <2>2, <2>3
<1>27. \A b \in Actors : \A op : op # "dec" => Has(b, op)' = Has(b, op)
  <2>1. \A b \in Actors : \A op : op # "dec" => (Has(b, op)' => Has(b, op))
    BY <1>13 DEF Has
  <2>2. \A b \in Actors : \A op : op # "dec" => (Has(b, op) => Has(b, op)')
    BY <1>13 DEF Has
  <2>. QED
    BY <2>1, <2>2 DEF Has
<1>28. Control'
  <2>1. mutex # None => Has(mutex, "unlock")'
    BY <1>3, <1>27 DEF IInv, Control, Types, Actors
  <2>2. job # None => mutex # None /\ Has(mutex, "wait")' /\ ~Has(mutex, "start")'
    BY <1>3, <1>27 DEF IInv, Control, Types, Actors
  <2>3. todo'[Worker] # <<>> => job' = <<>>
    <3>1. todo'[Worker] # <<>> => todo[Worker] # <<>>
      BY <1>3, <1>12 DEF Idle, Actors
    <3>. QED
      BY <1>3, <3>1 DEF IInv, Control
  <2>. QED
    BY <1>3, <1>26, <2>1, <2>2, <2>3 DEF Control, Has
<1>. QED
  BY <1>18, <1>20, <1>21, <1>22, <1>28 DEF IInv

LEMMA RefDecKeeps ==
  ASSUME IInv, NEW a \in Actors, RefDec(a)
  PROVE  IInv'
BY RefDecKeepsOthers, RefDecDeletes

(***************************************************************************)
(* Putting a Ref: the reference that the step held is now in the node.     *)
(***************************************************************************)
LEMMA PutRefKeeps ==
  ASSUME IInv, NEW a \in Actors, PutRef(a)
  PROVE  IInv'
<1>1. PICK x, r : x = Head(todo[a]) /\ r = Rest(a)
  OBVIOUS
<1>2. /\ x \in Steps /\ r \in Seq(Steps) /\ ToSet(todo[a]) = ToSet(r) \cup {x}
      /\ Well(r, Newborn) /\ HeadOK(x, r, Newborn) /\ StepOK(a, x)
      /\ \A y \in ToSet(r) : StepOK(a, y)
  BY <1>1, NextStep DEF PutRef, Does, IInv
<1>3. /\ x.op = "put" /\ x.node \in Nodes /\ x.at \in {1, 2} /\ x.ref \in Nodes \cup {None}
      /\ ~Idle(a) /\ mutex = a
      /\ fields' = [fields EXCEPT ![x.node][x.at] = x.ref] /\ todo' = [todo EXCEPT ![a] = Rest(a)]
      /\ UNCHANGED <<count, owns, mutex, job>>
  BY <1>1, <1>2 DEF PutRef, Does, StepOK, Steps
<1>4. PICK m, k, ref : m = x.node /\ k = x.at /\ ref = x.ref
  OBVIOUS
<1>5. /\ m \in Nodes /\ k \in {1, 2} /\ ref \in Nodes \cup {None}
      /\ k \in DOMAIN fields[m] /\ (Owns(a, m) \/ m \in Newborn)
      /\ (m = Primitive => ref = Shape) /\ (m = Scene => ref \in Objects)
      /\ fields' = [fields EXCEPT ![m][k] = ref]
      /\ \A y \in ToSet(r) : y.op = "put" => y.node # m
  BY <1>2, <1>3, <1>4 DEF StepOK, HeadOK
<1>6. Exists(m)
  <2>1. Owns(a, m) => Kept(a, m)
    BY DEF Kept
  <2>2. Kept(a, m) => Exists(m)
    BY <1>5, KeptExists DEF IInv
  <2>. QED
    BY <1>5, <2>1, <2>2 DEF Newborn
<1>7. /\ fields[m] \in Seq(Nodes \cup {None}) /\ DOMAIN fields[m] = 1 .. Len(fields[m])
      /\ Len(fields[m]) \in Nat /\ Len(fields[m]) <= 2
  BY <1>5, <1>6, FieldsTypes DEF IInv
<1>8. PICK v : v = [fields[m] EXCEPT ![k] = ref]
  OBVIOUS
<1>9. /\ v \in Seq(Nodes \cup {None}) /\ Len(v) = Len(fields[m]) /\ DOMAIN v = DOMAIN fields[m]
      /\ \A j \in DOMAIN v : v[j] = IF j = k THEN ref ELSE fields[m][j]
  BY <1>5, <1>7, <1>8
<1>10. v # None
  BY <1>7, <1>9, TuplesAreNotNone
<1>11. /\ fields' = [fields EXCEPT ![m] = v]
       /\ \A n \in Nodes : fields'[n] = IF n = m THEN v ELSE fields[n]
       /\ \A n \in Nodes : Exists(n)' <=> Exists(n)
  <2>1. fields' = [fields EXCEPT ![m] = v]
    BY <1>5, <1>8
  <2>2. \A n \in Nodes : fields'[n] = IF n = m THEN v ELSE fields[n]
    BY <1>5, <2>1 DEF IInv, Types
  <2>. QED
    BY <1>6, <1>10, <2>1, <2>2 DEF Exists
<1>12. /\ todo' \in [Actors -> Seq(Steps)]
       /\ \A b \in Actors : todo'[b] = IF b = a THEN r ELSE todo[b]
       /\ \A p, j : Under(p, j)' => Under(p, j)
  BY <1>1, <1>3, Advance DEF IInv
<1>13. \A b \in Actors : \A op : op # "put" => Has(b, op)' = Has(b, op)
  <2>1. ASSUME NEW b \in Actors, NEW op, op # "put" PROVE Has(b, op)' = Has(b, op)
    <3>1. op # Head(todo[a]).op
      BY <1>1, <1>3, <2>1
    <3>. QED
      BY <1>3, <3>1, AdvanceHas DEF IInv
  <2>. QED
    BY <2>1
<1>14. ASSUME NEW b \in Actors, NEW y \in ToSet(todo[b]), y.op = "put", y.node = m PROVE b = a /\ y = x
  <2>1. b = a
    BY <1>3, <1>14, Holder DEF IInv
  <2>. QED
    BY <1>2, <1>5, <1>14, <2>1
<1>15. \A j : (Under(m, j) <=> j = k) /\ ~Under(m, j)'
  <2>1. Under(m, k)
    BY <1>2, <1>3, <1>4 DEF Under
  <2>2. \A j : Under(m, j) => j = k
    BY <1>4, <1>14 DEF Under
  <2>3. \A j : ~Under(m, j)'
    <3>1. ASSUME NEW b \in Actors, NEW y \in ToSet(todo'[b]), y.op = "put", y.node = m PROVE FALSE
      <4>1. CASE b = a
        BY <1>5, <1>12, <3>1, <4>1
      <4>2. CASE b # a
        <5>1. y \in ToSet(todo[b])
          BY <1>12, <3>1, <4>2
        <5>. QED
          BY <1>14, <3>1, <4>2, <5>1
      <4>. QED
        BY <4>1, <4>2
    <3>. QED
      BY <3>1 DEF Under
  <2>. QED
    BY <2>1, <2>2, <2>3
<1>16. \A p, j : p # m => (Under(p, j)' <=> Under(p, j))
  <2>1. ASSUME NEW p, NEW j, p # m, Under(p, j) PROVE Under(p, j)'
    <3>1. PICK b \in Actors : \E y \in ToSet(todo[b]) : y.op = "put" /\ y.node = p /\ y.at = j
      BY <2>1 DEF Under
    <3>2. PICK y \in ToSet(todo[b]) : y.op = "put" /\ y.node = p /\ y.at = j
      BY <3>1
    <3>3. y # x
      BY <1>4, <2>1, <3>2
    <3>4. y \in ToSet(todo'[b])
      BY <1>2, <1>12, <3>3
    <3>. QED
      BY <3>2, <3>4 DEF Under
  <2>. QED
    BY <1>12, <2>1
<1>17. ASSUME NEW n \in Nodes
       PROVE  /\ Placed(n)' = Placed(n) \cup (IF n = ref THEN {<<m, k>>} ELSE {})
              /\ <<m, k>> \notin Placed(n)
  <2>1. \A p \in Nodes \X {1, 2} : p[1] \in Nodes /\ p[2] \in {1, 2} /\ p = <<p[1], p[2]>>
    OBVIOUS
  <2>2. <<m, k>> \in Nodes \X {1, 2} /\ <<m, k>>[1] = m /\ <<m, k>>[2] = k
    BY <1>5
  <2>3. <<m, k>> \notin Placed(n)
    BY <1>15, <2>2 DEF Placed
  <2>4. <<m, k>> \in Placed(n)' <=> n = ref
    <3>1. <<m, k>> \in Refs(n)' <=> n = ref
      BY <1>5, <1>6, <1>9, <1>11, <2>2 DEF Refs
    <3>. QED
      BY <1>15, <2>2, <3>1 DEF Placed
  <2>5. ASSUME NEW p \in Nodes \X {1, 2}, p # <<m, k>> PROVE p \in Placed(n)' <=> p \in Placed(n)
    <3>1. p[1] \in Nodes /\ (p[1] # m \/ p[2] # k)
      BY <2>1, <2>5
    <3>2. p \in Refs(n)' <=> p \in Refs(n)
      BY <1>9, <1>11, <3>1 DEF Refs
    <3>3. Under(p[1], p[2])' <=> Under(p[1], p[2])
      BY <1>15, <1>16, <3>1
    <3>. QED
      BY <3>2, <3>3 DEF Placed
  <2>6. Placed(n) \subseteq Nodes \X {1, 2} /\ Placed(n)' \subseteq Nodes \X {1, 2}
    BY DEF Placed, Refs
  <2>. QED
    BY <2>2, <2>3, <2>4, <2>5, <2>6
<1>18. \A n : Owned(n)' = Owned(n)
  BY <1>3 DEF Owned
<1>19. Types'
  <2>1. fields' \in [Nodes -> Seq(Nodes \cup {None}) \cup {None}]
    BY <1>5, <1>9, <1>11 DEF IInv, Types
  <2>2. Exists(Scene)' /\ Len(fields'[Scene]) = 2
    BY <1>9, <1>11, DistinctNodes DEF IInv, Types
  <2>3. ASSUME NEW j \in {1, 2} PROVE fields'[Scene][j] \in Objects \cup {None}
    <3>1. CASE m # Scene
      BY <1>11, <3>1, DistinctNodes DEF IInv, Types
    <3>2. CASE m = Scene
      <4>1. fields'[Scene] = v /\ DOMAIN v = {1, 2}
        BY <1>7, <1>9, <1>11, <3>2, DistinctNodes DEF IInv, Types
      <4>2. v[j] = IF j = k THEN ref ELSE fields[Scene][j]
        BY <1>9, <3>2, <4>1
      <4>3. fields[Scene][j] \in Objects \cup {None} /\ ref \in Objects
        BY <1>5, <3>2 DEF IInv, Types
      <4>. QED
        BY <4>1, <4>2, <4>3
    <3>. QED
      BY <3>1, <3>2
  <2>4. \A h \in Handles : Exists(h)' => Len(fields'[h]) = 1
    BY <1>6, <1>9, <1>11 DEF IInv, Types, Nodes
  <2>5. \A o \in Objects : Exists(o)' => Len(fields'[o]) <= 1
    BY <1>6, <1>9, <1>11 DEF IInv, Types, Nodes
  <2>. QED
    BY <1>3, <1>12, <2>1, <2>2, <2>3, <2>4, <2>5 DEF IInv, Types
<1>20. ASSUME NEW n \in Nodes
       PROVE  Exact(n)' /\ Cardinality(Marked(Incs(n))') = Cardinality(Marked(Incs(n)))
  <2>1. /\ IsFiniteSet(Marked(Incs(n))') /\ IsFiniteSet(Marked(Releases(n))')
        /\ Cardinality(Marked(Incs(n))') \in Nat /\ Cardinality(Marked(Releases(n))') \in Nat
        /\ Cardinality(Marked(Incs(n)))
             = Cardinality(Marked(Incs(n))') + (IF x \in Incs(n) THEN 1 ELSE 0)
        /\ Cardinality(Marked(Releases(n)))
             = Cardinality(Marked(Releases(n))') + (IF x \in Releases(n) THEN 1 ELSE 0)
        /\ count[n] + Cardinality(Marked(Incs(n))) = Held(n) + Cardinality(Marked(Releases(n)))
        /\ IsFiniteSet(Owned(n)) /\ IsFiniteSet(Placed(n)) /\ count[n] \in Nat /\ Held(n) \in Nat
    BY <1>1, <1>3, AdvanceCounts
  <2>2. (x \in Releases(n) <=> n = ref) /\ x \notin Incs(n)
    BY <1>2, <1>3, <1>4 DEF Incs, Releases
  <2>3. PICK d : d = (IF n = ref THEN 1 ELSE 0)
    OBVIOUS
  <2>4. d \in {0, 1} /\ Cardinality(Marked(Releases(n))) = Cardinality(Marked(Releases(n))') + d
    BY <2>1, <2>2, <2>3
  <2>5. /\ IsFiniteSet(Placed(n)') /\ Cardinality(Placed(n)') = Cardinality(Placed(n)) + d
        /\ Cardinality(Placed(n)) \in Nat /\ Cardinality(Owned(n)) \in Nat
    <3>1. Cardinality(Placed(n)) \in Nat /\ Cardinality(Owned(n)) \in Nat
      BY <2>1, FS_CardinalityType
    <3>2. CASE n = ref
      <4>1. Placed(n)' = Placed(n) \cup {<<m, k>>}
        BY <1>17, <3>2
      <4>2. /\ IsFiniteSet(Placed(n) \cup {<<m, k>>})
            /\ Cardinality(Placed(n) \cup {<<m, k>>}) = Cardinality(Placed(n)) + 1
        BY <1>17, <2>1, FS_AddElement
      <4>. QED
        BY <2>3, <3>1, <3>2, <4>1, <4>2
    <3>3. CASE n # ref
      <4>1. Placed(n)' = Placed(n)
        BY <1>17, <3>3
      <4>. QED
        BY <2>1, <2>3, <3>1, <3>3, <4>1
    <3>. QED
      BY <3>2, <3>3
  <2>6. Held(n)' = Held(n) + d
    <3>1. PICK u, j : u = (IF n = Scene THEN 1 ELSE 0) /\ j = (IF job = <<n>> THEN 1 ELSE 0)
      OBVIOUS
    <3>2. u \in Nat /\ j \in Nat
      BY <3>1
    <3>3. Held(n) = u + Cardinality(Owned(n)) + Cardinality(Placed(n)) + j
      BY <3>1 DEF Held
    <3>4. Held(n)' = u + Cardinality(Owned(n)) + Cardinality(Placed(n)') + j
      BY <1>3, <1>18, <3>1 DEF Held
    <3>. QED
      BY <2>4, <2>5, <3>2, <3>3, <3>4
  <2>7. count'[n] + Cardinality(Marked(Incs(n))') = Held(n)' + Cardinality(Marked(Releases(n))')
    BY <1>3, <2>1, <2>2, <2>4, <2>6
  <2>. QED
    BY <1>18, <2>1, <2>2, <2>5, <2>7 DEF Exact
<1>21. Alive'
  BY <1>3, <1>11, <1>20 DEF Alive, IInv
<1>22. PrimitivesHaveShapes'
  <2>1. CASE m # Primitive
    BY <1>11, <1>16, <2>1, DistinctNodes DEF IInv, PrimitivesHaveShapes
  <2>2. CASE m = Primitive
    <3>1. v \in Seq(Nodes \cup {None}) /\ Len(v) = 1 /\ v[1] = Shape
      <4>1. Len(v) = 1
        BY <1>6, <1>9, <2>2 DEF IInv, Types, Handles
      <4>2. DOMAIN v = {1} /\ k = 1
        BY <1>5, <1>7, <1>9, <4>1
      <4>. QED
        BY <1>5, <1>9, <2>2, <4>1, <4>2
    <3>2. v = <<Shape>>
      BY <3>1
    <3>. QED
      BY <1>5, <1>11, <2>2, <3>2 DEF PrimitivesHaveShapes
  <2>. QED
    BY <2>1, <2>2
<1>23. Newborn' = Newborn
  <2>1. \A n \in Objects : n \in Nodes
    BY DEF Nodes
  <2>. QED
    BY <1>3, <1>11, <2>1 DEF Newborn
<1>24. \A b \in Actors, n \in Nodes : Kept(b, n) => Kept(b, n)'
  <2>1. \A b, p : Owns(b, p)' = Owns(b, p)
    BY <1>3 DEF Owns
  <2>2. \A n \in Nodes : Placed(n) \subseteq Placed(n)'
    BY <1>17
  <2>. QED
    BY <2>1, <2>2, DistinctNodes DEF Kept
<1>25. ASSUME NEW y \in ToSet(r) PROVE StepOK(a, y)'
  <2>1. StepOK(a, y) /\ y \in Steps
    BY <1>2 DEF ToSet
  <2>2. Owns(a, y.node)' = Owns(a, y.node)
    BY <1>3 DEF Owns
  <2>3. y.op = "inc" => Kept(a, y.node)' \/ y.node \in Newborn'
    <3>1. y.op = "inc" => y.node \in Nodes
      BY <2>1 DEF Steps
    <3>. QED
      BY <1>23, <1>24, <2>1, <3>1 DEF StepOK
  <2>4. y.op = "put" => y.at \in DOMAIN fields'[y.node]
    <3>1. y.op = "put" => y.node \in Nodes
      BY <2>1 DEF Steps
    <3>. QED
      BY <1>9, <1>11, <2>1, <3>1 DEF StepOK
  <2>. QED
    BY <1>3, <1>23, <2>1, <2>2, <2>3, <2>4 DEF StepOK
<1>26. ASSUME NEW b \in Actors
       PROVE  Well(todo'[b], Newborn') /\ \A y \in ToSet(todo'[b]) : StepOK(b, y)'
  <2>1. CASE b # a
    <3>1. Well(todo[b], Newborn') /\ \A y \in ToSet(todo[b]) : StepOK(b, y)'
      BY <1>3, <2>1, OthersFine DEF IInv
    <3>. QED
      BY <1>12, <2>1, <3>1
  <2>2. CASE b = a
    BY <1>2, <1>12, <1>23, <1>25, <2>2
  <2>. QED
    BY <2>1, <2>2
<1>27. Control'
  <2>1. mutex # None => Has(mutex, "unlock")'
    BY <1>3, <1>13 DEF IInv, Control
  <2>2. job # None => mutex # None /\ Has(mutex, "wait")' /\ ~Has(mutex, "start")'
    BY <1>3, <1>13 DEF IInv, Control
  <2>3. todo'[Worker] # <<>> => job' = <<>>
    <3>1. a # Worker
      BY <1>3, HandleRefsAssumption DEF IInv, Types, Actors
    <3>. QED
      BY <1>3, <1>12, <3>1 DEF IInv, Control, Actors
  <2>. QED
    BY <1>3, <1>26, <2>1, <2>2, <2>3 DEF Control, Has
<1>. QED
  BY <1>19, <1>20, <1>21, <1>22, <1>27 DEF IInv

(***************************************************************************)
(* The references of the application.                                      *)
(***************************************************************************)
LEMMA OwnedMore ==
  ASSUME Types, NEW u \in Threads, NEW h \in Handles, owns[u][h] < MaxOwned,
         owns' = [owns EXCEPT ![u][h] = owns[u][h] + 1]
  PROVE  /\ Owned(h)' = Owned(h) \cup {<<u, owns[u][h] + 1>>}
         /\ <<u, owns[u][h] + 1>> \notin Owned(h)
         /\ \A n \in Nodes \ {h} : Owned(n)' = Owned(n)
         /\ owns' \in [Threads -> [Handles -> 0 .. MaxOwned]]
         /\ \A t \in Threads, g \in Handles : owns'[t][g] >= owns[t][g]
<1>1. owns[u][h] \in 0 .. MaxOwned /\ owns[u][h] \in Nat /\ MaxOwned \in Nat
  BY HandleRefsAssumption DEF Types
<1>2. \A t \in Threads, g \in Handles :
        owns'[t][g] = IF t = u /\ g = h THEN owns[u][h] + 1 ELSE owns[t][g]
  BY DEF Types
<1>3. \A p \in Threads \X (1 .. MaxOwned) :
        p[1] \in Threads /\ p[2] \in Nat /\ p[2] >= 1 /\ p = <<p[1], p[2]>> /\ owns[p[1]][h] \in Nat
  BY DEF Types
<1>4. <<u, owns[u][h] + 1>> \in Threads \X (1 .. MaxOwned)
  BY <1>1
<1>5. \A p \in Threads \X (1 .. MaxOwned) :
        p \in Owned(h)' <=> p \in Owned(h) \/ p = <<u, owns[u][h] + 1>>
  <2>1. ASSUME NEW p \in Threads \X (1 .. MaxOwned)
        PROVE  p \in Owned(h)' <=> p \in Owned(h) \/ p = <<u, owns[u][h] + 1>>
    <3>1. (p \in Owned(h)' <=> p[2] <= owns'[p[1]][h]) /\ (p \in Owned(h) <=> p[2] <= owns[p[1]][h])
      BY DEF Owned
    <3>2. p[1] \in Threads /\ p[2] \in Nat /\ p = <<p[1], p[2]>>
      BY <1>3
    <3>3. CASE p[1] = u
      <4>1. owns'[p[1]][h] = owns[u][h] + 1
        BY <1>2, <3>3
      <4>2. p[2] <= owns[u][h] + 1 <=> p[2] <= owns[u][h] \/ p[2] = owns[u][h] + 1
        BY <1>1, <3>2
      <4>. QED
        BY <3>1, <3>2, <3>3, <4>1, <4>2
    <3>4. CASE p[1] # u
      <4>1. owns'[p[1]][h] = owns[p[1]][h] /\ p # <<u, owns[u][h] + 1>>
        BY <1>2, <3>2, <3>4
      <4>. QED
        BY <3>1, <4>1
    <3>. QED
      BY <3>3, <3>4
  <2>. QED
    BY <2>1
<1>6. <<u, owns[u][h] + 1>> \notin Owned(h)
  BY <1>1 DEF Owned
<1>7. Owned(h) \subseteq Threads \X (1 .. MaxOwned) /\ Owned(h)' \subseteq Threads \X (1 .. MaxOwned)
  BY DEF Owned
<1>8. ASSUME NEW n \in Nodes \ {h} PROVE Owned(n)' = Owned(n)
  <2>1. \A p \in Threads \X (1 .. MaxOwned) : n \in Handles => owns'[p[1]][n] = owns[p[1]][n]
    BY <1>2, <1>3
  <2>. QED
    BY <2>1 DEF Owned
<1>9. owns' \in [Threads -> [Handles -> 0 .. MaxOwned]]
  BY <1>1 DEF Types
<1>10. \A t \in Threads, g \in Handles : owns'[t][g] >= owns[t][g]
  BY <1>1, <1>2 DEF Types
<1>. QED
  BY <1>4, <1>5, <1>6, <1>7, <1>8, <1>9, <1>10

LEMMA OwnedLess ==
  ASSUME Types, NEW u \in Threads, NEW h \in Handles, owns[u][h] > 0,
         owns' = [owns EXCEPT ![u][h] = owns[u][h] - 1]
  PROVE  /\ Owned(h)' = Owned(h) \ {<<u, owns[u][h]>>} /\ <<u, owns[u][h]>> \in Owned(h)
         /\ \A n \in Nodes \ {h} : Owned(n)' = Owned(n)
         /\ owns' \in [Threads -> [Handles -> 0 .. MaxOwned]]
         /\ \A t \in Threads \ {u} : owns'[t] = owns[t]
<1>1. owns[u][h] \in 1 .. MaxOwned /\ owns[u][h] \in Nat /\ MaxOwned \in Nat
  BY HandleRefsAssumption DEF Types
<1>2. \A t \in Threads, g \in Handles :
        owns'[t][g] = IF t = u /\ g = h THEN owns[u][h] - 1 ELSE owns[t][g]
  BY DEF Types
<1>3. \A p \in Threads \X (1 .. MaxOwned) :
        p[1] \in Threads /\ p[2] \in Nat /\ p[2] >= 1 /\ p = <<p[1], p[2]>> /\ owns[p[1]][h] \in Nat
  BY DEF Types
<1>4. \A p \in Threads \X (1 .. MaxOwned) :
        p \in Owned(h)' <=> p \in Owned(h) /\ p # <<u, owns[u][h]>>
  <2>1. ASSUME NEW p \in Threads \X (1 .. MaxOwned)
        PROVE  p \in Owned(h)' <=> p \in Owned(h) /\ p # <<u, owns[u][h]>>
    <3>1. (p \in Owned(h)' <=> p[2] <= owns'[p[1]][h]) /\ (p \in Owned(h) <=> p[2] <= owns[p[1]][h])
      BY DEF Owned
    <3>2. p[1] \in Threads /\ p[2] \in Nat /\ p = <<p[1], p[2]>>
      BY <1>3
    <3>3. CASE p[1] = u
      <4>1. owns'[p[1]][h] = owns[u][h] - 1
        BY <1>2, <3>3
      <4>2. p[2] <= owns[u][h] - 1 <=> p[2] <= owns[u][h] /\ p[2] # owns[u][h]
        BY <1>1, <3>2
      <4>. QED
        BY <3>1, <3>2, <3>3, <4>1, <4>2
    <3>4. CASE p[1] # u
      <4>1. owns'[p[1]][h] = owns[p[1]][h] /\ p # <<u, owns[u][h]>>
        BY <1>2, <3>2, <3>4
      <4>. QED
        BY <3>1, <4>1
    <3>. QED
      BY <3>3, <3>4
  <2>. QED
    BY <2>1
<1>5. <<u, owns[u][h]>> \in Owned(h)
  BY <1>1 DEF Owned
<1>6. Owned(h) \subseteq Threads \X (1 .. MaxOwned) /\ Owned(h)' \subseteq Threads \X (1 .. MaxOwned)
  BY DEF Owned
<1>7. ASSUME NEW n \in Nodes \ {h} PROVE Owned(n)' = Owned(n)
  <2>1. \A p \in Threads \X (1 .. MaxOwned) : n \in Handles => owns'[p[1]][n] = owns[p[1]][n]
    BY <1>2, <1>3
  <2>. QED
    BY <2>1 DEF Owned
<1>8. owns' \in [Threads -> [Handles -> 0 .. MaxOwned]]
  BY <1>1 DEF Types
<1>9. \A t \in Threads \ {u} : owns'[t] = owns[t]
  BY DEF Types
<1>. QED
  BY <1>4, <1>5, <1>6, <1>7, <1>8, <1>9

LEMMA MarkedSame ==
  ASSUME UNCHANGED todo
  PROVE  /\ \A T : Marked(T)' = Marked(T)
         /\ \A m, k : Under(m, k)' = Under(m, k)
         /\ \A b, op : Has(b, op)' = Has(b, op)
BY DEF Marked, Under, Has

\* A reference more, counted: rtIncRef.
LEMMA IncRefKeeps ==
  ASSUME IInv, NEW t \in Threads, NEW u \in Threads, NEW h \in Handles, IncRef(t, u, h)
  PROVE  IInv'
<1>1. /\ owns[t][h] > 0 /\ owns[u][h] < MaxOwned
      /\ owns' = [owns EXCEPT ![u][h] = owns[u][h] + 1]
      /\ count' = [count EXCEPT ![h] = @ + 1] /\ UNCHANGED <<fields, mutex, job, todo>>
  BY DEF IncRef
<1>2. h \in Nodes /\ t \in Actors /\ h \notin Objects
  BY DistinctNodes DEF Nodes, Actors, Handles
<1>3. Exists(h) /\ count[h] >= 1
  <2>1. Kept(t, h)
    BY <1>1 DEF Kept, Owns
  <2>. QED
    BY <1>2, <2>1, KeptExists DEF IInv
<1>4. /\ Owned(h)' = Owned(h) \cup {<<u, owns[u][h] + 1>>}
      /\ <<u, owns[u][h] + 1>> \notin Owned(h)
      /\ \A n \in Nodes \ {h} : Owned(n)' = Owned(n)
      /\ owns' \in [Threads -> [Handles -> 0 .. MaxOwned]]
      /\ \A b \in Threads, g \in Handles : owns'[b][g] >= owns[b][g]
  BY <1>1, OwnedMore DEF IInv
<1>5. /\ \A T : Marked(T)' = Marked(T)
      /\ \A m, k : Under(m, k)' = Under(m, k)
      /\ \A b, op : Has(b, op)' = Has(b, op)
  BY <1>1, MarkedSame
<1>6. \A n : Placed(n)' = Placed(n)
  <2>1. \A n : Refs(n)' = Refs(n)
    BY <1>1 DEF Refs, Exists
  <2>. QED
    BY <1>5, <2>1 DEF Placed
<1>7. Types'
  <2>1. count' \in [Nodes -> Nat]
    BY <1>1, <1>2 DEF IInv, Types
  <2>. QED
    BY <1>1, <1>4, <2>1 DEF IInv, Types, Exists
<1>8. ASSUME NEW n \in Nodes PROVE Exact(n)'
  <2>1. /\ count[n] + Cardinality(Marked(Incs(n))) = Held(n) + Cardinality(Marked(Releases(n)))
        /\ IsFiniteSet(Owned(n)) /\ IsFiniteSet(Placed(n)) /\ count[n] \in Nat /\ Held(n) \in Nat
        /\ IsFiniteSet(Marked(Incs(n))) /\ IsFiniteSet(Marked(Releases(n)))
    BY HeldType DEF IInv, Exact, Types
  <2>2. PICK d : d = (IF n = h THEN 1 ELSE 0)
    OBVIOUS
  <2>3. d \in {0, 1} /\ count'[n] = count[n] + d
    BY <1>1, <2>2 DEF IInv, Types
  <2>4. /\ IsFiniteSet(Owned(n)') /\ Cardinality(Owned(n)') = Cardinality(Owned(n)) + d
        /\ Cardinality(Placed(n)) \in Nat /\ Cardinality(Owned(n)) \in Nat
    <3>1. Cardinality(Placed(n)) \in Nat /\ Cardinality(Owned(n)) \in Nat
      BY <2>1, FS_CardinalityType
    <3>2. CASE n = h
      <4>1. /\ IsFiniteSet(Owned(n) \cup {<<u, owns[u][h] + 1>>})
            /\ Cardinality(Owned(n) \cup {<<u, owns[u][h] + 1>>}) = Cardinality(Owned(n)) + 1
        BY <1>4, <2>1, <3>2, FS_AddElement
      <4>. QED
        BY <1>4, <2>2, <3>1, <3>2, <4>1
    <3>3. CASE n # h
      <4>1. Owned(n)' = Owned(n)
        BY <1>4, <3>3
      <4>. QED
        BY <2>1, <2>2, <3>1, <3>3, <4>1
    <3>. QED
      BY <3>2, <3>3
  <2>5. Held(n)' = Held(n) + d
    <3>1. PICK s, j : s = (IF n = Scene THEN 1 ELSE 0) /\ j = (IF job = <<n>> THEN 1 ELSE 0)
      OBVIOUS
    <3>2. s \in Nat /\ j \in Nat
      BY <3>1
    <3>3. Held(n) = s + Cardinality(Owned(n)) + Cardinality(Placed(n)) + j
      BY <3>1 DEF Held
    <3>4. Held(n)' = s + Cardinality(Owned(n)') + Cardinality(Placed(n)) + j
      BY <1>1, <1>6, <3>1 DEF Held
    <3>. QED
      BY <2>3, <2>4, <3>2, <3>3, <3>4
  <2>6. count'[n] + Cardinality(Marked(Incs(n))) = Held(n)' + Cardinality(Marked(Releases(n)))
    <3>1. Cardinality(Marked(Incs(n))) \in Nat /\ Cardinality(Marked(Releases(n))) \in Nat
      BY <2>1, FS_CardinalityType
    <3>. QED
      BY <2>1, <2>3, <2>5, <3>1
  <2>. QED
    BY <1>5, <1>6, <2>1, <2>4, <2>6 DEF Exact
<1>9. Alive'
  BY <1>1, <1>2, <1>3, <1>5 DEF Alive, IInv, Types, Exists
<1>10. PrimitivesHaveShapes'
  BY <1>1, <1>5 DEF IInv, PrimitivesHaveShapes, Exists
<1>11. Newborn' = Newborn
  BY <1>1, <1>2 DEF Newborn, Exists, IInv, Types, Nodes
<1>12. \A b, n : Owns(b, n) => Owns(b, n)'
  <2>1. \A b \in Threads, g \in Handles : owns[b][g] > 0 => owns'[b][g] > 0
    BY <1>4 DEF IInv, Types
  <2>. QED
    BY <2>1 DEF Owns
<1>13. \A b, n : Kept(b, n) => Kept(b, n)'
  BY <1>6, <1>12 DEF Kept
<1>14. \A b, y : StepOK(b, y) => StepOK(b, y)'
  BY <1>1, <1>11, <1>12, <1>13 DEF StepOK
<1>15. Control'
  BY <1>1, <1>5, <1>11, <1>14 DEF IInv, Control
<1>. QED
  BY <1>7, <1>8, <1>9, <1>10, <1>15 DEF IInv
\* Without a call there is nothing to do, without the mutex no job.
LEMMA IdleThread ==
  ASSUME Types, Control, NEW t \in Actors, Idle(t)
  PROVE  /\ t # mutex /\ (mutex = None => job = None)
         /\ todo[t] = <<>> /\ todo[t] \in Seq(Steps)
         /\ \A b \in Actors : b # t => b # mutex \/ mutex # None
<1>1. ~Has(t, "unlock")
  BY DEF Idle, Has, ToSet
<1>2. mutex = t => mutex # None
  BY HandleRefsAssumption DEF Actors
<1>. QED
  BY <1>1, <1>2, HandleRefsAssumption DEF Control, Idle, Types, Actors

\* A reference given back becomes a step of the thread: rtDecRef.
LEMMA DecRefKeeps ==
  ASSUME IInv, NEW t \in Threads, NEW h \in Handles, DecRef(t, h)
  PROVE  IInv'
<1>1. /\ owns[t][h] > 0 /\ Idle(t)
      /\ owns' = [owns EXCEPT ![t][h] = owns[t][h] - 1]
      /\ todo' = [todo EXCEPT ![t] = Dec(h)] /\ UNCHANGED <<count, fields, mutex, job>>
  BY DEF DecRef
<1>2. h \in Nodes /\ t \in Actors /\ h # Scene /\ t # Worker
  BY DistinctNodes, HandleRefsAssumption DEF Nodes, Actors, Handles
<1>3. t # mutex /\ todo[t] = <<>>
  BY <1>1, <1>2, IdleThread DEF IInv
<1>4. /\ Owned(h)' = Owned(h) \ {<<t, owns[t][h]>>} /\ <<t, owns[t][h]>> \in Owned(h)
      /\ \A n \in Nodes \ {h} : Owned(n)' = Owned(n)
      /\ owns' \in [Threads -> [Handles -> 0 .. MaxOwned]]
      /\ \A b \in Threads \ {t} : owns'[b] = owns[b]
  BY <1>1, OwnedLess DEF IInv
<1>5. PICK s : s = Dec(h)
  OBVIOUS
<1>6. /\ s \in Seq(Steps) /\ ToSet(s) = Drops(h)
      /\ \A n \in Nodes : Number(s, Incs(n)) = 0
      /\ \A n \in Nodes : Number(s, Releases(n)) = (IF n = h THEN 1 ELSE 0)
      /\ \A N : Well(s, N)
  <2>1. s = Dec(h) \o <<>> /\ <<>> \in Seq(Steps)
    BY <1>2, <1>5, PieceTypes, ConcatEmptySeq
  <2>2. ToSet(<<>>) = {} /\ \A N : Well(<<>>, N)
    <3>1. \A k \in 0 .. Len(<<>>) : After(<<>>, k) = <<>>
      BY DEF After
    <3>2. Covered(<<>>)
      BY NumberEmpty DEF Covered
    <3>. QED
      BY <3>1, <3>2 DEF Well, ToSet
  <2>3. /\ s \in Seq(Steps) /\ ToSet(s) = ToSet(<<>>) \cup Drops(h)
        /\ \A n \in Nodes : Number(s, Incs(n)) = Number(<<>>, Incs(n))
        /\ \A n \in Nodes : Number(s, Releases(n)) = Number(<<>>, Releases(n)) + (IF n = h THEN 1 ELSE 0)
        /\ \A N : Well(<<>>, N) => Well(s, N)
    BY <1>2, <2>1, AddDec
  <2>. QED
    BY <2>2, <2>3, NumberEmpty
<1>7. /\ todo' = [todo EXCEPT ![t] = s] /\ todo' \in [Actors -> Seq(Steps)]
      /\ \A b \in Actors : todo'[b] = IF b = t THEN s ELSE todo[b]
  BY <1>1, <1>5, <1>6 DEF IInv, Types
<1>8. /\ \A b \in Actors : \A y \in ToSet(todo'[b]) : y \in ToSet(todo[b]) \/ (b = t /\ y.op = "dec")
      /\ \A b \in Actors : ToSet(todo[b]) \subseteq ToSet(todo'[b])
  <2>1. ToSet(todo[t]) = {}
    BY <1>3 DEF ToSet
  <2>. QED
    BY <1>6, <1>7, <2>1 DEF Drops
<1>9. /\ \A m, k : Under(m, k)' = Under(m, k)
      /\ \A b \in Actors : \A op : op # "dec" => Has(b, op)' = Has(b, op)
  <2>1. \A m, k : Under(m, k)' => Under(m, k)
    BY <1>8 DEF Under
  <2>2. \A m, k : Under(m, k) => Under(m, k)'
    BY <1>8 DEF Under
  <2>3. \A b \in Actors : \A op : op # "dec" => (Has(b, op)' => Has(b, op))
    BY <1>8 DEF Has
  <2>4. \A b \in Actors : \A op : Has(b, op) => Has(b, op)'
    BY <1>8 DEF Has
  <2>. QED
    BY <2>1, <2>2, <2>3, <2>4 DEF Under, Has
<1>10. \A n : Placed(n)' = Placed(n)
  <2>1. \A n : Refs(n)' = Refs(n)
    BY <1>1 DEF Refs, Exists
  <2>. QED
    BY <1>9, <2>1 DEF Placed
<1>11. Types'
  BY <1>1, <1>4, <1>7 DEF IInv, Types, Exists
<1>12. ASSUME NEW n \in Nodes
       PROVE  /\ IsFiniteSet(Marked(Incs(n))') /\ IsFiniteSet(Marked(Releases(n))')
              /\ Cardinality(Marked(Incs(n))') = Cardinality(Marked(Incs(n)))
              /\ Cardinality(Marked(Releases(n))') = Cardinality(Marked(Releases(n))) + (IF n = h THEN 1 ELSE 0)
              /\ Cardinality(Marked(Incs(n))) \in Nat /\ Cardinality(Marked(Releases(n))) \in Nat
  <2>1. /\ IsFiniteSet(Marked(Incs(n))) /\ IsFiniteSet(Marked(Releases(n))) /\ todo \in [Actors -> Seq(Steps)]
    BY DEF IInv, Exact, Types
  <2>2. \A T : Number(todo[t], T) = 0
    BY <1>3, NumberEmpty
  <2>3. /\ IsFiniteSet(Marked(Incs(n))') /\ Cardinality(Marked(Incs(n))') \in Nat /\ Cardinality(Marked(Incs(n))) \in Nat
        /\ Cardinality(Marked(Incs(n))') + Number(todo[t], Incs(n)) = Cardinality(Marked(Incs(n))) + Number(s, Incs(n))
    BY <1>2, <1>6, <1>7, <2>1, ActorChange
  <2>4. /\ IsFiniteSet(Marked(Releases(n))') /\ Cardinality(Marked(Releases(n))') \in Nat /\ Cardinality(Marked(Releases(n))) \in Nat
        /\ Cardinality(Marked(Releases(n))') + Number(todo[t], Releases(n))
             = Cardinality(Marked(Releases(n))) + Number(s, Releases(n))
    BY <1>2, <1>6, <1>7, <2>1, ActorChange
  <2>5. /\ Number(todo[t], Incs(n)) = 0 /\ Number(todo[t], Releases(n)) = 0
        /\ Number(s, Incs(n)) = 0 /\ Number(s, Releases(n)) = (IF n = h THEN 1 ELSE 0)
    BY <1>6, <2>2
  <2>. QED
    BY <2>3, <2>4, <2>5
<1>13. ASSUME NEW n \in Nodes PROVE Exact(n)'
  <2>1. /\ count[n] + Cardinality(Marked(Incs(n))) = Held(n) + Cardinality(Marked(Releases(n)))
        /\ IsFiniteSet(Owned(n)) /\ IsFiniteSet(Placed(n)) /\ count[n] \in Nat /\ Held(n) \in Nat
    BY HeldType DEF IInv, Exact, Types
  <2>2. PICK d : d = (IF n = h THEN 1 ELSE 0)
    OBVIOUS
  <2>3. d \in {0, 1} /\ Cardinality(Marked(Releases(n))') = Cardinality(Marked(Releases(n))) + d
    BY <1>12, <2>2
  <2>4. /\ IsFiniteSet(Owned(n)') /\ Cardinality(Owned(n)') = Cardinality(Owned(n)) - d
        /\ Cardinality(Placed(n)) \in Nat /\ Cardinality(Owned(n)) \in Nat
    <3>1. Cardinality(Placed(n)) \in Nat /\ Cardinality(Owned(n)) \in Nat
      BY <2>1, FS_CardinalityType
    <3>2. CASE n = h
      <4>1. /\ IsFiniteSet(Owned(n) \ {<<t, owns[t][h]>>})
            /\ Cardinality(Owned(n) \ {<<t, owns[t][h]>>}) = Cardinality(Owned(n)) - 1
        BY <1>4, <2>1, <3>2, FS_RemoveElement
      <4>. QED
        BY <1>4, <2>2, <3>1, <3>2, <4>1
    <3>3. CASE n # h
      <4>1. Owned(n)' = Owned(n)
        BY <1>4, <3>3
      <4>. QED
        BY <2>1, <2>2, <3>1, <3>3, <4>1
    <3>. QED
      BY <3>2, <3>3
  <2>5. Held(n)' = Held(n) - d
    <3>1. PICK u, j : u = (IF n = Scene THEN 1 ELSE 0) /\ j = (IF job = <<n>> THEN 1 ELSE 0)
      OBVIOUS
    <3>2. u \in Nat /\ j \in Nat
      BY <3>1
    <3>3. Held(n) = u + Cardinality(Owned(n)) + Cardinality(Placed(n)) + j
      BY <3>1 DEF Held
    <3>4. Held(n)' = u + Cardinality(Owned(n)') + Cardinality(Placed(n)) + j
      BY <1>1, <1>10, <3>1 DEF Held
    <3>. QED
      BY <2>3, <2>4, <3>2, <3>3, <3>4
  <2>6. count'[n] + Cardinality(Marked(Incs(n))') = Held(n)' + Cardinality(Marked(Releases(n))')
    BY <1>1, <1>12, <2>1, <2>3, <2>5
  <2>. QED
    BY <1>10, <1>12, <2>1, <2>4, <2>6 DEF Exact
<1>14. Alive'
  BY <1>1, <1>12 DEF Alive, IInv, Exists
<1>15. PrimitivesHaveShapes'
  BY <1>1, <1>9 DEF IInv, PrimitivesHaveShapes, Exists
<1>16. Newborn' = Newborn
  BY <1>1 DEF Newborn, Exists
<1>17. ASSUME NEW b \in Actors \ {t}, NEW y, StepOK(b, y) PROVE StepOK(b, y)'
  <2>1. \A n : Owns(b, n)' = Owns(b, n)
    BY <1>4 DEF Owns
  <2>2. \A n : Kept(b, n)' = Kept(b, n)
    BY <1>10, <2>1 DEF Kept
  <2>. QED
    BY <1>1, <1>16, <1>17, <2>1, <2>2 DEF StepOK
<1>18. ASSUME NEW b \in Actors
       PROVE  Well(todo'[b], Newborn') /\ \A y \in ToSet(todo'[b]) : StepOK(b, y)'
  <2>1. CASE b = t
    <3>1. \A y \in ToSet(s) : y.op = "dec"
      BY <1>6 DEF Drops
    <3>2. \A y : y.op = "dec" => StepOK(b, y)'
      BY DEF StepOK
    <3>. QED
      BY <1>6, <1>7, <2>1, <3>1, <3>2
  <2>2. CASE b # t
    BY <1>7, <1>16, <1>17, <2>2 DEF IInv, Control
  <2>. QED
    BY <2>1, <2>2
<1>19. Control'
  <2>1. mutex # None => Has(mutex, "unlock")'
    BY <1>1, <1>9 DEF IInv, Control, Types, Actors
  <2>2. job # None => mutex # None /\ Has(mutex, "wait")' /\ ~Has(mutex, "start")'
    BY <1>1, <1>9 DEF IInv, Control, Types, Actors
  <2>3. todo'[Worker] # <<>> => job' = <<>>
    BY <1>1, <1>2, <1>7 DEF IInv, Control, Actors
  <2>. QED
    BY <1>1, <1>18, <2>1, <2>2, <2>3 DEF Control, Has
<1>. QED
  BY <1>11, <1>13, <1>14, <1>15, <1>19 DEF IInv
\* The job is deleted: the reference it holds is the worker's to release.
LEMMA FinishJobKeeps ==
  ASSUME IInv, FinishJob
  PROVE  IInv'
<1>1. /\ job # None /\ Idle(Worker) /\ job' = <<>>
      /\ todo' = [todo EXCEPT ![Worker] = Decs(job) \o <<[op |-> "gone"]>>]
      /\ UNCHANGED <<count, fields, owns, mutex>>
  BY DEF FinishJob
<1>2. Worker \in Actors /\ todo[Worker] = <<>> /\ mutex # Worker /\ mutex \in Actors
  BY <1>1, HandleRefsAssumption DEF Actors, Idle, IInv, Control, Types
<1>3. PICK c \in Objects \cup {None} :
        (job = <<>> /\ c = None) \/ (c \in Objects /\ job = <<c>>)
  BY <1>1 DEF IInv, Types
<1>4. Decs(job) = Dec(c)
  <2>1. CASE c = None /\ job = <<>>
    BY <2>1, DecsOf DEF Dec
  <2>2. CASE c \in Objects /\ job = <<c>>
    <3>1. job \in Seq(Nodes \cup {None}) /\ Len(job) = 1 /\ job[1] = c
      BY <2>2, DistinctNodes
    <3>. QED
      BY <3>1, DecsOf
  <2>. QED
    BY <1>3, <2>1, <2>2
<1>5. \A n \in Nodes : (job = <<n>>) <=> n = c
  BY <1>3, NoneIsNoNode
<1>6. PICK s : s = Decs(job) \o <<[op |-> "gone"]>>
  OBVIOUS
<1>7. /\ s \in Seq(Steps) /\ ToSet(s) = {[op |-> "gone"]} \cup Drops(c)
      /\ \A n \in Nodes : Number(s, Incs(n)) = 0
      /\ \A n \in Nodes : Number(s, Releases(n)) = (IF n = c THEN 1 ELSE 0)
      /\ \A N : Well(s, N)
  <2>1. PICK g : g = <<[op |-> "gone"]>>
    OBVIOUS
  <2>2. /\ g \in Seq(Steps) /\ ToSet(g) = {[op |-> "gone"]}
        /\ \A n \in Nodes : Number(g, Incs(n)) = 0 /\ Number(g, Releases(n)) = 0
        /\ \A N : Well(g, N)
    BY <2>1, StepTypes, Endings
  <2>3. s = Dec(c) \o g /\ c \in Nodes \cup {None}
    BY <1>3, <1>4, <1>6, <2>1, DistinctNodes
  <2>4. /\ s \in Seq(Steps) /\ ToSet(s) = ToSet(g) \cup Drops(c)
        /\ \A n \in Nodes : Number(s, Incs(n)) = Number(g, Incs(n))
        /\ \A n \in Nodes : Number(s, Releases(n)) = Number(g, Releases(n)) + (IF n = c THEN 1 ELSE 0)
        /\ \A N : Well(g, N) => Well(s, N)
    BY <2>2, <2>3, AddDec
  <2>5. \A n \in Nodes : 0 + (IF n = c THEN 1 ELSE 0) = (IF n = c THEN 1 ELSE 0)
    OBVIOUS
  <2>. QED
    BY <2>2, <2>4, <2>5
<1>8. /\ todo' = [todo EXCEPT ![Worker] = s] /\ todo' \in [Actors -> Seq(Steps)]
      /\ \A b \in Actors : todo'[b] = IF b = Worker THEN s ELSE todo[b]
  BY <1>1, <1>2, <1>6, <1>7 DEF IInv, Types
<1>9. /\ \A b \in Actors : \A y \in ToSet(todo'[b]) :
           y \in ToSet(todo[b]) \/ (b = Worker /\ y.op \in {"dec", "gone"})
      /\ \A b \in Actors : ToSet(todo[b]) \subseteq ToSet(todo'[b])
  <2>1. ToSet(todo[Worker]) = {}
    BY <1>2 DEF ToSet
  <2>. QED
    BY <1>7, <1>8, <2>1 DEF Drops
<1>10. /\ \A m, k : Under(m, k)' = Under(m, k)
       /\ \A b \in Actors : \A op : op \notin {"dec", "gone"} => Has(b, op)' = Has(b, op)
  <2>1. \A m, k : Under(m, k)' => Under(m, k)
    BY <1>9 DEF Under
  <2>2. \A m, k : Under(m, k) => Under(m, k)'
    BY <1>9 DEF Under
  <2>3. \A b \in Actors : \A op : op \notin {"dec", "gone"} => (Has(b, op)' => Has(b, op))
    BY <1>9 DEF Has
  <2>4. \A b \in Actors : \A op : Has(b, op) => Has(b, op)'
    BY <1>9 DEF Has
  <2>. QED
    BY <2>1, <2>2, <2>3, <2>4 DEF Under, Has
<1>11. /\ \A n : Owned(n)' = Owned(n) /\ Placed(n)' = Placed(n)
       /\ Newborn' = Newborn
       /\ \A b, y : StepOK(b, y)' = StepOK(b, y)
  BY <1>1, <1>10, StepsSame
<1>12. Types'
  BY <1>1, <1>8 DEF IInv, Types, Exists
<1>13. ASSUME NEW n \in Nodes
       PROVE  /\ IsFiniteSet(Marked(Incs(n))') /\ IsFiniteSet(Marked(Releases(n))')
              /\ Cardinality(Marked(Incs(n))') = Cardinality(Marked(Incs(n)))
              /\ Cardinality(Marked(Releases(n))') = Cardinality(Marked(Releases(n))) + (IF n = c THEN 1 ELSE 0)
              /\ Cardinality(Marked(Incs(n))) \in Nat /\ Cardinality(Marked(Releases(n))) \in Nat
  <2>1. /\ IsFiniteSet(Marked(Incs(n))) /\ IsFiniteSet(Marked(Releases(n))) /\ todo \in [Actors -> Seq(Steps)]
    BY DEF IInv, Exact, Types
  <2>2. \A T : Number(todo[Worker], T) = 0
    BY <1>2, NumberEmpty
  <2>3. /\ IsFiniteSet(Marked(Incs(n))') /\ Cardinality(Marked(Incs(n))') \in Nat /\ Cardinality(Marked(Incs(n))) \in Nat
        /\ Cardinality(Marked(Incs(n))') + Number(todo[Worker], Incs(n)) = Cardinality(Marked(Incs(n))) + Number(s, Incs(n))
    BY <1>2, <1>7, <1>8, <2>1, ActorChange
  <2>4. /\ IsFiniteSet(Marked(Releases(n))') /\ Cardinality(Marked(Releases(n))') \in Nat /\ Cardinality(Marked(Releases(n))) \in Nat
        /\ Cardinality(Marked(Releases(n))') + Number(todo[Worker], Releases(n))
             = Cardinality(Marked(Releases(n))) + Number(s, Releases(n))
    BY <1>2, <1>7, <1>8, <2>1, ActorChange
  <2>5. /\ Number(todo[Worker], Incs(n)) = 0 /\ Number(todo[Worker], Releases(n)) = 0
        /\ Number(s, Incs(n)) = 0 /\ Number(s, Releases(n)) = (IF n = c THEN 1 ELSE 0)
    BY <1>7, <2>2
  <2>. QED
    BY <2>3, <2>4, <2>5
<1>14. ASSUME NEW n \in Nodes PROVE Exact(n)'
  <2>1. /\ count[n] + Cardinality(Marked(Incs(n))) = Held(n) + Cardinality(Marked(Releases(n)))
        /\ IsFiniteSet(Owned(n)) /\ IsFiniteSet(Placed(n)) /\ count[n] \in Nat /\ Held(n) \in Nat
    BY HeldType DEF IInv, Exact, Types
  <2>2. PICK d : d = (IF n = c THEN 1 ELSE 0)
    OBVIOUS
  <2>3. d \in {0, 1} /\ Cardinality(Marked(Releases(n))') = Cardinality(Marked(Releases(n))) + d
    BY <1>13, <2>2
  <2>4. Cardinality(Placed(n)) \in Nat /\ Cardinality(Owned(n)) \in Nat
    BY <2>1, FS_CardinalityType
  <2>5. Held(n)' = Held(n) - d
    <3>1. PICK u : u = (IF n = Scene THEN 1 ELSE 0)
      OBVIOUS
    <3>2. u \in Nat
      BY <3>1
    <3>3. Held(n) = u + Cardinality(Owned(n)) + Cardinality(Placed(n)) + d
      BY <1>5, <2>2, <3>1 DEF Held
    <3>4. <<>> # <<n>>
      OBVIOUS
    <3>5. Held(n)' = u + Cardinality(Owned(n)) + Cardinality(Placed(n)) + 0
      BY <1>1, <1>11, <3>1, <3>4 DEF Held
    <3>. QED
      BY <2>3, <2>4, <3>2, <3>3, <3>5
  <2>6. count'[n] + Cardinality(Marked(Incs(n))') = Held(n)' + Cardinality(Marked(Releases(n))')
    BY <1>1, <1>13, <2>1, <2>3, <2>5
  <2>. QED
    BY <1>11, <1>13, <2>1, <2>6 DEF Exact
<1>15. Alive'
  BY <1>1, <1>13 DEF Alive, IInv, Exists
<1>16. PrimitivesHaveShapes'
  BY <1>1, <1>10 DEF IInv, PrimitivesHaveShapes, Exists
<1>17. ASSUME NEW b \in Actors
       PROVE  Well(todo'[b], Newborn') /\ \A y \in ToSet(todo'[b]) : StepOK(b, y)'
  <2>1. CASE b = Worker
    <3>1. \A y \in ToSet(s) : y.op \in {"dec", "gone"}
      BY <1>7 DEF Drops
    <3>2. \A y : y.op \in {"dec", "gone"} => StepOK(b, y)'
      BY <2>1 DEF StepOK
    <3>. QED
      BY <1>7, <1>8, <2>1, <3>1, <3>2
  <2>2. CASE b # Worker
    BY <1>8, <1>11, <2>2 DEF IInv, Control
  <2>. QED
    BY <2>1, <2>2
<1>18. Control'
  <2>1. mutex # None => Has(mutex, "unlock")'
    BY <1>1, <1>2, <1>10 DEF IInv, Control
  <2>2. mutex # None /\ Has(mutex, "wait")' /\ ~Has(mutex, "start")'
    BY <1>1, <1>2, <1>10 DEF IInv, Control
  <2>. QED
    BY <1>1, <1>17, <2>1, <2>2 DEF Control, Has
<1>. QED
  BY <1>12, <1>14, <1>15, <1>16, <1>18 DEF IInv

(***************************************************************************)
(* A call with the mutex: nobody else is inside one.                       *)
(***************************************************************************)
LEMMA Unlocked ==
  ASSUME IInv, mutex = None
  PROVE  /\ job = None /\ todo[Worker] = <<>>
         /\ \A b \in Actors : \A y \in ToSet(todo[b]) : y.op \notin {"inc", "put"}
         /\ \A m, k : ~Under(m, k)
         /\ \A n \in Nodes : Marked(Incs(n)) = {} /\ Placed(n) = Refs(n)
         /\ Newborn = {}
<1>1. job = None
  BY DEF IInv, Control
<1>2. todo[Worker] = <<>>
  BY <1>1, TuplesAreNotNone DEF IInv, Control
<1>3. \A b \in Actors : \A y \in ToSet(todo[b]) : y.op \notin {"inc", "put"}
  BY Holder DEF IInv
<1>4. \A m, k : ~Under(m, k)
  BY <1>3 DEF Under
<1>5. ASSUME NEW n \in Nodes PROVE Marked(Incs(n)) = {}
  <2>1. ASSUME NEW b \in Actors, NEW k \in DOMAIN todo[b] PROVE todo[b][k] \notin Incs(n)
    <3>1. todo[b][k] \in ToSet(todo[b])
      BY DEF ToSet
    <3>. QED
      BY <1>3, <3>1 DEF Incs
  <2>. QED
    BY <2>1 DEF Marked
<1>6. \A n \in Nodes : Placed(n) = Refs(n)
  BY <1>4 DEF Placed, Refs
<1>7. Newborn = {}
  BY <1>5, FS_EmptySet DEF IInv, Alive, Newborn, Nodes
<1>. QED
  BY <1>1, <1>2, <1>3, <1>4, <1>5, <1>6, <1>7

\* The Refs that a call is going to assign to.
LEMMA PlacedDuring ==
  ASSUME Types, \A p, j : ~Under(p, j), NEW n \in Nodes, Refs(n)' = Refs(n),
         NEW m \in Nodes, NEW k \in {1, 2}, NEW new, ~Exists(new),
         \A p, j : Under(p, j)' => (p = m /\ j = k) \/ p = new, Under(m, k)',
         IsFiniteSet(Placed(n))
  PROVE  /\ IsFiniteSet(Placed(n)')
         /\ Cardinality(Placed(n))
              = Cardinality(Placed(n)') + (IF Exists(m) /\ k \in DOMAIN fields[m] /\ n = fields[m][k] THEN 1 ELSE 0)
<1>1. \A p \in Nodes \X {1, 2} : p = <<p[1], p[2]>>
  OBVIOUS
<1>2. <<m, k>> \in Nodes \X {1, 2} /\ <<m, k>>[1] = m /\ <<m, k>>[2] = k
  OBVIOUS
<1>3. Placed(n) = Refs(n)
  BY DEF Placed, Refs
<1>4. <<m, k>> \in Placed(n) <=> Exists(m) /\ k \in DOMAIN fields[m] /\ n = fields[m][k]
  BY <1>2, <1>3 DEF Refs
<1>5. \A p \in Refs(n) : p[1] # new
  BY DEF Refs
<1>6. \A p \in Refs(n) : p = <<p[1], p[2]>>
  BY <1>1 DEF Refs
<1>7. \A p \in Refs(n) : Under(p[1], p[2])' <=> p = <<m, k>>
  BY <1>2, <1>5, <1>6
<1>8. Placed(n)' = {p \in Refs(n) : ~Under(p[1], p[2])'}
  BY DEF Placed
<1>9. Placed(n)' = Placed(n) \ {<<m, k>>}
  BY <1>3, <1>7, <1>8
<1>10. Cardinality(Placed(n)) \in Nat
  BY FS_CardinalityType
<1>11. CASE <<m, k>> \in Placed(n)
  <2>1. /\ IsFiniteSet(Placed(n) \ {<<m, k>>})
        /\ Cardinality(Placed(n) \ {<<m, k>>}) = Cardinality(Placed(n)) - 1
    BY <1>11, FS_RemoveElement
  <2>. QED
    BY <1>4, <1>9, <1>10, <1>11, <2>1
<1>12. CASE <<m, k>> \notin Placed(n)
  <2>1. Placed(n)' = Placed(n)
    BY <1>9, <1>12
  <2>. QED
    BY <1>4, <1>10, <1>12, <2>1
<1>. QED
  BY <1>11, <1>12

\* A new node: its Refs are null.
LEMMA NewNode ==
  ASSUME Types, NEW new \in Nodes \ {Scene}, ~Exists(new), NEW v \in {<<>>, <<None>>},
         new \in Handles => v = <<None>>,
         fields' = [fields EXCEPT ![new] = v]
  PROVE  /\ fields' \in [Nodes -> Seq(Nodes \cup {None}) \cup {None}]
         /\ Exists(Scene)' /\ Len(fields'[Scene]) = 2
         /\ \A k \in {1, 2} : fields'[Scene][k] \in Objects \cup {None}
         /\ \A h \in Handles : Exists(h)' => Len(fields'[h]) = 1
         /\ \A o \in Objects : Exists(o)' => Len(fields'[o]) <= 1
         /\ \A n \in Nodes : Exists(n)' <=> Exists(n) \/ n = new
         /\ \A n \in Nodes : Exists(n) => fields'[n] = fields[n]
         /\ fields'[new] = v
         /\ \A n \in Nodes : Refs(n)' = Refs(n)
<1>1. v \in Seq(Nodes \cup {None}) /\ Len(v) <= 1 /\ v # None /\ (v = <<None>> => Len(v) = 1)
  <2>1. <<>> \in Seq(Nodes \cup {None}) /\ Len(<<>>) <= 1 /\ <<None>> \in Seq(Nodes \cup {None}) /\ Len(<<None>>) = 1
    OBVIOUS
  <2>2. <<>> # None /\ <<None>> # None
    BY TuplesAreNotNone
  <2>3. <<>> # <<None>>
    OBVIOUS
  <2>4. CASE v = <<>>
    BY <2>1, <2>2, <2>3, <2>4
  <2>5. CASE v = <<None>>
    <3>1. Len(<<None>>) <= 1
      BY <2>1
    <3>. QED
      BY <2>1, <2>2, <2>5, <3>1
  <2>. QED
    BY <2>4, <2>5
<1>2. \A n \in Nodes : fields'[n] = IF n = new THEN v ELSE fields[n]
  BY DEF Types
<1>3. \A n \in Nodes : Exists(n)' <=> Exists(n) \/ n = new
  BY <1>1, <1>2 DEF Exists
<1>4. fields' \in [Nodes -> Seq(Nodes \cup {None}) \cup {None}]
  BY <1>1 DEF Types
<1>5. fields'[Scene] = fields[Scene] /\ Exists(Scene)'
  BY <1>2, <1>3, DistinctNodes DEF Types
<1>6. \A h \in Handles : Exists(h)' => Len(fields'[h]) = 1
  BY <1>1, <1>2, <1>3 DEF Types, Nodes
<1>7. \A o \in Objects : Exists(o)' => Len(fields'[o]) <= 1
  <2>1. \A o \in Objects : o \in Nodes
    BY DEF Nodes
  <2>. QED
    BY <1>1, <1>2, <1>3, <2>1 DEF Types
<1>8. ASSUME NEW n \in Nodes PROVE Refs(n)' = Refs(n)
  <2>1. ASSUME NEW p \in Nodes \X {1, 2} PROVE p \in Refs(n)' <=> p \in Refs(n)
    <3>1. p[1] \in Nodes /\ p[2] \in {1, 2}
      OBVIOUS
    <3>2. p \in Refs(n) <=> Exists(p[1]) /\ p[2] \in DOMAIN fields[p[1]] /\ fields[p[1]][p[2]] = n
      BY DEF Refs
    <3>3. p \in Refs(n)' <=> Exists(p[1])' /\ p[2] \in DOMAIN fields'[p[1]] /\ fields'[p[1]][p[2]] = n
      BY DEF Refs
    <3>4. CASE p[1] # new
      BY <1>2, <1>3, <3>1, <3>2, <3>3, <3>4
    <3>5. CASE p[1] = new
      <4>1. p \notin Refs(n)
        BY <3>2, <3>5
      <4>2. ASSUME p[2] \in DOMAIN v, v[p[2]] = n PROVE FALSE
        <5>1. v = <<>> => DOMAIN v = {}
          OBVIOUS
        <5>2. v = <<None>> => DOMAIN v = {1} /\ v[1] = None
          OBVIOUS
        <5>. QED
          BY <4>2, <5>1, <5>2, NoneIsNoNode
      <4>. QED
        BY <1>2, <3>1, <3>3, <3>5, <4>1, <4>2
    <3>. QED
      BY <3>4, <3>5
  <2>2. Refs(n) \subseteq Nodes \X {1, 2} /\ Refs(n)' \subseteq Nodes \X {1, 2}
    BY DEF Refs
  <2>. QED
    BY <2>1, <2>2
<1>. QED
  BY <1>2, <1>3, <1>4, <1>5, <1>6, <1>7, <1>8 DEF Types

\* The counters stay right when a call begins.
LEMMA CallExact ==
  ASSUME IInv, NEW t \in Threads, NEW s \in Seq(Steps), Idle(t), mutex = None,
         todo' = [todo EXCEPT ![t] = s], job' = job, NEW n \in Nodes,
         NEW g \in Nat, count'[n] = count[n] + g,
         IsFiniteSet(Owned(n)'), Cardinality(Owned(n)') = Cardinality(Owned(n)) + g,
         NEW d \in Nat, IsFiniteSet(Placed(n)'), Cardinality(Placed(n)) = Cardinality(Placed(n)') + d,
         Number(s, Releases(n)) = Number(s, Incs(n)) + d
  PROVE  Exact(n)' /\ Cardinality(Marked(Incs(n))') = Number(s, Incs(n))
<1>1. /\ count[n] + Cardinality(Marked(Incs(n))) = Held(n) + Cardinality(Marked(Releases(n)))
      /\ IsFiniteSet(Owned(n)) /\ IsFiniteSet(Placed(n)) /\ count[n] \in Nat /\ Held(n) \in Nat
      /\ IsFiniteSet(Marked(Incs(n))) /\ IsFiniteSet(Marked(Releases(n)))
  BY HeldType DEF IInv, Exact, Types
<1>2. t \in Actors /\ todo[t] = <<>> /\ todo \in [Actors -> Seq(Steps)] /\ \A T : Number(todo[t], T) = 0
  BY NumberEmpty DEF Actors, Idle, IInv, Types
<1>3. Cardinality(Marked(Incs(n))) = 0
  BY Unlocked, FS_EmptySet
<1>4. /\ IsFiniteSet(Marked(Incs(n))') /\ Cardinality(Marked(Incs(n))') \in Nat /\ Number(s, Incs(n)) \in Nat
      /\ Cardinality(Marked(Incs(n))') + Number(todo[t], Incs(n)) = Cardinality(Marked(Incs(n))) + Number(s, Incs(n))
  BY <1>1, <1>2, ActorChange
<1>5. /\ IsFiniteSet(Marked(Releases(n))') /\ Cardinality(Marked(Releases(n))') \in Nat
      /\ Cardinality(Marked(Releases(n))) \in Nat /\ Number(s, Releases(n)) \in Nat
      /\ Cardinality(Marked(Releases(n))') + Number(todo[t], Releases(n))
           = Cardinality(Marked(Releases(n))) + Number(s, Releases(n))
  BY <1>1, <1>2, ActorChange
<1>6. Cardinality(Marked(Incs(n))') = Number(s, Incs(n))
  BY <1>2, <1>3, <1>4
<1>7. Cardinality(Marked(Releases(n))') = Cardinality(Marked(Releases(n))) + Number(s, Releases(n))
  BY <1>2, <1>5
<1>8. Held(n)' + d = Held(n) + g /\ Held(n)' \in Nat
  <2>1. PICK u, j : u = (IF n = Scene THEN 1 ELSE 0) /\ j = (IF job = <<n>> THEN 1 ELSE 0)
    OBVIOUS
  <2>2. u \in Nat /\ j \in Nat
    BY <2>1
  <2>3. Held(n) = u + Cardinality(Owned(n)) + Cardinality(Placed(n)) + j
    BY <2>1 DEF Held
  <2>4. Held(n)' = u + Cardinality(Owned(n)') + Cardinality(Placed(n)') + j
    BY <2>1 DEF Held
  <2>5. Cardinality(Owned(n)) \in Nat /\ Cardinality(Placed(n)') \in Nat
    BY <1>1, FS_CardinalityType
  <2>. QED
    BY <2>2, <2>3, <2>4, <2>5
<1>9. count'[n] + Cardinality(Marked(Incs(n))') = Held(n)' + Cardinality(Marked(Releases(n))')
  <2>1. PICK c, cc, h, hh, r, rr, i, e :
          /\ c = count[n] /\ cc = count'[n] /\ h = Held(n) /\ hh = Held(n)'
          /\ r = Cardinality(Marked(Releases(n))) /\ rr = Cardinality(Marked(Releases(n))')
          /\ i = Number(s, Incs(n)) /\ e = Number(s, Releases(n))
    OBVIOUS
  <2>2. /\ c \in Nat /\ h \in Nat /\ hh \in Nat /\ r \in Nat /\ rr \in Nat /\ i \in Nat /\ e \in Nat
        /\ cc = c + g /\ c + 0 = h + r /\ rr = r + e /\ hh + d = h + g /\ e = i + d
    BY <1>1, <1>3, <1>4, <1>5, <1>7, <1>8, <2>1
  <2>3. cc + i = hh + rr
    BY <2>2
  <2>. QED
    BY <1>6, <2>1, <2>3
<1>. QED
  BY <1>4, <1>5, <1>6, <1>9 DEF Exact

\* What a call has to bring along.
LEMMA CallKeeps ==
  ASSUME IInv, NEW t \in Threads, NEW s \in Seq(Steps), Idle(t), mutex = None,
         mutex' = t, todo' = [todo EXCEPT ![t] = s], job' = job, Types',
         \A n \in Nodes : Exact(n)' /\ Cardinality(Marked(Incs(n))') = Number(s, Incs(n)),
         \A n \in Nodes : count'[n] >= count[n] /\ (count'[n] > count[n] => Exists(n)'),
         \A n \in Nodes : Exists(n) => Exists(n)',
         \A n \in Nodes : Exists(n)' => \/ Exists(n) \/ count'[n] > 0
                                        \/ n \in Objects /\ Number(s, Incs(n)) # 0,
         Exists(Primitive) => fields'[Primitive] = fields[Primitive],
         Exists(Primitive)' => Exists(Primitive) \/ Under(Primitive, 1)',
         Well(s, Newborn'), \A y \in ToSet(s) : StepOK(t, y)', [op |-> "unlock"] \in ToSet(s)
  PROVE  IInv'
<1>1. t \in Actors /\ t # None /\ t # Worker
  BY HandleRefsAssumption DEF Actors
<1>2. \A b \in Actors : todo'[b] = IF b = t THEN s ELSE todo[b]
  BY DEF IInv, Types
<1>3. /\ job = None /\ todo[Worker] = <<>> /\ \A m, k : ~Under(m, k)
      /\ Newborn = {}
  BY Unlocked
<1>4. Alive'
  <2>1. \A n \in Nodes : count[n] \in Nat /\ count'[n] \in Nat
    BY DEF IInv, Types
  <2>2. \A n \in Nodes : count'[n] > 0 => Exists(n)'
    BY <2>1 DEF IInv, Alive
  <2>3. \A n \in Nodes : Exists(n) => count[n] > 0
    BY <1>3, <2>1 DEF IInv, Alive, Newborn
  <2>4. \A n \in Nodes : Exists(n)' /\ count'[n] = 0 => n \in Objects /\ Number(s, Incs(n)) # 0
    BY <2>1, <2>3
  <2>. QED
    BY <2>2, <2>4 DEF Alive
<1>5. PrimitivesHaveShapes'
  BY <1>3 DEF IInv, PrimitivesHaveShapes
<1>6. ASSUME NEW b \in Actors
      PROVE  Well(todo'[b], Newborn') /\ \A y \in ToSet(todo'[b]) : StepOK(b, y)'
  <2>1. CASE b = t
    BY <1>2, <2>1
  <2>2. CASE b # t
    <3>1. b # mutex
      BY HandleRefsAssumption DEF Actors
    <3>2. Well(todo[b], Newborn') /\ \A y \in ToSet(todo[b]) : StepOK(b, y)'
      BY <3>1, OthersFine DEF IInv
    <3>. QED
      BY <1>2, <2>2, <3>2
  <2>. QED
    BY <2>1, <2>2
<1>7. Has(mutex, "unlock")'
  BY <1>1, <1>2 DEF Has
<1>8. todo'[Worker] = <<>>
  BY <1>1, <1>2, <1>3 DEF Actors
<1>9. Control'
  BY <1>3, <1>6, <1>7, <1>8 DEF Control
<1>. QED
  BY <1>4, <1>5, <1>9 DEF IInv
LEMMA UnderCall ==
  ASSUME IInv, NEW t \in Threads, NEW s \in Seq(Steps), mutex = None, todo' = [todo EXCEPT ![t] = s]
  PROVE  /\ \A m, k : Under(m, k)' <=> \E y \in ToSet(s) : y.op = "put" /\ y.node = m /\ y.at = k
         /\ todo' \in [Actors -> Seq(Steps)]
<1>1. t \in Actors
  BY DEF Actors
<1>2. \A b \in Actors : todo'[b] = IF b = t THEN s ELSE todo[b]
  BY DEF IInv, Types
<1>3. \A b \in Actors : \A y \in ToSet(todo[b]) : y.op # "put"
  BY Unlocked
<1>4. \A b \in Actors : \A y \in ToSet(todo'[b]) : y.op = "put" => b = t
  BY <1>2, <1>3
<1>5. todo' \in [Actors -> Seq(Steps)]
  BY <1>1 DEF IInv, Types
<1>. QED
  BY <1>1, <1>2, <1>4, <1>5 DEF Under

\* What a thread may use exists.
LEMMA OwnedExists ==
  ASSUME IInv, NEW t \in Threads, NEW h \in Handles, owns[t][h] > 0
  PROVE  Exists(h) /\ count[h] >= 1 /\ \A n : Owns(t, n) <=> n = Scene \/ (n \in Handles /\ owns[t][n] > 0)
<1>1. t \in Actors /\ h \in Nodes /\ Kept(t, h)
  BY DEF Actors, Nodes, Kept, Owns
<1>. QED
  BY <1>1, KeptExists DEF IInv, Owns

\* rtCommit of the shape.
LEMMA CommitShapeKeeps ==
  ASSUME IInv, NEW t \in Threads, CommitShape(t)
  PROVE  IInv'
<1>1. PICK o \in NewObjects :
        /\ owns[t][Shape] > 0 /\ Locked(t, Assign(Shape, 1, o))
        /\ fields' = [fields EXCEPT ![o] = <<>>] /\ UNCHANGED <<count, owns, job>>
  BY DEF CommitShape
<1>2. o \in Objects /\ ~Exists(o) /\ count[o] = 0 /\ o \in Nodes \ {Scene} /\ o \notin Handles
  BY DistinctNodes DEF NewObjects, Unborn, Handles
<1>3. /\ Exists(Shape) /\ Shape \in Handles /\ Shape \in Nodes /\ Types
      /\ fields[Shape] \in Seq(Nodes \cup {None}) /\ Len(fields[Shape]) = 1
      /\ \A n : Owns(t, n) <=> n = Scene \/ (n \in Handles /\ owns[t][n] > 0)
  <2>1. Shape \in Handles /\ Shape \in Nodes
    BY DEF Handles, Nodes
  <2>2. Exists(Shape) /\ \A n : Owns(t, n) <=> n = Scene \/ (n \in Handles /\ owns[t][n] > 0)
    BY <1>1, <2>1, OwnedExists
  <2>. QED
    BY <2>1, <2>2, FieldsTypes DEF IInv, Types
<1>4. PICK old \in Nodes \cup {None} : old = fields[Shape][1]
  BY <1>3
<1>5. PICK s : s = Inc(o) \o Dec(old) \o Put(Shape, 1, o) \o Unlock
  OBVIOUS
<1>6. Idle(t) /\ mutex = None /\ mutex' = t /\ todo' = [todo EXCEPT ![t] = s]
  BY <1>1, <1>4, <1>5 DEF Locked, Assign
<1>7. /\ s \in Seq(Steps)
      /\ ToSet(s) = {[op |-> "unlock"]} \cup {[op |-> "put", node |-> Shape, at |-> 1, ref |-> o]}
                      \cup Drops(old) \cup Incs(o)
      /\ \A n \in Nodes : Number(s, Incs(n)) = Is(n, o)
      /\ \A n \in Nodes : Number(s, Releases(n)) = Is(n, o) + Is(n, old)
      /\ Well(s, Newborn')
  <2>1. Newborn' \in SUBSET Objects
    BY DEF Newborn
  <2>. QED
    <3>1. PICK N \in SUBSET Objects : N = Newborn'
      BY <2>1
    <3>2. /\ s \in Seq(Steps)
          /\ ToSet(s) = {[op |-> "unlock"]} \cup {[op |-> "put", node |-> Shape, at |-> 1, ref |-> o]}
                          \cup Drops(old) \cup Incs(o)
          /\ \A n \in Nodes : Number(s, Incs(n)) = Is(n, o)
          /\ \A n \in Nodes : Number(s, Releases(n)) = Is(n, o) + Is(n, old)
          /\ Well(s, N)
      <4>1. LET p == Inc(o) \o Dec(old) \o Put(Shape, 1, o) \o Unlock
            IN  /\ p \in Seq(Steps)
                /\ ToSet(p) = {[op |-> "unlock"]}
                           \cup {[op |-> "put", node |-> Shape, at |-> 1, ref |-> o]}
                           \cup Drops(old) \cup Incs(o)
                /\ \A n \in Nodes : Number(p, Incs(n)) = Is(n, o)
                /\ \A n \in Nodes : Number(p, Releases(n)) = Is(n, o) + Is(n, old)
                /\ Well(p, N)
        BY <1>2, ProgramCommitShape
      <4>. QED
        BY <1>5, <4>1
    <3>. QED
      BY <3>1, <3>2
<1>8. /\ fields' \in [Nodes -> Seq(Nodes \cup {None}) \cup {None}]
      /\ Exists(Scene)' /\ Len(fields'[Scene]) = 2
      /\ \A k \in {1, 2} : fields'[Scene][k] \in Objects \cup {None}
      /\ \A h \in Handles : Exists(h)' => Len(fields'[h]) = 1
      /\ \A p \in Objects : Exists(p)' => Len(fields'[p]) <= 1
      /\ \A n \in Nodes : Exists(n)' <=> Exists(n) \/ n = o
      /\ \A n \in Nodes : Exists(n) => fields'[n] = fields[n]
      /\ \A n \in Nodes : Refs(n)' = Refs(n)
  BY <1>1, <1>2, <1>3, NewNode
<1>9. /\ \A m, k : Under(m, k)' <=> m = Shape /\ k = 1
      /\ todo' \in [Actors -> Seq(Steps)]
  <2>1. /\ \A m, k : Under(m, k)' <=> \E y \in ToSet(s) : y.op = "put" /\ y.node = m /\ y.at = k
        /\ todo' \in [Actors -> Seq(Steps)]
    BY <1>6, <1>7, UnderCall
  <2>2. \A y \in ToSet(s) : y.op = "put" <=> y = [op |-> "put", node |-> Shape, at |-> 1, ref |-> o]
    BY <1>7 DEF Drops, Incs
  <2>3. \E y \in ToSet(s) : y = [op |-> "put", node |-> Shape, at |-> 1, ref |-> o]
    BY <1>7
  <2>. QED
    BY <2>1, <2>2, <2>3
<1>10. Types'
  BY <1>1, <1>3, <1>6, <1>8, <1>9 DEF Types
<1>11. ASSUME NEW n \in Nodes PROVE Exact(n)' /\ Cardinality(Marked(Incs(n))') = Number(s, Incs(n))
  <2>1. IsFiniteSet(Owned(n)) /\ IsFiniteSet(Placed(n)) /\ Owned(n)' = Owned(n)
    BY <1>1 DEF IInv, Exact, Owned
  <2>2. PICK d : d = Is(n, old)
    OBVIOUS
  <2>3. d \in Nat /\ d = IF n = old THEN 1 ELSE 0
    BY <2>2 DEF Is
  <2>4. /\ IsFiniteSet(Placed(n)')
        /\ Cardinality(Placed(n)) = Cardinality(Placed(n)') + (IF Exists(Shape) /\ 1 \in DOMAIN fields[Shape] /\ n = fields[Shape][1] THEN 1 ELSE 0)
    BY <1>2, <1>3, <1>6, <1>8, <1>9, <2>1, Unlocked, PlacedDuring
  <2>5. 1 \in DOMAIN fields[Shape]
    BY <1>3
  <2>6. Cardinality(Placed(n)) = Cardinality(Placed(n)') + d
    BY <1>3, <1>4, <2>3, <2>4, <2>5
  <2>7. Number(s, Releases(n)) = Number(s, Incs(n)) + d
    BY <1>7, <2>2
  <2>8. Cardinality(Owned(n)') = Cardinality(Owned(n)) + 0 /\ count'[n] = count[n] + 0
    BY <1>1, <2>1, FS_CardinalityType DEF IInv, Types
  <2>. QED
    BY <1>1, <1>6, <1>7, <2>1, <2>3, <2>4, <2>6, <2>7, <2>8, CallExact
<1>12. ASSUME NEW y \in ToSet(s) PROVE StepOK(t, y)'
  <2>1. CASE y = [op |-> "unlock"]
    BY <1>6, <2>1 DEF StepOK
  <2>2. CASE y = [op |-> "put", node |-> Shape, at |-> 1, ref |-> o]
    <3>1. Owns(t, Shape)'
      BY <1>1, <1>3 DEF Owns
    <3>2. 1 \in DOMAIN fields'[Shape]
      BY <1>3, <1>8
    <3>. QED
      BY <1>2, <1>6, <2>2, <3>1, <3>2, DistinctNodes DEF StepOK
  <2>3. CASE y \in Drops(old)
    BY <2>3 DEF Drops, StepOK
  <2>4. CASE y \in Incs(o)
    <3>1. o \in Newborn'
      BY <1>1, <1>2, <1>8 DEF Newborn
    <3>. QED
      BY <1>6, <2>4, <3>1 DEF Incs, StepOK
  <2>. QED
    BY <1>7, <2>1, <2>2, <2>3, <2>4
<1>13. \A n \in Nodes : Exists(n)' => Exists(n) \/ (n \in Objects /\ Number(s, Incs(n)) # 0)
  BY <1>2, <1>7, <1>8 DEF Is
<1>14. \A n \in Nodes : count'[n] >= count[n] /\ count'[n] = count[n]
  BY <1>1 DEF IInv, Types
<1>15. [op |-> "unlock"] \in ToSet(s)
  BY <1>7
<1>16. /\ \A n \in Nodes : count'[n] >= count[n] /\ (count'[n] > count[n] => Exists(n)')
       /\ \A n \in Nodes : Exists(n) => Exists(n)'
       /\ Exists(Primitive) => fields'[Primitive] = fields[Primitive]
       /\ Exists(Primitive)' => Exists(Primitive) \/ Under(Primitive, 1)'
  BY <1>2, <1>8, <1>14, DistinctNodes DEF IInv, Types
<1>. QED
  BY <1>1, <1>6, <1>7, <1>10, <1>11, <1>12, <1>13, <1>15, <1>16, CallKeeps
\* A handle is created with the reference that the application gets.
LEMMA NewHandle ==
  ASSUME IInv, NEW t \in Threads, NEW h \in Handles, ~Exists(h), count[h] = 0,
         count' = [count EXCEPT ![h] = 1], owns' = [owns EXCEPT ![t][h] = 1]
  PROVE  /\ count' \in [Nodes -> Nat] /\ owns' \in [Threads -> [Handles -> 0 .. MaxOwned]]
         /\ \A n \in Nodes : count'[n] = count[n] + Is(n, h)
         /\ \A n \in Nodes :
              IsFiniteSet(Owned(n)') /\ Cardinality(Owned(n)') = Cardinality(Owned(n)) + Is(n, h)
         /\ \A b, n : Owns(b, n) => Owns(b, n)'
         /\ Owns(t, h)'
<1>1. owns[t][h] = 0 /\ owns[t][h] < MaxOwned
  <2>1. owns[t][h] \in Nat /\ MaxOwned \in Nat \ {0}
    BY HandleRefsAssumption DEF IInv, Types
  <2>2. ~(owns[t][h] > 0)
    BY OwnedExists
  <2>. QED
    BY <2>1, <2>2
<1>2. owns' = [owns EXCEPT ![t][h] = owns[t][h] + 1]
  BY <1>1
<1>3. /\ Owned(h)' = Owned(h) \cup {<<t, owns[t][h] + 1>>}
      /\ <<t, owns[t][h] + 1>> \notin Owned(h)
      /\ \A n \in Nodes \ {h} : Owned(n)' = Owned(n)
      /\ owns' \in [Threads -> [Handles -> 0 .. MaxOwned]]
      /\ \A b \in Threads, g \in Handles : owns'[b][g] >= owns[b][g]
  BY <1>1, <1>2, OwnedMore DEF IInv
<1>4. h \in Nodes
  BY DEF Nodes
<1>5. count' \in [Nodes -> Nat] /\ \A n \in Nodes : count'[n] = count[n] + Is(n, h)
  BY <1>4 DEF IInv, Types, Is
<1>6. ASSUME NEW n \in Nodes
      PROVE  IsFiniteSet(Owned(n)') /\ Cardinality(Owned(n)') = Cardinality(Owned(n)) + Is(n, h)
  <2>1. IsFiniteSet(Owned(n)) /\ Cardinality(Owned(n)) \in Nat
    BY FS_CardinalityType DEF IInv, Exact
  <2>2. CASE n = h
    <3>1. /\ IsFiniteSet(Owned(n) \cup {<<t, owns[t][h] + 1>>})
          /\ Cardinality(Owned(n) \cup {<<t, owns[t][h] + 1>>}) = Cardinality(Owned(n)) + 1
      BY <1>3, <2>1, <2>2, FS_AddElement
    <3>. QED
      BY <1>3, <2>2, <3>1 DEF Is
  <2>3. CASE n # h
    BY <1>3, <2>1, <2>3 DEF Is
  <2>. QED
    BY <2>2, <2>3
<1>7. \A b, n : Owns(b, n) => Owns(b, n)'
  <2>1. \A b \in Threads, g \in Handles : owns[b][g] > 0 => owns'[b][g] > 0
    BY <1>3 DEF IInv, Types
  <2>. QED
    BY <2>1 DEF Owns
<1>8. Owns(t, h)'
  BY DEF IInv, Types, Owns
<1>. QED
  BY <1>3, <1>5, <1>6, <1>7, <1>8

\* rtNewShape.
LEMMA NewShapeKeeps ==
  ASSUME IInv, NEW t \in Threads, NewShape(t)
  PROVE  IInv'
<1>1. /\ Idle(t) /\ mutex = None /\ ~Exists(Shape) /\ count[Shape] = 0
      /\ count' = [count EXCEPT ![Shape] = 1]
      /\ fields' = [fields EXCEPT ![Shape] = <<None>>]
      /\ owns' = [owns EXCEPT ![t][Shape] = 1]
      /\ UNCHANGED <<mutex, job, todo>>
  BY DEF NewShape, Unborn
<1>2. Shape \in Handles /\ Shape \in Nodes \ {Scene} /\ t \in Actors /\ Shape \notin Objects
  BY DistinctNodes DEF Handles, Actors
<1>3. /\ count' \in [Nodes -> Nat] /\ owns' \in [Threads -> [Handles -> 0 .. MaxOwned]]
      /\ \A n \in Nodes : count'[n] = count[n] + Is(n, Shape)
      /\ \A n \in Nodes :
           IsFiniteSet(Owned(n)') /\ Cardinality(Owned(n)') = Cardinality(Owned(n)) + Is(n, Shape)
  BY <1>1, <1>2, NewHandle
<1>4. /\ fields' \in [Nodes -> Seq(Nodes \cup {None}) \cup {None}]
      /\ Exists(Scene)' /\ Len(fields'[Scene]) = 2
      /\ \A k \in {1, 2} : fields'[Scene][k] \in Objects \cup {None}
      /\ \A h \in Handles : Exists(h)' => Len(fields'[h]) = 1
      /\ \A p \in Objects : Exists(p)' => Len(fields'[p]) <= 1
      /\ \A n \in Nodes : Exists(n)' <=> Exists(n) \/ n = Shape
      /\ \A n \in Nodes : Exists(n) => fields'[n] = fields[n]
      /\ \A n \in Nodes : Refs(n)' = Refs(n)
  BY <1>1, <1>2, NewNode DEF IInv
<1>5. /\ \A T : Marked(T)' = Marked(T)
      /\ \A m, k : Under(m, k)' = Under(m, k)
      /\ \A b, op : Has(b, op)' = Has(b, op)
  BY <1>1, MarkedSame
<1>6. \A n \in Nodes : Placed(n)' = Placed(n)
  BY <1>4, <1>5 DEF Placed
<1>7. Types'
  BY <1>1, <1>3, <1>4 DEF IInv, Types
<1>8. ASSUME NEW n \in Nodes PROVE Exact(n)'
  <2>1. IsFiniteSet(Placed(n)') /\ Cardinality(Placed(n)) = Cardinality(Placed(n)') + 0
    BY <1>6, FS_CardinalityType DEF IInv, Exact
  <2>2. <<>> \in Seq(Steps) /\ todo' = [todo EXCEPT ![t] = <<>>]
    BY <1>1, <1>2 DEF Idle, IInv, Types
  <2>3. Number(<<>>, Releases(n)) = Number(<<>>, Incs(n)) + 0
    BY NumberEmpty
  <2>4. PICK g, d, s : g = Is(n, Shape) /\ d = 0 /\ s = <<>>
    OBVIOUS
  <2>5. /\ g \in Nat /\ count'[n] = count[n] + g
        /\ IsFiniteSet(Owned(n)') /\ Cardinality(Owned(n)') = Cardinality(Owned(n)) + g
    BY <1>3, <2>4 DEF Is
  <2>6. /\ d \in Nat /\ IsFiniteSet(Placed(n)') /\ Cardinality(Placed(n)) = Cardinality(Placed(n)') + d
        /\ s \in Seq(Steps) /\ todo' = [todo EXCEPT ![t] = s]
        /\ Number(s, Releases(n)) = Number(s, Incs(n)) + d
    BY <2>1, <2>2, <2>3, <2>4
  <2>. QED
    BY <1>1, <2>5, <2>6, CallExact
<1>9. Alive'
  <2>1. Newborn = {} /\ \A n \in Nodes : count[n] \in Nat
    BY <1>1, Unlocked DEF IInv, Types
  <2>2. \A n \in Nodes : Exists(n) => count[n] > 0
    BY <2>1 DEF IInv, Alive, Newborn
  <2>3. \A n \in Nodes : Exists(n)' => count'[n] > 0
    BY <1>3, <1>4, <2>1, <2>2 DEF Is
  <2>4. \A n \in Nodes : count'[n] > 0 => Exists(n)'
    BY <1>3, <1>4, <2>1 DEF Is, IInv, Alive
  <2>5. \A n \in Nodes : count'[n] = 0 => ~(count'[n] > 0)
    OBVIOUS
  <2>. QED
    BY <2>3, <2>4, <2>5 DEF Alive
<1>10. PrimitivesHaveShapes'
  BY <1>4, <1>5, DistinctNodes DEF IInv, PrimitivesHaveShapes
<1>11. ASSUME NEW b \in Actors
       PROVE  Well(todo'[b], Newborn') /\ \A y \in ToSet(todo'[b]) : StepOK(b, y)'
  <2>1. b # mutex
    BY <1>1, HandleRefsAssumption DEF Actors
  <2>2. Well(todo[b], Newborn') /\ \A y \in ToSet(todo[b]) : StepOK(b, y)'
    BY <2>1, OthersFine DEF IInv
  <2>. QED
    BY <1>1, <2>2
<1>12. Control'
  BY <1>1, <1>5, <1>11 DEF IInv, Control
<1>. QED
  BY <1>7, <1>8, <1>9, <1>10, <1>12 DEF IInv
\* rtNewShapePrimitive.
LEMMA NewPrimitiveKeeps ==
  ASSUME IInv, NEW t \in Threads, NewPrimitive(t)
  PROVE  IInv'
<1>1. /\ owns[t][Shape] > 0 /\ ~Exists(Primitive) /\ count[Primitive] = 0
      /\ Locked(t, Inc(Shape) \o Inc(Shape) \o Put(Primitive, 1, Shape) \o Dec(Shape))
      /\ count' = [count EXCEPT ![Primitive] = 1]
      /\ fields' = [fields EXCEPT ![Primitive] = <<None>>]
      /\ owns' = [owns EXCEPT ![t][Primitive] = 1] /\ job' = job
  BY DEF NewPrimitive, Unborn
<1>2. /\ Primitive \in Handles /\ Primitive \in Nodes \ {Scene} /\ Shape \in Handles /\ Shape \in Nodes
      /\ Primitive \notin Objects /\ Types /\ Primitive # Shape
  BY DistinctNodes DEF Handles, IInv
<1>3. PICK s : s = Inc(Shape) \o Inc(Shape) \o Put(Primitive, 1, Shape) \o Dec(Shape) \o Unlock
  OBVIOUS
<1>4. Idle(t) /\ mutex = None /\ mutex' = t /\ todo' = [todo EXCEPT ![t] = s]
  BY <1>1, <1>3 DEF Locked
<1>5. /\ s \in Seq(Steps)
      /\ ToSet(s) = {[op |-> "unlock"]} \cup Drops(Shape)
                      \cup {[op |-> "put", node |-> Primitive, at |-> 1, ref |-> Shape]}
                      \cup Incs(Shape) \cup Incs(Shape)
      /\ \A n \in Nodes : Number(s, Incs(n)) = Is(n, Shape) + Is(n, Shape)
      /\ \A n \in Nodes : Number(s, Releases(n)) = Is(n, Shape) + Is(n, Shape)
      /\ Well(s, Newborn')
  <2>1. PICK N \in SUBSET Objects : N = Newborn'
    BY DEF Newborn
  <2>2. LET p == Inc(Shape) \o Inc(Shape) \o Put(Primitive, 1, Shape) \o Dec(Shape) \o Unlock
        IN  /\ p \in Seq(Steps)
            /\ ToSet(p) = {[op |-> "unlock"]} \cup Drops(Shape)
                       \cup {[op |-> "put", node |-> Primitive, at |-> 1, ref |-> Shape]}
                       \cup Incs(Shape) \cup Incs(Shape)
            /\ \A n \in Nodes : Number(p, Incs(n)) = Is(n, Shape) + Is(n, Shape)
            /\ \A n \in Nodes : Number(p, Releases(n)) = Is(n, Shape) + Is(n, Shape)
            /\ Well(p, N)
    BY ProgramNewPrimitive
  <2>. QED
    BY <1>3, <2>1, <2>2
<1>6. /\ count' \in [Nodes -> Nat] /\ owns' \in [Threads -> [Handles -> 0 .. MaxOwned]]
      /\ \A n \in Nodes : count'[n] = count[n] + Is(n, Primitive)
      /\ \A n \in Nodes :
           IsFiniteSet(Owned(n)') /\ Cardinality(Owned(n)') = Cardinality(Owned(n)) + Is(n, Primitive)
      /\ \A b, n : Owns(b, n) => Owns(b, n)'
      /\ Owns(t, Primitive)'
  BY <1>1, <1>2, NewHandle
<1>7. /\ fields' \in [Nodes -> Seq(Nodes \cup {None}) \cup {None}]
      /\ Exists(Scene)' /\ Len(fields'[Scene]) = 2
      /\ \A k \in {1, 2} : fields'[Scene][k] \in Objects \cup {None}
      /\ \A h \in Handles : Exists(h)' => Len(fields'[h]) = 1
      /\ \A p \in Objects : Exists(p)' => Len(fields'[p]) <= 1
      /\ \A n \in Nodes : Exists(n)' <=> Exists(n) \/ n = Primitive
      /\ \A n \in Nodes : Exists(n) => fields'[n] = fields[n]
      /\ fields'[Primitive] = <<None>>
      /\ \A n \in Nodes : Refs(n)' = Refs(n)
  BY <1>1, <1>2, NewNode
<1>8. /\ \A m, k : Under(m, k)' <=> m = Primitive /\ k = 1
      /\ todo' \in [Actors -> Seq(Steps)]
  <2>1. /\ \A m, k : Under(m, k)' <=> \E y \in ToSet(s) : y.op = "put" /\ y.node = m /\ y.at = k
        /\ todo' \in [Actors -> Seq(Steps)]
    BY <1>4, <1>5, UnderCall
  <2>2. \A y \in ToSet(s) : y.op = "put" <=> y = [op |-> "put", node |-> Primitive, at |-> 1, ref |-> Shape]
    BY <1>5 DEF Drops, Incs
  <2>3. \E y \in ToSet(s) : y = [op |-> "put", node |-> Primitive, at |-> 1, ref |-> Shape]
    BY <1>5
  <2>. QED
    BY <2>1, <2>2, <2>3
<1>9. Types'
  BY <1>1, <1>2, <1>4, <1>6, <1>7, <1>8 DEF Types
<1>10. ASSUME NEW n \in Nodes PROVE Exact(n)' /\ Cardinality(Marked(Incs(n))') = Number(s, Incs(n))
  <2>1. IsFiniteSet(Placed(n))
    BY DEF IInv, Exact
  <2>2. PICK g, d : g = Is(n, Primitive) /\ d = 0
    OBVIOUS
  <2>3. /\ IsFiniteSet(Placed(n)')
        /\ Cardinality(Placed(n)) = Cardinality(Placed(n)') + (IF Exists(Primitive) /\ 1 \in DOMAIN fields[Primitive] /\ n = fields[Primitive][1] THEN 1 ELSE 0)
    BY <1>1, <1>2, <1>4, <1>7, <1>8, <2>1, Unlocked, PlacedDuring
  <2>4. /\ g \in Nat /\ count'[n] = count[n] + g
        /\ IsFiniteSet(Owned(n)') /\ Cardinality(Owned(n)') = Cardinality(Owned(n)) + g
    BY <1>6, <2>2 DEF Is
  <2>5. /\ d \in Nat /\ IsFiniteSet(Placed(n)') /\ Cardinality(Placed(n)) = Cardinality(Placed(n)') + d
    BY <1>1, <2>2, <2>3
  <2>6. Number(s, Releases(n)) = Number(s, Incs(n)) + d
    BY <1>5, <2>2 DEF Is
  <2>. QED
    BY <1>1, <1>4, <1>5, <2>4, <2>5, <2>6, CallExact
<1>11. ASSUME NEW y \in ToSet(s) PROVE StepOK(t, y)'
  <2>1. CASE y = [op |-> "unlock"]
    BY <1>4, <2>1 DEF StepOK
  <2>2. CASE y = [op |-> "put", node |-> Primitive, at |-> 1, ref |-> Shape]
    <3>1. 1 \in DOMAIN fields'[Primitive]
      <4>1. 1 \in DOMAIN <<None>>
        OBVIOUS
      <4>. QED
        BY <1>7, <4>1
    <3>. QED
      BY <1>2, <1>4, <1>6, <2>2, <3>1 DEF StepOK
  <2>3. CASE y \in Drops(Shape)
    BY <2>3 DEF Drops, StepOK
  <2>4. CASE y \in Incs(Shape)
    <3>1. Owns(t, Shape)'
      BY <1>1, <1>2, <1>6 DEF Owns
    <3>2. Kept(t, Shape)'
      BY <3>1 DEF Kept
    <3>. QED
      BY <1>4, <2>4, <3>2 DEF Incs, StepOK
  <2>. QED
    BY <1>5, <2>1, <2>2, <2>3, <2>4
<1>12. /\ \A n \in Nodes : count'[n] >= count[n] /\ (count'[n] > count[n] => Exists(n)')
       /\ \A n \in Nodes : Exists(n)' => Exists(n) \/ count'[n] > 0
  BY <1>2, <1>6, <1>7 DEF Is, Types
<1>13. [op |-> "unlock"] \in ToSet(s)
  BY <1>5
<1>14. /\ \A n \in Nodes : Exists(n) => Exists(n)'
       /\ Exists(Primitive) => fields'[Primitive] = fields[Primitive]
       /\ Exists(Primitive)' => Exists(Primitive) \/ Under(Primitive, 1)'
  BY <1>2, <1>7, <1>8
<1>. QED
  BY <1>1, <1>4, <1>5, <1>9, <1>10, <1>11, <1>12, <1>13, <1>14, CallKeeps

\* rtRenderFrame.
LEMMA RenderFrameKeeps ==
  ASSUME IInv, NEW t \in Threads, RenderFrame(t)
  PROVE  IInv'
<1>1. PICK o : o = fields[Scene][1] /\ o # None
  BY DEF RenderFrame, Instance
<1>2. /\ Locked(t, Inc(Scene) \o Inc(o) \o Inc(o)
                  \o <<[op |-> "start", refs |-> <<o>>], [op |-> "wait"]>>
                  \o Dec(o) \o Dec(Scene))
      /\ UNCHANGED <<count, fields, owns, job>>
  BY <1>1 DEF RenderFrame, Instance
<1>3. /\ o \in Objects /\ o \in Nodes /\ Types /\ Exists(Scene) /\ Scene \in Nodes
      /\ fields[Scene] \in Seq(Nodes \cup {None}) /\ Len(fields[Scene]) = 2
  BY <1>1, DistinctNodes, FieldsTypes DEF IInv, Types
<1>4. PICK s : s = Inc(Scene) \o Inc(o) \o Inc(o) \o <<[op |-> "start", refs |-> <<o>>], [op |-> "wait"]>>
                     \o Dec(o) \o Dec(Scene) \o Unlock
  OBVIOUS
<1>5. Idle(t) /\ mutex = None /\ mutex' = t /\ todo' = [todo EXCEPT ![t] = s]
  BY <1>2, <1>4 DEF Locked
<1>6. Newborn' = {} /\ Newborn = {}
  BY <1>2, <1>5, Unlocked DEF Newborn, Exists
<1>7. /\ s \in Seq(Steps)
      /\ ToSet(s) = {[op |-> "unlock"]} \cup Drops(Scene) \cup Drops(o)
                 \cup {[op |-> "start", refs |-> <<o>>], [op |-> "wait"]}
                 \cup Incs(o) \cup Incs(o) \cup Incs(Scene)
      /\ \A n \in Nodes : Number(s, Incs(n)) = Is(n, Scene) + Is(n, o) + Is(n, o)
      /\ \A n \in Nodes : Number(s, Releases(n)) = Is(n, Scene) + Is(n, o) + Is(n, o)
      /\ Well(s, Newborn')
  <2>1. PICK N \in SUBSET Objects : N = {}
    OBVIOUS
  <2>2. LET p == Inc(Scene) \o Inc(o) \o Inc(o) \o <<[op |-> "start", refs |-> <<o>>], [op |-> "wait"]>> \o Dec(o) \o Dec(Scene) \o Unlock
        IN  /\ p \in Seq(Steps)
            /\ ToSet(p) = {[op |-> "unlock"]} \cup Drops(Scene) \cup Drops(o)
                       \cup {[op |-> "start", refs |-> <<o>>], [op |-> "wait"]}
                       \cup Incs(o) \cup Incs(o) \cup Incs(Scene)
            /\ \A n \in Nodes : Number(p, Incs(n)) = Is(n, Scene) + Is(n, o) + Is(n, o)
            /\ \A n \in Nodes : Number(p, Releases(n)) = Is(n, Scene) + Is(n, o) + Is(n, o)
            /\ Well(p, N)
    <3>1. o \notin N
      BY <2>1
    <3>. QED
      BY <1>3, <3>1, ProgramRenderFrame
  <2>. QED
    BY <1>4, <1>6, <2>1, <2>2
<1>8. /\ \A m, k : ~Under(m, k)' /\ ~Under(m, k)
      /\ todo' \in [Actors -> Seq(Steps)]
  <2>1. /\ \A m, k : Under(m, k)' <=> \E y \in ToSet(s) : y.op = "put" /\ y.node = m /\ y.at = k
        /\ todo' \in [Actors -> Seq(Steps)]
    BY <1>5, <1>7, UnderCall
  <2>2. \A y \in ToSet(s) : y.op # "put"
    BY <1>7 DEF Drops, Incs
  <2>. QED
    BY <1>5, <2>1, <2>2, Unlocked
<1>9. \A n : Owned(n)' = Owned(n) /\ Refs(n)' = Refs(n) /\ Placed(n)' = Placed(n)
  <2>1. \A n : Owned(n)' = Owned(n) /\ Refs(n)' = Refs(n)
    BY <1>2 DEF Owned, Refs, Exists
  <2>. QED
    BY <1>8, <2>1 DEF Placed
<1>10. Types'
  BY <1>2, <1>3, <1>5, <1>8 DEF Types, Exists
<1>11. ASSUME NEW n \in Nodes PROVE Exact(n)' /\ Cardinality(Marked(Incs(n))') = Number(s, Incs(n))
  <2>1. /\ IsFiniteSet(Placed(n)) /\ IsFiniteSet(Owned(n)) /\ count[n] \in Nat
        /\ Cardinality(Placed(n)) \in Nat /\ Cardinality(Owned(n)) \in Nat
    BY FS_CardinalityType DEF IInv, Exact, Types
  <2>2. PICK g, d : g = 0 /\ d = 0
    OBVIOUS
  <2>3. /\ g \in Nat /\ count'[n] = count[n] + g
        /\ IsFiniteSet(Owned(n)') /\ Cardinality(Owned(n)') = Cardinality(Owned(n)) + g
    BY <1>2, <1>9, <2>1, <2>2
  <2>4. /\ d \in Nat /\ IsFiniteSet(Placed(n)') /\ Cardinality(Placed(n)) = Cardinality(Placed(n)') + d
    BY <1>9, <2>1, <2>2
  <2>5. Number(s, Releases(n)) = Number(s, Incs(n)) + d
    BY <1>7, <2>2 DEF Is
  <2>. QED
    BY <1>2, <1>5, <1>7, <2>3, <2>4, <2>5, CallExact
<1>12. ASSUME NEW y \in ToSet(s) PROVE StepOK(t, y)'
  <2>1. CASE y \in {[op |-> "unlock"], [op |-> "start", refs |-> <<o>>], [op |-> "wait"]}
    <3>1. y.op \in {"unlock", "start", "wait"}
      BY <2>1
    <3>. QED
      BY <1>5, <3>1 DEF StepOK
  <2>2. CASE y \in Drops(Scene) \cup Drops(o)
    BY <2>2 DEF Drops, StepOK
  <2>3. CASE y \in Incs(Scene)
    <3>1. Kept(t, Scene)'
      BY DEF Kept, Owns
    <3>. QED
      BY <1>5, <2>3, <3>1 DEF Incs, StepOK
  <2>4. CASE y \in Incs(o)
    <3>1. <<Scene, 1>> \in Refs(o)
      BY <1>1, <1>3 DEF Refs
    <3>2. <<Scene, 1>> \in Placed(o)'
      BY <1>8, <1>9, <3>1 DEF Placed
    <3>3. Kept(t, o)'
      BY <3>2 DEF Kept
    <3>. QED
      BY <1>5, <2>4, <3>3 DEF Incs, StepOK
  <2>. QED
    BY <1>7, <2>1, <2>2, <2>3, <2>4
<1>13. \A n \in Nodes : count'[n] >= count[n] /\ (count'[n] > count[n] => Exists(n)')
  BY <1>2 DEF IInv, Types
<1>14. [op |-> "unlock"] \in ToSet(s)
  BY <1>7
<1>15. /\ \A n \in Nodes : Exists(n)' <=> Exists(n)
       /\ Exists(Primitive) => fields'[Primitive] = fields[Primitive]
       /\ Exists(Primitive)' => Exists(Primitive)
  BY <1>2 DEF Exists
<1>. QED
  BY <1>2, <1>5, <1>7, <1>10, <1>11, <1>12, <1>13, <1>14, <1>15, CallKeeps
\* What a Ref refers to exists, and is counted.
LEMMA PlacedExists ==
  ASSUME IInv, NEW n \in Nodes, Placed(n) # {}
  PROVE  Exists(n) /\ count[n] >= 1
<1>1. Held(n) >= 1 /\ Held(n) \in Nat /\ count[n] >= Held(n) /\ count[n] \in Nat
  BY HeldType, CountHolds DEF IInv
<1>. QED
  BY <1>1 DEF IInv, Alive

\* The object that a call creates is the only one without a Ref.
LEMMA OnlyNewborn ==
  ASSUME IInv, mutex = None, NEW o \in Objects, count[o] = 0, count' = count,
         \A n \in Nodes : Exists(n)' <=> Exists(n) \/ n = o
  PROVE  Newborn' = {o}
<1>1. Newborn = {}
  BY Unlocked
<1>2. \A n \in Objects : n \in Nodes
  BY DEF Nodes
<1>. QED
  BY <1>1, <1>2 DEF Newborn

\* rtCommit of the scene.
LEMMA CommitSceneKeeps ==
  ASSUME IInv, NEW t \in Threads, CommitScene(t)
  PROVE  IInv'
<1>1. PICK x, old : x = fields[Scene][2] /\ old = fields[Scene][1]
  OBVIOUS
<1>2. PICK o \in NewObjects :
        /\ Locked(t, Inc(x) \o Put(o, 1, x) \o (Inc(o) \o Dec(old) \o Put(Scene, 1, o)))
        /\ fields' = [fields EXCEPT ![o] = <<None>>] /\ UNCHANGED <<count, owns, job>>
  BY <1>1 DEF CommitScene, Assign, Instance, Slot
<1>3. o \in Objects /\ ~Exists(o) /\ count[o] = 0 /\ o \in Nodes \ {Scene} /\ o \notin Handles
  BY DistinctNodes DEF NewObjects, Unborn, Handles
<1>4. /\ Exists(Scene) /\ Scene \in Nodes /\ Types
      /\ fields[Scene] \in Seq(Nodes \cup {None}) /\ Len(fields[Scene]) = 2
      /\ x \in Objects \cup {None} /\ old \in Objects \cup {None} /\ Objects \subseteq Nodes
  BY <1>1, DistinctNodes, FieldsTypes DEF IInv, Types
<1>5. Idle(t) /\ mutex = None /\ mutex' = t
  BY <1>2 DEF Locked
<1>6. x \in Nodes => <<Scene, 2>> \in Refs(x) /\ <<Scene, 2>> \in Placed(x)
  <2>1. 2 \in DOMAIN fields[Scene]
    BY <1>4
  <2>2. x \in Nodes => <<Scene, 2>> \in Refs(x)
    BY <1>1, <1>4, <2>1 DEF Refs
  <2>. QED
    BY <1>5, <2>2, Unlocked
<1>7. x # o
  BY <1>3, <1>6, PlacedExists
<1>8. /\ fields' \in [Nodes -> Seq(Nodes \cup {None}) \cup {None}]
      /\ Exists(Scene)' /\ Len(fields'[Scene]) = 2
      /\ \A k \in {1, 2} : fields'[Scene][k] \in Objects \cup {None}
      /\ \A h \in Handles : Exists(h)' => Len(fields'[h]) = 1
      /\ \A p \in Objects : Exists(p)' => Len(fields'[p]) <= 1
      /\ \A n \in Nodes : Exists(n)' <=> Exists(n) \/ n = o
      /\ \A n \in Nodes : Exists(n) => fields'[n] = fields[n]
      /\ fields'[o] = <<None>>
      /\ \A n \in Nodes : Refs(n)' = Refs(n)
  BY <1>2, <1>3, <1>4, NewNode
<1>9. Newborn' = {o}
  BY <1>2, <1>3, <1>5, <1>8, OnlyNewborn
<1>10. PICK s : s = Inc(x) \o Put(o, 1, x) \o Inc(o) \o Dec(old) \o Put(Scene, 1, o) \o Unlock
  OBVIOUS
<1>11. todo' = [todo EXCEPT ![t] = s]
  <2>1. /\ Inc(x) \in Seq(Steps) /\ Put(o, 1, x) \in Seq(Steps) /\ Inc(o) \in Seq(Steps)
        /\ Dec(old) \in Seq(Steps) /\ Put(Scene, 1, o) \in Seq(Steps)
    BY <1>3, <1>4, PieceTypes
  <2>2. PICK a, b, v, w, z :
          /\ a = Inc(x) /\ b = Put(o, 1, x) /\ v = Inc(o) /\ w = Dec(old) /\ z = Put(Scene, 1, o)
    OBVIOUS
  <2>3. a \in Seq(Steps) /\ b \in Seq(Steps) /\ v \in Seq(Steps) /\ w \in Seq(Steps) /\ z \in Seq(Steps)
    BY <2>1, <2>2
  <2>4. PICK u : u = a \o b
    OBVIOUS
  <2>5. u \in Seq(Steps)
    BY <2>3, <2>4, ConcatProperties
  <2>6. u \o ((v \o w) \o z) = ((u \o v) \o w) \o z
    <3>0. u \in Seq(Steps) /\ z \in Seq(Steps)
      BY <2>3, <2>5
    <3>1. v \o w \in Seq(Steps)
      BY <2>3, ConcatProperties
    <3>2. PICK vw : vw = v \o w
      OBVIOUS
    <3>3. vw \in Seq(Steps)
      BY <3>1, <3>2
    <3>4. (u \o vw) \o z = u \o (vw \o z)
      BY <3>0, <3>3, Regroup
    <3>5. (u \o v) \o w = u \o (v \o w)
      BY <2>3, <2>5, Regroup
    <3>6. (u \o v) \o w = u \o vw
      BY <3>2, <3>5
    <3>. QED
      BY <3>2, <3>4, <3>6
  <2>7. todo' = [todo EXCEPT ![t] = (u \o ((v \o w) \o z)) \o Unlock] /\ s = (((u \o v) \o w) \o z) \o Unlock
    BY <1>2, <1>10, <2>2, <2>4 DEF Locked
  <2>. QED
    BY <2>6, <2>7
<1>12. /\ s \in Seq(Steps)
       /\ ToSet(s) = {[op |-> "unlock"]} \cup {[op |-> "put", node |-> Scene, at |-> 1, ref |-> o]}
                       \cup Drops(old) \cup Incs(o)
                       \cup {[op |-> "put", node |-> o, at |-> 1, ref |-> x]} \cup Incs(x)
       /\ \A n \in Nodes : Number(s, Incs(n)) = Is(n, x) + Is(n, o)
       /\ \A n \in Nodes : Number(s, Releases(n)) = Is(n, o) + Is(n, old) + Is(n, x)
       /\ Well(s, Newborn')
  <2>1. PICK N \in SUBSET Objects : N = {o}
    BY <1>3
  <2>2. LET p == Inc(x) \o Put(o, 1, x) \o Inc(o) \o Dec(old) \o Put(Scene, 1, o) \o Unlock
        IN  /\ p \in Seq(Steps)
            /\ ToSet(p) = {[op |-> "unlock"]}
                       \cup {[op |-> "put", node |-> Scene, at |-> 1, ref |-> o]}
                       \cup Drops(old) \cup Incs(o)
                       \cup {[op |-> "put", node |-> o, at |-> 1, ref |-> x]}
                       \cup Incs(x)
            /\ \A n \in Nodes : Number(p, Incs(n)) = Is(n, x) + Is(n, o)
            /\ \A n \in Nodes : Number(p, Releases(n)) = Is(n, o) + Is(n, old) + Is(n, x)
            /\ Well(p, N)
    <3>1. x \notin N
      BY <1>7, <2>1
    <3>. QED
      BY <1>3, <1>4, <1>7, <3>1, ProgramCommitScene
  <2>. QED
    BY <1>9, <1>10, <2>1, <2>2
<1>13. /\ \A m, k : Under(m, k)' <=> (m = Scene /\ k = 1) \/ (m = o /\ k = 1)
       /\ todo' \in [Actors -> Seq(Steps)]
  <2>1. /\ \A m, k : Under(m, k)' <=> \E y \in ToSet(s) : y.op = "put" /\ y.node = m /\ y.at = k
        /\ todo' \in [Actors -> Seq(Steps)]
    BY <1>5, <1>11, <1>12, UnderCall
  <2>2. PICK y1, y2 : /\ y1 = [op |-> "put", node |-> Scene, at |-> 1, ref |-> o]
                      /\ y2 = [op |-> "put", node |-> o, at |-> 1, ref |-> x]
    OBVIOUS
  <2>3. \A y \in ToSet(s) : y.op = "put" <=> y \in {y1, y2}
    BY <1>12, <2>2 DEF Drops, Incs
  <2>4. y1 \in ToSet(s) /\ y2 \in ToSet(s)
    BY <1>12, <2>2
  <2>5. y1.node = Scene /\ y1.at = 1 /\ y2.node = o /\ y2.at = 1
    BY <2>2
  <2>. QED
    BY <2>1, <2>3, <2>4, <2>5
<1>14. Types'
  BY <1>2, <1>4, <1>5, <1>8, <1>13 DEF Types
<1>15. ASSUME NEW n \in Nodes PROVE Exact(n)' /\ Cardinality(Marked(Incs(n))') = Number(s, Incs(n))
  <2>1. IsFiniteSet(Owned(n)) /\ IsFiniteSet(Placed(n)) /\ Owned(n)' = Owned(n)
    BY <1>2 DEF IInv, Exact, Owned
  <2>2. PICK g, d : g = 0 /\ d = Is(n, old)
    OBVIOUS
  <2>3. d \in Nat /\ d = IF n = old THEN 1 ELSE 0
    BY <2>2 DEF Is
  <2>4. /\ IsFiniteSet(Placed(n)')
        /\ Cardinality(Placed(n)) = Cardinality(Placed(n)') + (IF Exists(Scene) /\ 1 \in DOMAIN fields[Scene] /\ n = fields[Scene][1] THEN 1 ELSE 0)
    <3>1. \A p, j : ~Under(p, j)
      BY <1>5, Unlocked
    <3>. QED
      BY <1>3, <1>4, <1>8, <1>13, <2>1, <3>1, PlacedDuring
  <2>5. 1 \in DOMAIN fields[Scene]
    BY <1>4
  <2>6. Cardinality(Placed(n)) = Cardinality(Placed(n)') + d
    BY <1>1, <1>4, <2>3, <2>4, <2>5
  <2>7. Number(s, Releases(n)) = Number(s, Incs(n)) + d
    BY <1>12, <2>2 DEF Is
  <2>8. g \in Nat /\ IsFiniteSet(Owned(n)') /\ Cardinality(Owned(n)') = Cardinality(Owned(n)) + g /\ count'[n] = count[n] + g
    BY <1>2, <2>1, <2>2, FS_CardinalityType DEF IInv, Types
  <2>. QED
    BY <1>2, <1>5, <1>11, <1>12, <2>3, <2>4, <2>6, <2>7, <2>8, CallExact
<1>16. ASSUME NEW y \in ToSet(s) PROVE StepOK(t, y)'
  <2>1. CASE y = [op |-> "unlock"]
    BY <1>5, <2>1 DEF StepOK
  <2>2. CASE y = [op |-> "put", node |-> Scene, at |-> 1, ref |-> o]
    <3>1. Owns(t, Scene)'
      BY DEF Owns
    <3>2. 1 \in DOMAIN fields'[Scene]
      BY <1>4, <1>8
    <3>. QED
      BY <1>3, <1>5, <2>2, <3>1, <3>2, DistinctNodes DEF StepOK
  <2>3. CASE y \in Drops(old)
    BY <2>3 DEF Drops, StepOK
  <2>4. CASE y \in Incs(o)
    BY <1>5, <1>9, <2>4 DEF Incs, StepOK
  <2>5. CASE y = [op |-> "put", node |-> o, at |-> 1, ref |-> x]
    <3>1. 1 \in DOMAIN <<None>>
      OBVIOUS
    <3>2. 1 \in DOMAIN fields'[o] /\ o # Primitive /\ o # Scene
      BY <1>3, <1>8, <3>1 DEF Handles
    <3>. QED
      BY <1>5, <1>9, <2>5, <3>2 DEF StepOK
  <2>6. CASE y \in Incs(x)
    <3>1. y.node = x /\ y.op = "inc" /\ x \in Nodes
      BY <2>6 DEF Incs, Steps
    <3>2. <<Scene, 2>> \in Refs(x)'
      BY <1>6, <1>8, <3>1
    <3>3. ~Under(Scene, 2)'
      BY <1>3, <1>13
    <3>4. <<Scene, 2>> \in Placed(x)'
      BY <3>2, <3>3 DEF Placed
    <3>5. Kept(t, x)'
      BY <3>4 DEF Kept
    <3>. QED
      BY <1>5, <3>1, <3>5 DEF StepOK
  <2>. QED
    BY <1>12, <2>1, <2>2, <2>3, <2>4, <2>5, <2>6
<1>17. \A n \in Nodes : Exists(n)' => Exists(n) \/ (n \in Objects /\ Number(s, Incs(n)) # 0)
  BY <1>3, <1>7, <1>8, <1>12 DEF Is
<1>18. \A n \in Nodes : count'[n] >= count[n] /\ count'[n] = count[n]
  BY <1>2 DEF IInv, Types
<1>19. [op |-> "unlock"] \in ToSet(s)
  BY <1>12
<1>20. /\ \A n \in Nodes : count'[n] >= count[n] /\ (count'[n] > count[n] => Exists(n)')
       /\ \A n \in Nodes : Exists(n) => Exists(n)'
       /\ Exists(Primitive) => fields'[Primitive] = fields[Primitive]
       /\ Exists(Primitive)' => Exists(Primitive) \/ Under(Primitive, 1)'
  BY <1>3, <1>8, <1>18, DistinctNodes DEF IInv, Types
<1>. QED
  BY <1>2, <1>5, <1>11, <1>12, <1>14, <1>15, <1>16, <1>17, <1>19, <1>20, CallKeeps

\* rtSetPrimitive.
LEMMA SetPrimitiveKeeps ==
  ASSUME IInv, NEW t \in Threads, SetPrimitive(t)
  PROVE  IInv'
<1>1. PICK shape, old : shape = fields[fields[Primitive][1]][1] /\ old = fields[Scene][2]
  OBVIOUS
<1>2. PICK o \in NewObjects :
        /\ owns[t][Primitive] > 0
        /\ Locked(t, Inc(Primitive) \o Inc(shape) \o Inc(shape) \o Put(o, 1, shape)
                     \o (Inc(o) \o Dec(old) \o Put(Scene, 2, o)) \o Dec(shape) \o Dec(Primitive))
        /\ fields' = [fields EXCEPT ![o] = <<None>>] /\ UNCHANGED <<count, owns, job>>
  BY <1>1 DEF SetPrimitive, Assign, Slot
<1>3. o \in Objects /\ ~Exists(o) /\ count[o] = 0 /\ o \in Nodes \ {Scene} /\ o \notin Handles
  BY DistinctNodes DEF NewObjects, Unborn, Handles
<1>4. /\ Exists(Scene) /\ Scene \in Nodes /\ Types
      /\ fields[Scene] \in Seq(Nodes \cup {None}) /\ Len(fields[Scene]) = 2
      /\ old \in Objects \cup {None} /\ Objects \subseteq Nodes
  BY <1>1, DistinctNodes, FieldsTypes DEF IInv, Types
<1>5. Idle(t) /\ mutex = None /\ mutex' = t
  BY <1>2 DEF Locked
<1>6. /\ Exists(Primitive) /\ Primitive \in Handles /\ Primitive \in Nodes /\ Owns(t, Primitive)
      /\ Shape \in Handles /\ Shape \in Nodes
  <2>1. Primitive \in Handles /\ Primitive \in Nodes /\ Shape \in Handles /\ Shape \in Nodes
    BY DEF Handles, Nodes
  <2>. QED
    BY <1>2, <2>1, OwnedExists
<1>7. fields[Primitive] = <<Shape>> /\ <<Primitive, 1>> \in Refs(Shape) /\ <<Primitive, 1>> \in Placed(Shape)
  <2>1. fields[Primitive] = <<Shape>>
    BY <1>5, <1>6, Unlocked DEF IInv, PrimitivesHaveShapes
  <2>2. 1 \in DOMAIN <<Shape>> /\ <<Shape>>[1] = Shape
    OBVIOUS
  <2>3. <<Primitive, 1>> \in Refs(Shape)
    BY <1>6, <2>1, <2>2 DEF Refs
  <2>. QED
    BY <1>5, <1>6, <2>1, <2>3, Unlocked
<1>8. /\ Exists(Shape) /\ shape = fields[Shape][1] /\ shape \in Nodes \cup {None}
      /\ fields[Shape] \in Seq(Nodes \cup {None}) /\ Len(fields[Shape]) = 1
  <2>1. Exists(Shape)
    BY <1>6, <1>7, PlacedExists
  <2>2. fields[Shape] \in Seq(Nodes \cup {None}) /\ Len(fields[Shape]) = 1
    BY <1>4, <1>6, <2>1, FieldsTypes DEF Types
  <2>3. shape = fields[Shape][1]
    BY <1>1, <1>7
  <2>. QED
    BY <2>1, <2>2, <2>3
<1>9. shape \in Nodes => <<Shape, 1>> \in Refs(shape) /\ <<Shape, 1>> \in Placed(shape)
  <2>1. 1 \in DOMAIN fields[Shape]
    BY <1>8
  <2>2. shape \in Nodes => <<Shape, 1>> \in Refs(shape)
    BY <1>6, <1>8, <2>1 DEF Refs
  <2>. QED
    BY <1>5, <2>2, Unlocked
<1>10. shape # o
  BY <1>3, <1>9, PlacedExists
<1>11. /\ fields' \in [Nodes -> Seq(Nodes \cup {None}) \cup {None}]
       /\ Exists(Scene)' /\ Len(fields'[Scene]) = 2
       /\ \A k \in {1, 2} : fields'[Scene][k] \in Objects \cup {None}
       /\ \A h \in Handles : Exists(h)' => Len(fields'[h]) = 1
       /\ \A p \in Objects : Exists(p)' => Len(fields'[p]) <= 1
       /\ \A n \in Nodes : Exists(n)' <=> Exists(n) \/ n = o
       /\ \A n \in Nodes : Exists(n) => fields'[n] = fields[n]
       /\ fields'[o] = <<None>>
       /\ \A n \in Nodes : Refs(n)' = Refs(n)
  BY <1>2, <1>3, <1>4, NewNode
<1>12. Newborn' = {o}
  BY <1>2, <1>3, <1>5, <1>11, OnlyNewborn
<1>13. PICK s : s = Inc(Primitive) \o Inc(shape) \o Inc(shape) \o Put(o, 1, shape) \o Inc(o) \o Dec(old)
                      \o Put(Scene, 2, o) \o Dec(shape) \o Dec(Primitive) \o Unlock
  OBVIOUS
<1>14. todo' = [todo EXCEPT ![t] = s]
  <2>1. /\ Inc(Primitive) \in Seq(Steps) /\ Inc(shape) \in Seq(Steps) /\ Put(o, 1, shape) \in Seq(Steps)
        /\ Inc(o) \in Seq(Steps) /\ Dec(old) \in Seq(Steps) /\ Put(Scene, 2, o) \in Seq(Steps)
    BY <1>3, <1>4, <1>6, <1>8, PieceTypes
  <2>2. PICK a, b, c, v, w, z :
          /\ a = Inc(Primitive) /\ b = Inc(shape) /\ c = Put(o, 1, shape)
          /\ v = Inc(o) /\ w = Dec(old) /\ z = Put(Scene, 2, o)
    OBVIOUS
  <2>3. /\ a \in Seq(Steps) /\ b \in Seq(Steps) /\ c \in Seq(Steps)
        /\ v \in Seq(Steps) /\ w \in Seq(Steps) /\ z \in Seq(Steps)
    BY <2>1, <2>2
  <2>4. PICK u : u = a \o b \o b \o c
    OBVIOUS
  <2>5. u \in Seq(Steps)
    <3>1. a \o b \in Seq(Steps)
      BY <2>3, ConcatProperties
    <3>2. a \o b \o b \in Seq(Steps)
      BY <2>3, <3>1, ConcatProperties
    <3>. QED
      BY <2>3, <2>4, <3>2, ConcatProperties
  <2>6. u \o ((v \o w) \o z) = ((u \o v) \o w) \o z
    <3>0. u \in Seq(Steps) /\ z \in Seq(Steps)
      BY <2>3, <2>5
    <3>1. v \o w \in Seq(Steps)
      BY <2>3, ConcatProperties
    <3>2. PICK vw : vw = v \o w
      OBVIOUS
    <3>3. vw \in Seq(Steps)
      BY <3>1, <3>2
    <3>4. (u \o vw) \o z = u \o (vw \o z)
      BY <3>0, <3>3, Regroup
    <3>5. (u \o v) \o w = u \o (v \o w)
      BY <2>3, <2>5, Regroup
    <3>6. (u \o v) \o w = u \o vw
      BY <3>2, <3>5
    <3>. QED
      BY <3>2, <3>4, <3>6
  <2>7. /\ todo' = [todo EXCEPT ![t] =
                     (((u \o ((v \o w) \o z)) \o Dec(shape)) \o Dec(Primitive)) \o Unlock]
        /\ s = (((((u \o v) \o w) \o z) \o Dec(shape)) \o Dec(Primitive)) \o Unlock
    BY <1>2, <1>13, <2>2, <2>4 DEF Locked
  <2>. QED
    BY <2>6, <2>7
<1>15. /\ s \in Seq(Steps)
       /\ ToSet(s) = {[op |-> "unlock"]} \cup Drops(Primitive) \cup Drops(shape)
                       \cup {[op |-> "put", node |-> Scene, at |-> 2, ref |-> o]}
                       \cup Drops(old) \cup Incs(o)
                       \cup {[op |-> "put", node |-> o, at |-> 1, ref |-> shape]}
                       \cup Incs(shape) \cup Incs(shape) \cup Incs(Primitive)
       /\ \A n \in Nodes : Number(s, Incs(n)) = Is(n, Primitive) + Is(n, shape) + Is(n, shape) + Is(n, o)
       /\ \A n \in Nodes : Number(s, Releases(n))
             = Is(n, Primitive) + Is(n, shape) + Is(n, o) + Is(n, old) + Is(n, shape)
       /\ Well(s, Newborn')
  <2>1. PICK N \in SUBSET Objects : N = {o}
    BY <1>3
  <2>2. LET p == Inc(Primitive) \o Inc(shape) \o Inc(shape) \o Put(o, 1, shape) \o Inc(o) \o Dec(old) \o Put(Scene, 2, o) \o Dec(shape) \o Dec(Primitive) \o Unlock
        IN  /\ p \in Seq(Steps)
            /\ ToSet(p) = {[op |-> "unlock"]} \cup Drops(Primitive) \cup Drops(shape)
                       \cup {[op |-> "put", node |-> Scene, at |-> 2, ref |-> o]}
                       \cup Drops(old) \cup Incs(o)
                       \cup {[op |-> "put", node |-> o, at |-> 1, ref |-> shape]}
                       \cup Incs(shape) \cup Incs(shape) \cup Incs(Primitive)
            /\ \A n \in Nodes : Number(p, Incs(n)) = Is(n, Primitive) + Is(n, shape) + Is(n, shape) + Is(n, o)
            /\ \A n \in Nodes : Number(p, Releases(n))
                  = Is(n, Primitive) + Is(n, shape) + Is(n, o) + Is(n, old) + Is(n, shape)
            /\ Well(p, N)
    <3>1. shape \notin N
      BY <1>10, <2>1
    <3>. QED
      BY <1>3, <1>4, <1>8, <1>10, <3>1, ProgramSetPrimitive
  <2>. QED
    BY <1>12, <1>13, <2>1, <2>2
<1>16. /\ \A m, k : Under(m, k)' <=> (m = Scene /\ k = 2) \/ (m = o /\ k = 1)
       /\ todo' \in [Actors -> Seq(Steps)]
  <2>1. /\ \A m, k : Under(m, k)' <=> \E y \in ToSet(s) : y.op = "put" /\ y.node = m /\ y.at = k
        /\ todo' \in [Actors -> Seq(Steps)]
    BY <1>5, <1>14, <1>15, UnderCall
  <2>2. PICK y1, y2 : /\ y1 = [op |-> "put", node |-> Scene, at |-> 2, ref |-> o]
                      /\ y2 = [op |-> "put", node |-> o, at |-> 1, ref |-> shape]
    OBVIOUS
  <2>3. \A y \in ToSet(s) : y.op = "put" <=> y \in {y1, y2}
    BY <1>15, <2>2 DEF Drops, Incs
  <2>4. y1 \in ToSet(s) /\ y2 \in ToSet(s)
    BY <1>15, <2>2
  <2>5. y1.node = Scene /\ y1.at = 2 /\ y2.node = o /\ y2.at = 1
    BY <2>2
  <2>. QED
    BY <2>1, <2>3, <2>4, <2>5
<1>17. Types'
  BY <1>2, <1>4, <1>5, <1>11, <1>16 DEF Types
<1>18. ASSUME NEW n \in Nodes PROVE Exact(n)' /\ Cardinality(Marked(Incs(n))') = Number(s, Incs(n))
  <2>1. IsFiniteSet(Owned(n)) /\ IsFiniteSet(Placed(n)) /\ Owned(n)' = Owned(n)
    BY <1>2 DEF IInv, Exact, Owned
  <2>2. PICK g, d : g = 0 /\ d = Is(n, old)
    OBVIOUS
  <2>3. d \in Nat /\ d = IF n = old THEN 1 ELSE 0
    BY <2>2 DEF Is
  <2>4. /\ IsFiniteSet(Placed(n)')
        /\ Cardinality(Placed(n)) = Cardinality(Placed(n)') + (IF Exists(Scene) /\ 2 \in DOMAIN fields[Scene] /\ n = fields[Scene][2] THEN 1 ELSE 0)
    <3>1. \A p, j : ~Under(p, j)
      BY <1>5, Unlocked
    <3>. QED
      BY <1>3, <1>4, <1>11, <1>16, <2>1, <3>1, PlacedDuring
  <2>5. 2 \in DOMAIN fields[Scene]
    BY <1>4
  <2>6. Cardinality(Placed(n)) = Cardinality(Placed(n)') + d
    BY <1>1, <1>4, <2>3, <2>4, <2>5
  <2>7. Number(s, Releases(n)) = Number(s, Incs(n)) + d
    BY <1>15, <2>2 DEF Is
  <2>8. g \in Nat /\ IsFiniteSet(Owned(n)') /\ Cardinality(Owned(n)') = Cardinality(Owned(n)) + g /\ count'[n] = count[n] + g
    BY <1>2, <2>1, <2>2, FS_CardinalityType DEF IInv, Types
  <2>. QED
    BY <1>2, <1>5, <1>14, <1>15, <2>3, <2>4, <2>6, <2>7, <2>8, CallExact
<1>19. ASSUME NEW y \in ToSet(s) PROVE StepOK(t, y)'
  <2>1. CASE y = [op |-> "unlock"]
    BY <1>5, <2>1 DEF StepOK
  <2>2. CASE y = [op |-> "put", node |-> Scene, at |-> 2, ref |-> o]
    <3>1. Owns(t, Scene)'
      BY DEF Owns
    <3>2. 2 \in DOMAIN fields'[Scene]
      BY <1>4, <1>11
    <3>. QED
      BY <1>3, <1>5, <2>2, <3>1, <3>2, DistinctNodes DEF StepOK
  <2>3. CASE y \in Drops(old) \cup Drops(shape) \cup Drops(Primitive)
    BY <2>3 DEF Drops, StepOK
  <2>4. CASE y \in Incs(o)
    BY <1>5, <1>12, <2>4 DEF Incs, StepOK
  <2>5. CASE y = [op |-> "put", node |-> o, at |-> 1, ref |-> shape]
    <3>1. 1 \in DOMAIN <<None>>
      OBVIOUS
    <3>2. 1 \in DOMAIN fields'[o] /\ o # Primitive /\ o # Scene
      BY <1>3, <1>11, <3>1 DEF Handles
    <3>. QED
      BY <1>5, <1>12, <2>5, <3>2 DEF StepOK
  <2>6. CASE y \in Incs(shape)
    <3>1. y.node = shape /\ y.op = "inc" /\ shape \in Nodes
      BY <2>6 DEF Incs, Steps
    <3>2. <<Shape, 1>> \in Refs(shape)' /\ <<Primitive, 1>> \in Refs(Shape)'
      BY <1>6, <1>7, <1>9, <1>11, <3>1
    <3>3. ~Under(Shape, 1)' /\ ~Under(Primitive, 1)'
      BY <1>3, <1>6, <1>16, DistinctNodes
    <3>4. <<Shape, 1>> \in Placed(shape)' /\ <<Primitive, 1>> \in Placed(Shape)'
      BY <3>2, <3>3 DEF Placed
    <3>5. Owns(t, Primitive)'
      BY <1>2, <1>6 DEF Owns
    <3>6. Kept(t, shape)'
      BY <3>4, <3>5 DEF Kept
    <3>. QED
      BY <1>5, <3>1, <3>6 DEF StepOK
  <2>7. CASE y \in Incs(Primitive)
    <3>1. Owns(t, Primitive)'
      BY <1>2, <1>6 DEF Owns
    <3>2. Kept(t, Primitive)'
      BY <3>1 DEF Kept
    <3>. QED
      BY <1>5, <2>7, <3>2 DEF Incs, StepOK
  <2>. QED
    BY <1>15, <2>1, <2>2, <2>3, <2>4, <2>5, <2>6, <2>7
<1>20. \A n \in Nodes : Exists(n)' => Exists(n) \/ (n \in Objects /\ Number(s, Incs(n)) # 0)
  <2>1. Number(s, Incs(o)) = 0 + 0 + 0 + 1
    <3>1. o # Primitive
      BY <1>3, <1>6
    <3>. QED
      BY <1>3, <1>10, <1>15, <3>1 DEF Is
  <2>. QED
    BY <1>3, <1>11, <2>1
<1>21. \A n \in Nodes : count'[n] >= count[n] /\ count'[n] = count[n]
  BY <1>2 DEF IInv, Types
<1>22. [op |-> "unlock"] \in ToSet(s)
  BY <1>15
<1>23. /\ \A n \in Nodes : count'[n] >= count[n] /\ (count'[n] > count[n] => Exists(n)')
       /\ \A n \in Nodes : Exists(n) => Exists(n)'
       /\ Exists(Primitive) => fields'[Primitive] = fields[Primitive]
       /\ Exists(Primitive)' => Exists(Primitive) \/ Under(Primitive, 1)'
  BY <1>3, <1>6, <1>11, <1>21 DEF IInv, Types
<1>. QED
  BY <1>2, <1>5, <1>14, <1>15, <1>17, <1>18, <1>19, <1>20, <1>22, <1>23, CallKeeps

(***************************************************************************)
(* The invariant holds in every state.                                     *)
(***************************************************************************)
LEMMA EmptyCall == \A N : Well(<<>>, N) /\ ToSet(<<>>) = {} /\ <<>> \in Seq(Steps)
<1>1. \A k \in 0 .. Len(<<>>) : After(<<>>, k) = <<>>
  BY DEF After
<1>2. Covered(<<>>)
  BY NumberEmpty DEF Covered
<1>. QED
  BY <1>1, <1>2 DEF Well, ToSet

LEMMA InitHolds == Init => IInv
<1>. SUFFICES ASSUME Init PROVE IInv
  OBVIOUS
<1>1. /\ \A n \in Nodes : count[n] = (IF n = Scene THEN 1 ELSE 0)
      /\ \A n \in Nodes : fields[n] = (IF n = Scene THEN <<None, None>> ELSE None)
      /\ \A t \in Threads, h \in Handles : owns[t][h] = 0
      /\ mutex = None /\ job = None
      /\ \A a \in Actors : todo[a] = <<>>
      /\ count \in [Nodes -> Nat] /\ owns \in [Threads -> [Handles -> 0 .. MaxOwned]]
      /\ todo \in [Actors -> Seq(Steps)]
  BY EmptyCall, HandleRefsAssumption DEF Init
<1>2. /\ <<None, None>> \in Seq(Nodes \cup {None}) /\ Len(<<None, None>>) = 2
      /\ \A k \in {1, 2} : <<None, None>>[k] = None
  OBVIOUS
<1>3. \A n \in Nodes : Exists(n) <=> n = Scene
  <2>1. <<None, None>> # None
    <3>1. PICK q : q = <<None, None>>
      OBVIOUS
    <3>2. q \in Seq(Nodes \cup {None}) /\ Len(q) <= 2
      BY <1>2, <3>1
    <3>3. q # None
      BY <3>2, TuplesAreNotNone
    <3>. QED
      BY <3>1, <3>3
  <2>. QED
    BY <1>1, <2>1 DEF Exists
<1>4. Types
  <2>1. fields \in [Nodes -> Seq(Nodes \cup {None}) \cup {None}]
    BY <1>2 DEF Init
  <2>2. Exists(Scene) /\ fields[Scene] = <<None, None>>
    BY <1>1, <1>3, DistinctNodes
  <2>3. (\A h \in Handles : ~Exists(h)) /\ \A o \in Objects : ~Exists(o)
    BY <1>3, DistinctNodes DEF Nodes, Handles
  <2>. QED
    BY <1>1, <1>2, <2>1, <2>2, <2>3 DEF Types
<1>5. /\ \A T : Marked(T) = {}
      /\ \A m, k : ~Under(m, k)
  BY <1>1, EmptyCall DEF Marked, Under
<1>6. ASSUME NEW n \in Nodes PROVE Exact(n)
  <2>1. Owned(n) = {}
    <3>1. \A x \in Threads \X (1 .. MaxOwned) : x[1] \in Threads /\ x[2] \in Nat /\ x[2] >= 1
      BY HandleRefsAssumption
    <3>. QED
      BY <1>1, <3>1 DEF Owned
  <2>2. Refs(n) = {}
    <3>1. ASSUME NEW x \in Refs(n) PROVE FALSE
      <4>1. x[2] \in {1, 2} /\ Exists(x[1]) /\ fields[x[1]][x[2]] = n /\ x[1] \in Nodes
        BY DEF Refs
      <4>2. fields[x[1]] = <<None, None>>
        BY <1>1, <1>3, <4>1
      <4>. QED
        BY <1>2, <4>1, <4>2, NoneIsNoNode
    <3>. QED
      BY <3>1
  <2>3. Placed(n) = {}
    BY <2>2 DEF Placed
  <2>4. job # <<n>>
    BY <1>1, TuplesAreNotNone
  <2>5. IsFiniteSet({}) /\ Cardinality({}) = 0
    BY FS_EmptySet
  <2>6. /\ Cardinality(Owned(n)) = 0 /\ Cardinality(Placed(n)) = 0
        /\ Cardinality(Marked(Incs(n))) = 0 /\ Cardinality(Marked(Releases(n))) = 0
        /\ IsFiniteSet(Owned(n)) /\ IsFiniteSet(Placed(n))
        /\ IsFiniteSet(Marked(Incs(n))) /\ IsFiniteSet(Marked(Releases(n)))
    BY <1>5, <2>1, <2>3, <2>5
  <2>7. Held(n) = (IF n = Scene THEN 1 ELSE 0) + 0 + 0 + 0
    BY <2>4, <2>6 DEF Held
  <2>8. count[n] + 0 = Held(n) + 0
    BY <1>1, <2>7
  <2>. QED
    BY <2>6, <2>8 DEF Exact
<1>7. Alive
  BY <1>1, <1>3 DEF Alive
<1>8. PrimitivesHaveShapes
  BY <1>3, DistinctNodes DEF PrimitivesHaveShapes
<1>9. Control
  BY <1>1, EmptyCall DEF Control, Actors
<1>. QED
  BY <1>4, <1>6, <1>7, <1>8, <1>9 DEF IInv

LEMMA StepKeeps == IInv /\ [Next]_vars => IInv'
<1>. SUFFICES ASSUME IInv, [Next]_vars PROVE IInv'
  OBVIOUS
<1>1. ASSUME NEW t \in Threads, NewShape(t) PROVE IInv'
  BY <1>1, NewShapeKeeps
<1>2. ASSUME NEW t \in Threads, NewPrimitive(t) PROVE IInv'
  BY <1>2, NewPrimitiveKeeps
<1>3. ASSUME NEW t \in Threads, CommitShape(t) PROVE IInv'
  BY <1>3, CommitShapeKeeps
<1>4. ASSUME NEW t \in Threads, SetPrimitive(t) PROVE IInv'
  BY <1>4, SetPrimitiveKeeps
<1>5. ASSUME NEW t \in Threads, CommitScene(t) PROVE IInv'
  BY <1>5, CommitSceneKeeps
<1>6. ASSUME NEW t \in Threads, RenderFrame(t) PROVE IInv'
  BY <1>6, RenderFrameKeeps
<1>7. ASSUME NEW t \in Threads, NEW h \in Handles, DecRef(t, h) PROVE IInv'
  BY <1>7, DecRefKeeps
<1>8. ASSUME NEW t \in Threads, NEW h \in Handles, NEW u \in Threads, IncRef(t, u, h) PROVE IInv'
  BY <1>8, IncRefKeeps
<1>9. CASE FinishJob
  BY <1>9, FinishJobKeeps
<1>10. CASE JobGone
  BY <1>10, JobGoneKeeps
<1>11. ASSUME NEW a \in Actors, RefInc(a) PROVE IInv'
  BY <1>11, RefIncKeeps
<1>12. ASSUME NEW a \in Actors, RefDec(a) PROVE IInv'
  BY <1>12, RefDecKeeps
<1>13. ASSUME NEW a \in Actors, PutRef(a) PROVE IInv'
  BY <1>13, PutRefKeeps
<1>14. ASSUME NEW a \in Actors, StartJob(a) PROVE IInv'
  BY <1>14, StartJobKeeps
<1>15. ASSUME NEW a \in Actors, Waited(a) PROVE IInv'
  BY <1>15, WaitedKeeps
<1>16. ASSUME NEW a \in Actors, UnlockMutex(a) PROVE IInv'
  BY <1>16, UnlockMutexKeeps
<1>17. CASE UNCHANGED vars
  <2>1. UNCHANGED <<count, fields, owns, mutex, job, todo>>
    BY <1>17 DEF vars
  <2>2. /\ \A T : Marked(T)' = Marked(T)
        /\ \A m, k : Under(m, k)' = Under(m, k)
        /\ \A b, op : Has(b, op)' = Has(b, op)
    BY <2>1, MarkedSame
  <2>3. \A n : Owned(n)' = Owned(n) /\ Placed(n)' = Placed(n) /\ Held(n)' = Held(n)
    BY <2>1, <2>2, HeldSame
  <2>4. Newborn' = Newborn /\ \A b, y : StepOK(b, y)' = StepOK(b, y)
    BY <2>1, <2>2, StepsSame
  <2>5. Types' /\ Alive' /\ PrimitivesHaveShapes'
    BY <2>1, <2>2 DEF IInv, Types, Alive, PrimitivesHaveShapes, Exists
  <2>6. Control'
    BY <2>1, <2>2, <2>4 DEF IInv, Control
  <2>7. \A n \in Nodes : Exact(n)'
    BY <2>1, <2>2, <2>3 DEF IInv, Exact
  <2>. QED
    BY <2>5, <2>6, <2>7 DEF IInv
<1>. QED
  BY <1>1, <1>2, <1>3, <1>4, <1>5, <1>6, <1>7, <1>8, <1>9, <1>10, <1>11, <1>12, <1>13, <1>14, <1>15, <1>16, <1>17
     DEF Next

\* Every counter is right at every step, whatever is left of the calls.
THEOREM Invariance == Spec => []IInv
<1>1. Init => IInv
  BY InitHolds
<1>2. IInv /\ [Next]_vars => IInv'
  BY StepKeeps
<1>. QED
  BY <1>1, <1>2, PTL DEF Spec

(***************************************************************************)
(* What it says of the program.                                            *)
(***************************************************************************)
LEMMA NobodyUsesDeleted == IInv => NoUseAfterDelete
<1>. SUFFICES ASSUME IInv, NEW a \in Actors, Does(a, "inc") \/ Does(a, "dec") \/ Does(a, "put")
              PROVE  Exists(Head(todo[a]).node)
  BY DEF NoUseAfterDelete
<1>1. PICK x : x = Head(todo[a])
  OBVIOUS
<1>2. x \in Steps /\ StepOK(a, x) /\ x.op \in {"inc", "dec", "put"}
  BY <1>1, NextStep DEF Does, IInv
<1>3. x.node \in Nodes
  BY <1>2 DEF Steps
<1>4. CASE x.op = "dec"
  <2>1. /\ count[x.node] >= Held(x.node) + 1 /\ Held(x.node) \in Nat /\ count[x.node] \in Nat
    BY <1>1, <1>2, <1>3, <1>4, CountHolds, HeldType DEF IInv, Does
  <2>. QED
    BY <1>1, <1>3, <2>1 DEF IInv, Alive
<1>5. CASE x.op \in {"inc", "put"}
  <2>1. Kept(a, x.node) \/ x.node \in Newborn
    BY <1>2, <1>5 DEF StepOK, Kept
  <2>. QED
    BY <1>1, <1>3, <2>1, KeptExists DEF IInv, Newborn
<1>. QED
  BY <1>2, <1>4, <1>5

LEMMA UsersKeep == IInv => UsersKeepAlive
<1>. SUFFICES ASSUME IInv PROVE UsersKeepAlive
  OBVIOUS
<1>1. \A t \in Threads, h \in Handles : owns[t][h] > 0 => Exists(h)
  BY OwnedExists
<1>2. ASSUME job # None, NEW o \in ToSet(job) PROVE Exists(o)
  <2>1. ToSet(<<>>) = {} /\ \A n : ToSet(<<n>>) = {n}
    BY DEF ToSet
  <2>2. o \in Objects /\ job = <<o>>
    BY <1>2, <2>1 DEF IInv, Types
  <2>3. o \in Nodes
    BY <2>2 DEF Nodes
  <2>4. Held(o) >= 1 /\ Held(o) \in Nat /\ count[o] >= Held(o) /\ count[o] \in Nat
    BY <2>2, <2>3, HeldType, CountHolds DEF IInv
  <2>. QED
    BY <2>3, <2>4 DEF IInv, Alive
<1>3. ASSUME Quiet, NEW n \in Nodes, Exists(n), NEW m \in ToSet(fields[n]) \ {None} PROVE Exists(m)
  <2>1. mutex = None
    BY <1>3, EmptyCall DEF IInv, Control, Types, Quiet, Idle, Has, Actors
  <2>2. /\ fields[n] \in Seq(Nodes \cup {None}) /\ DOMAIN fields[n] = 1 .. Len(fields[n])
        /\ Len(fields[n]) \in Nat /\ Len(fields[n]) <= 2
    BY <1>3, FieldsTypes DEF IInv
  <2>3. PICK k \in DOMAIN fields[n] : m = fields[n][k]
    BY DEF ToSet
  <2>4. m \in Nodes /\ k \in {1, 2}
    BY <2>2, <2>3
  <2>5. <<n, k>> \in Refs(m)
    BY <1>3, <2>3, <2>4 DEF Refs
  <2>. QED
    BY <2>1, <2>4, <2>5, Unlocked, PlacedExists
<1>. QED
  BY <1>1, <1>2, <1>3 DEF UsersKeepAlive

LEMMA CountsExact == IInv => CountsAreExact
<1>. SUFFICES ASSUME IInv PROVE CountsAreExact
  OBVIOUS
<1>1. TypeOK
  <2>1. \A n \in Nodes : Exists(n) => ToSet(fields[n]) \subseteq Nodes \cup {None}
    <3>1. ASSUME NEW n \in Nodes, Exists(n) PROVE ToSet(fields[n]) \subseteq Nodes \cup {None}
      BY <3>1, FieldsTypes DEF IInv, ToSet
    <3>. QED
      BY <3>1
  <2>2. job = None \/ ToSet(job) \subseteq Objects
    BY DEF IInv, Types, ToSet
  <2>3. \A h \in Handles \cup {Scene} : Exists(h) <=> count[h] > 0
    <3>1. \A h \in Handles \cup {Scene} : h \in Nodes /\ h \notin Objects
      BY DistinctNodes DEF Handles, Nodes
    <3>. QED
      BY <3>1 DEF IInv, Types, Alive
  <2>. QED
    BY <2>1, <2>2, <2>3 DEF TypeOK, IInv, Types
<1>2. ASSUME Quiet, job = None, NEW n \in Nodes
      PROVE  count[n] = Referers(n) /\ (Exists(n) <=> count[n] > 0)
  <2>1. mutex = None
    BY <1>2, EmptyCall DEF IInv, Control, Types, Quiet, Idle, Has, Actors
  <2>2. Marked(Incs(n)) = {} /\ Marked(Releases(n)) = {}
    BY <1>2 DEF Marked, Quiet, Idle
  <2>3. Placed(n) = Refs(n) /\ Newborn = {}
    BY <2>1, Unlocked
  <2>4. /\ count[n] + Cardinality(Marked(Incs(n))) = Held(n) + Cardinality(Marked(Releases(n)))
        /\ count[n] \in Nat /\ Held(n) \in Nat /\ IsFiniteSet(Owned(n)) /\ IsFiniteSet(Placed(n))
    BY HeldType DEF IInv, Exact, Types
  <2>5. job # <<n>>
    BY <1>2, TuplesAreNotNone
  <2>6. Cardinality(Owned(n)) \in Nat /\ Cardinality(Placed(n)) \in Nat
    BY <2>4, FS_CardinalityType
  <2>7. Held(n) = Referers(n)
    BY <2>3, <2>5, <2>6 DEF Held, Referers
  <2>8. count[n] = Held(n)
    BY <2>2, <2>4, FS_EmptySet
  <2>9. Exists(n) <=> count[n] > 0
    BY <2>3, <2>4 DEF IInv, Alive, Newborn
  <2>. QED
    BY <2>7, <2>8, <2>9
<1>. QED
  BY <1>1, <1>2 DEF CountsAreExact

\* Nobody changes the counter of a node that was deleted, or writes to it, for
\* any number of threads, handles and objects and any order of their steps.
THEOREM DeletedIsNotUsed == Spec => []NoUseAfterDelete
BY Invariance, NobodyUsesDeleted, PTL

\* What a thread has a reference to, what a job renders and what is inside an
\* existing node exists.
THEOREM UsedExists == Spec => []UsersKeepAlive
BY Invariance, UsersKeep, PTL

\* When nobody is in a call every counter is the number of Refs and references
\* there are, and nothing without any is left.
THEOREM NothingLeaks == Spec => []CountsAreExact
BY Invariance, CountsExact, PTL
=============================================================================
