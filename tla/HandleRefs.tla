----------------------------- MODULE HandleRefs -----------------------------
(***************************************************************************)
(* Reference counting in the single-ray device.  Handles and objects carry *)
(* an atomic counter; a Ref increments the counter of what it is set to    *)
(* before it decrements that of what it was set to, and whoever brings a   *)
(* counter to zero deletes the node, which releases the Refs inside it.    *)
(* The calls of the interface take the mutex of the device, but rtIncRef   *)
(* and rtDecRef do not, and the last worker of a frame deletes the job,    *)
(* which holds Refs as well: counters are changed by several threads.      *)
(*                                                                         *)
(* One shape, one primitive of it, and the scene stand for all handles:    *)
(* they hold Refs to objects, to other handles, and to both.               *)
(***************************************************************************)
EXTENDS Integers, Sequences, SequencesExt, FiniteSets, TLC

CONSTANTS
  Threads,     (* the threads of the application                            *)
  Shape, Primitive, Scene,  (* the handles                                  *)
  Worker,      (* the worker that finishes a frame                          *)
  MaxObjects,  (* bound: the number of objects that exist at a time         *)
  MaxOwned,    (* bound: the references of a thread to a handle             *)
  None         (* a null Ref, nobody                                        *)

(* The handles differ from each other, and nothing is a null Ref but None.   *)
ASSUME HandleRefsAssumption ==
  /\ {Shape, Primitive, Scene} \cap Nat = {}
  /\ Shape # Primitive /\ Scene \notin {Shape, Primitive}
  /\ MaxObjects \in Nat /\ MaxOwned \in Nat \ {0}
  /\ Worker \notin Threads /\ None \notin Threads \cup {Worker}
  /\ None \notin {Shape, Primitive, Scene} \cup 1 .. MaxObjects
  /\ \A n \in 0 .. 2 :
       None \notin [1 .. n -> {Shape, Primitive, Scene, None} \cup 1 .. MaxObjects]

VARIABLES
  count,    (* refCounter of every node                                     *)
  fields,   (* the Refs inside a node; None: the node does not exist        *)
  owns,     (* how many references a thread may use and release             *)
  mutex,    (* who is inside a call that takes the mutex                    *)
  job,      (* the Refs of the job being rendered, None without a job       *)
  todo      (* the rest of the call of a thread, or of finish()             *)

vars == <<count, fields, owns, mutex, job, todo>>

Handles == {Shape, Primitive}
Objects == 1 .. MaxObjects
Nodes == Handles \cup {Scene} \cup Objects
Actors == Threads \cup {Worker}

Exists(n) == fields[n] # None

\* The fields of a scene handle: the committed scene, and its only slot.
Instance == 1
Slot == 2

Init ==
  /\ count = [n \in Nodes |-> IF n = Scene THEN 1 ELSE 0]
  /\ fields = [n \in Nodes |-> IF n = Scene THEN <<None, None>> ELSE None]
  /\ owns = [t \in Threads |-> [h \in Handles |-> 0]]
  /\ mutex = None
  /\ job = None
  /\ todo = [a \in Actors |-> <<>>]

(***************************************************************************)
(* What a call consists of, as the steps that other threads can see.       *)
(***************************************************************************)
Inc(n) == IF n = None THEN <<>> ELSE <<[op |-> "inc", node |-> n]>>
Dec(n) == IF n = None THEN <<>> ELSE <<[op |-> "dec", node |-> n]>>
Decs(seq) == FlattenSeq([k \in DOMAIN seq |-> Dec(seq[k])])
Put(n, k, m) == <<[op |-> "put", node |-> n, at |-> k, ref |-> m]>>
Unlock == <<[op |-> "unlock"]>>

\* Ref& operator= for the k-th Ref of node n.
Assign(n, k, m) == Inc(m) \o Dec(fields[n][k]) \o Put(n, k, m)

Idle(t) == todo[t] = <<>>
Unborn(S) == {n \in S : ~Exists(n) /\ count[n] = 0}

\* Where a new object may be: the addresses stand for each other.
NewObjects == {o \in Unborn(Objects) : \A n \in Unborn(Objects) : o <= n}

\* A call that takes the mutex, and what it does until it unlocks.
Locked(t, steps) ==
  /\ Idle(t)
  /\ mutex = None
  /\ mutex' = t
  /\ todo' = [todo EXCEPT ![t] = steps \o Unlock]

\* rtNewShape: a handle without an object, counted once for the application.
NewShape(t) ==
  /\ Idle(t) /\ mutex = None
  /\ Shape \in Unborn(Handles)
  /\ count' = [count EXCEPT ![Shape] = 1]
  /\ fields' = [fields EXCEPT ![Shape] = <<None>>]
  /\ owns' = [owns EXCEPT ![t][Shape] = 1]
  /\ UNCHANGED <<mutex, job, todo>>

\* rtNewShapePrimitive: castHandle holds the shape while the primitive takes a Ref.
NewPrimitive(t) ==
  /\ owns[t][Shape] > 0
  /\ Primitive \in Unborn(Handles)
  /\ Locked(t, Inc(Shape) \o Inc(Shape) \o Put(Primitive, 1, Shape) \o Dec(Shape))
  /\ count' = [count EXCEPT ![Primitive] = 1]
  /\ fields' = [fields EXCEPT ![Primitive] = <<None>>]
  /\ owns' = [owns EXCEPT ![t][Primitive] = 1]
  /\ UNCHANGED job

\* Mutant of IncRef: only the reference is handed over.
IncRefOnly(t, u, h) ==
  /\ Idle(t)
  /\ owns[t][h] > 0 /\ owns[u][h] < MaxOwned
  /\ owns' = [owns EXCEPT ![u][h] = @ + 1]
  /\ UNCHANGED <<count, fields, mutex, job, todo>>

\* rtIncRef by t, for a reference that u will use; without the mutex.
IncRef(t, u, h) ==
  /\ Idle(t)
  /\ owns[t][h] > 0 /\ owns[u][h] < MaxOwned
  /\ owns' = [owns EXCEPT ![u][h] = @ + 1]
  /\ count' = [count EXCEPT ![h] = @ + 1]
  /\ UNCHANGED <<fields, mutex, job, todo>>

\* rtDecRef, without the mutex.
DecRef(t, h) ==
  /\ Idle(t)
  /\ owns[t][h] > 0
  /\ owns' = [owns EXCEPT ![t][h] = @ - 1]
  /\ todo' = [todo EXCEPT ![t] = Dec(h)]
  /\ UNCHANGED <<count, fields, mutex, job>>

\* rtCommit of the shape: instance = new T(parms).
CommitShape(t) ==
  /\ owns[t][Shape] > 0
  /\ \E o \in NewObjects :
       /\ Locked(t, Assign(Shape, 1, o))
       /\ fields' = [fields EXCEPT ![o] = <<>>]
  /\ UNCHANGED <<count, owns, job>>

\* rtSetPrimitive: the shape that is committed now goes into the slot, inside
\* a new Primitive; castHandle and getShapeInstance hold Refs meanwhile.
SetPrimitive(t) ==
  /\ owns[t][Primitive] > 0
  /\ \E o \in NewObjects :
     LET shape == fields[fields[Primitive][1]][1]
     IN /\ Locked(t, Inc(Primitive) \o Inc(shape) \o Inc(shape) \o Put(o, 1, shape)
                     \o Assign(Scene, Slot, o) \o Dec(shape) \o Dec(Primitive))
        /\ fields' = [fields EXCEPT ![o] = <<None>>]
  /\ UNCHANGED <<count, owns, job>>

\* rtCommit of the scene: the vector of the handle is copied.
CommitScene(t) ==
  /\ \E o \in NewObjects :
       /\ Locked(t, Inc(fields[Scene][Slot]) \o Put(o, 1, fields[Scene][Slot])
                    \o Assign(Scene, Instance, o))
       /\ fields' = [fields EXCEPT ![o] = <<None>>]
  /\ UNCHANGED <<count, owns, job>>

\* rtRenderFrame: castHandle and getInstance hold Refs; the job has its own
\* until the worker deletes it, and the call waits for that.
RenderFrame(t) ==
  LET o == fields[Scene][Instance]
  IN /\ o # None
     /\ Locked(t, Inc(Scene) \o Inc(o) \o Inc(o)
                  \o <<[op |-> "start", refs |-> <<o>>], [op |-> "wait"]>>
                  \o Dec(o) \o Dec(Scene))
     /\ UNCHANGED <<count, fields, owns, job>>

\* RenderJob::finish: delete this.
FinishJob ==
  /\ job # None
  /\ Idle(Worker)
  /\ todo' = [todo EXCEPT ![Worker] = Decs(job) \o <<[op |-> "gone"]>>]
  /\ job' = <<>>
  /\ UNCHANGED <<count, fields, owns, mutex>>

(***************************************************************************)
(* The steps.                                                              *)
(***************************************************************************)
Rest(a) == Tail(todo[a])
Does(a, op) == ~Idle(a) /\ Head(todo[a]).op = op

RefInc(a) ==
  /\ Does(a, "inc")
  /\ count' = [count EXCEPT ![Head(todo[a]).node] = @ + 1]
  /\ todo' = [todo EXCEPT ![a] = Rest(a)]
  /\ UNCHANGED <<fields, owns, mutex, job>>

\* Mutant of Deleted: the Refs inside a node are forgotten with it.
DeletedFlat(n) == <<>>

\* delete this: the Refs inside the node are destroyed.
Deleted(n) == Decs(fields[n])

\* Mutant of RefDec: the counter is not atomic.
RefDecSplit(a) ==
  /\ \/ /\ Does(a, "dec")
        /\ LET n == Head(todo[a]).node
           IN todo' = [todo EXCEPT ![a] =
                <<[op |-> "store", node |-> n, value |-> count[n] - 1]>> \o Rest(a)]
        /\ UNCHANGED <<count, fields>>
     \/ /\ Does(a, "store")
        /\ LET n == Head(todo[a]).node
               v == Head(todo[a]).value
           IN /\ count' = [count EXCEPT ![n] = v]
              /\ fields' = IF v = 0 THEN [fields EXCEPT ![n] = None] ELSE fields
              /\ todo' = [todo EXCEPT ![a] = IF v = 0 THEN Deleted(n) \o Rest(a) ELSE Rest(a)]
  /\ UNCHANGED <<owns, mutex, job>>

\* refDec: the thread that brings the counter to zero deletes the node.
RefDec(a) ==
  /\ Does(a, "dec")
  /\ LET n == Head(todo[a]).node
     IN /\ count' = [count EXCEPT ![n] = @ - 1]
        /\ IF count[n] = 1
           THEN /\ todo' = [todo EXCEPT ![a] = Deleted(n) \o Rest(a)]
                /\ fields' = [fields EXCEPT ![n] = None]
           ELSE /\ todo' = [todo EXCEPT ![a] = Rest(a)]
                /\ UNCHANGED fields
  /\ UNCHANGED <<owns, mutex, job>>

PutRef(a) ==
  /\ Does(a, "put")
  /\ LET s == Head(todo[a]) IN fields' = [fields EXCEPT ![s.node][s.at] = s.ref]
  /\ todo' = [todo EXCEPT ![a] = Rest(a)]
  /\ UNCHANGED <<count, owns, mutex, job>>

StartJob(a) ==
  /\ Does(a, "start")
  /\ job' = Head(todo[a]).refs
  /\ todo' = [todo EXCEPT ![a] = Rest(a)]
  /\ UNCHANGED <<count, fields, owns, mutex>>

JobGone ==
  /\ Does(Worker, "gone")
  /\ job' = None
  /\ todo' = [todo EXCEPT ![Worker] = Rest(Worker)]
  /\ UNCHANGED <<count, fields, owns, mutex>>

Waited(a) ==
  /\ Does(a, "wait")
  /\ job = None
  /\ todo' = [todo EXCEPT ![a] = Rest(a)]
  /\ UNCHANGED <<count, fields, owns, mutex, job>>

UnlockMutex(a) ==
  /\ Does(a, "unlock")
  /\ mutex' = None
  /\ todo' = [todo EXCEPT ![a] = Rest(a)]
  /\ UNCHANGED <<count, fields, owns, job>>

Next ==
  \/ \E t \in Threads :
       \/ NewShape(t) \/ NewPrimitive(t) \/ CommitShape(t)
       \/ SetPrimitive(t) \/ CommitScene(t) \/ RenderFrame(t)
       \/ \E h \in Handles : DecRef(t, h) \/ \E u \in Threads : IncRef(t, u, h)
  \/ FinishJob
  \/ JobGone
  \/ \E a \in Actors :
       RefInc(a) \/ RefDec(a) \/ PutRef(a) \/ StartJob(a) \/ Waited(a) \/ UnlockMutex(a)

Spec == Init /\ [][Next]_vars

\* The threads of the application are alike.
Symmetry == Permutations(Threads)

(***************************************************************************)
(* Properties.                                                             *)
(***************************************************************************)
TypeOK ==
  /\ count \in [Nodes -> Nat]
  /\ \A n \in Nodes : Exists(n) => ToSet(fields[n]) \subseteq Nodes \cup {None}
  /\ owns \in [Threads -> [Handles -> 0 .. MaxOwned]]
  /\ mutex \in Threads \cup {None}
  /\ job = None \/ ToSet(job) \subseteq Objects
  /\ \A h \in Handles \cup {Scene} : Exists(h) <=> count[h] > 0

(* Nobody changes the counter of a node that was deleted, or writes to it, *)
(* whatever other threads release at the same time.                        *)
NoUseAfterDelete ==
  \A a \in Actors :
    Does(a, "inc") \/ Does(a, "dec") \/ Does(a, "put") => Exists(Head(todo[a]).node)

(* What a thread has a reference to, what a job renders, and what is       *)
(* inside an existing node when nobody is in a call, exists.               *)
Quiet == \A a \in Actors : Idle(a)
UsersKeepAlive ==
  /\ \A t \in Threads, h \in Handles : owns[t][h] > 0 => Exists(h)
  /\ job # None => \A o \in ToSet(job) : Exists(o)
  /\ Quiet => \A n \in Nodes : Exists(n) => \A m \in ToSet(fields[n]) \ {None} : Exists(m)

(* When nobody is in a call every counter is the number of Refs and        *)
(* references there are, and a node without any is gone: nothing leaks.    *)
Owned(n) == {x \in Threads \X (1 .. MaxOwned) : n \in Handles /\ x[2] <= owns[x[1]][n]}
Refs(n) == {x \in Nodes \X {1, 2} :
              Exists(x[1]) /\ x[2] \in DOMAIN fields[x[1]] /\ fields[x[1]][x[2]] = n}
Referers(n) ==
  (IF n = Scene THEN 1 ELSE 0) + Cardinality(Owned(n)) + Cardinality(Refs(n))
CountsAreExact ==
  /\ TypeOK
  /\ Quiet /\ job = None =>
       \A n \in Nodes : count[n] = Referers(n) /\ (Exists(n) <=> count[n] > 0)
=============================================================================
