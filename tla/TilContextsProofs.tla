--------------------------- MODULE TilContextsProofs ---------------------------
(***************************************************************************)
(* What holds of module contexts for any tree of setups.  The argument: a  *)
(* context has no fewer references than pointers (NoDangling), so what is  *)
(* destroyed has one, the one given up.  What a call of                    *)
(* til_module_create_contexts() made, and the context it makes it for, are *)
(* pointed to by slots nobody else gives up (Calls), which is why they are *)
(* there when the call goes on.  Last, of setups none of which renders     *)
(* itself, nothing is leaked: counts are exact, and what is pointed to     *)
(* fits where it is (Heap), because a slot that is filled was empty        *)
(* (Placed, Registering).                                                  *)
(***************************************************************************)
EXTENDS TilContexts, TLAPS, FiniteSetTheorems, SequenceTheorems, WellFoundedInduction

\* The pointers to a context can be counted.
FinitelyPointed == \A c \in Obj : IsFiniteSet(Pointing(c))

\* The contexts that are not allocated are those without a reference.
Allocated == \A c \in Obj : refcount[c] = 0 <=> setup[c] = None

\* What is to be freed is there, and is not what holds the slot.
TodoHolds == \A s \in todo : ptr[s] \notin {None, s[1]}

\* No context is a part of itself.
PartsApart == \A c \in Obj : \A i \in Index \ {0} : \A n \in Clone : ptr[<<c, i, n>>] # c

\* What the call made is there, and will not be freed by what is under way;
\* until the stream references it, it is the call's alone.
MadeOK(i) ==
  /\ stack[i].made <= Clones[stack[i].setup]
  /\ \A n \in 1 .. stack[i].made :
       /\ Into(stack[i], n) \in Slot \ todo
       /\ ptr[Into(stack[i], n)] \in Obj
       /\ setup[ptr[Into(stack[i], n)]] = stack[i].setup
       /\ stack[i].registered = 0 => refcount[ptr[Into(stack[i], n)]] = 1

\* A call registers last, so that no other call is made from it then.
RegisteredOK(i) ==
  stack[i].registered # 0 =>
    /\ i = 1
    /\ stack[i].parts = {}
    /\ stack[i].made = Clones[stack[i].setup]
    /\ stack[i].registered < stack[i].made

\* The slot that points to the context a call makes a part of: one of the call
\* it was made from, or main()'s when rtv makes a channel as it renders.
Anchor(i) ==
  IF i < Len(stack) THEN Into(stack[i + 1], stack[i + 1].made) ELSE Main

\* main()'s call, for the setup Root.
FromMain(i) ==
  /\ i = Len(stack)
  /\ stack[i].holder = "main"
  /\ stack[i].index = 0
  /\ stack[i].setup = Root

\* A call for a part of a context that is there until the call returns.
Anchored(i) ==
  /\ i < Len(stack) => stack[i + 1].made > 0
  /\ Anchor(i) \notin todo
  /\ stack[i].index # 0
  /\ stack[i].holder \in Obj
  /\ stack[i].holder = ptr[Anchor(i)]

\* rtv is main()'s; parts are made once their context is.
CallOK(i) ==
  /\ MadeOK(i)
  /\ FromMain(i) \/ Anchored(i)
  /\ stack[i].setup = Rtv => FromMain(i)
  /\ stack[i].parts # {} => stack[i].made > 0
  /\ stack[i].parts \subseteq DOMAIN Parts[stack[i].setup]

Calls == \A i \in 1 .. Len(stack) : CallOK(i) /\ RegisteredOK(i)

\* No two calls are for the same context.
Apart ==
  \A i, j \in 1 .. Len(stack) : stack[i].holder = stack[j].holder => i = j

\* main()'s context is there from its creation until main() quits.
MainHolds ==
  /\ stack # <<>> => phase = "run"
  /\ phase = "start" => todo = {} /\ ~gc /\ ~switching
  /\ phase = "run" =>
       /\ Main \notin todo
       /\ ptr[Main] = None => stack # <<>> /\ stack[Len(stack)].holder = "main"

\* While rtv switches, main() runs, and no context is created but for rtv or the
\* channel; an rtv that exists has been given a channel.
Switching ==
  /\ switching => phase = "run"
  /\ switching /\ stack # <<>> =>
       stack[Len(stack)].setup = Rtv /\ stack[Len(stack)].made > 0
  /\ switching \/ (\E c \in Obj : setup[c] = Rtv) => on # 0

\* A creation that fails is in progress, and not rtv's own once it has its channel.
Failing ==
  failing => stack # <<>> /\ (switching => stack[1].setup # Rtv)

\* The inductive invariant.
IInv ==
  /\ TypeOK
  /\ NoDangling
  /\ FinitelyPointed
  /\ Allocated
  /\ TodoHolds
  /\ PartsApart
  /\ Calls
  /\ Apart
  /\ MainHolds
  /\ Switching
  /\ Failing

-----------------------------------------------------------------------------
(* Pointers and counts *)

\* A context that is pointed to has a reference, and when it has one only, one
\* slot points to it.
LEMMA PointedTo ==
  ASSUME NoDangling, FinitelyPointed, TypeOK,
         NEW s \in Slot, ptr[s] \in Obj
  PROVE  /\ refcount[ptr[s]] \in Nat \ {0}
         /\ refcount[ptr[s]] = 1 => \A t \in Slot : ptr[t] = ptr[s] => t = s
<1> DEFINE P == Pointing(ptr[s])
<1>1. IsFiniteSet(P) /\ Cardinality(P) <= refcount[ptr[s]] /\ refcount[ptr[s]] \in Nat
  BY DEF NoDangling, FinitelyPointed, TypeOK
<1>2. s \in P
  BY DEF Pointing
<1>3. Cardinality(P \ {s}) = Cardinality(P) - 1 /\ IsFiniteSet(P \ {s})
  BY <1>1, <1>2, FS_RemoveElement
<1>4. Cardinality(P) \in Nat /\ Cardinality(P \ {s}) \in Nat
  BY <1>1, <1>3, FS_CardinalityType
<1>5. ASSUME refcount[ptr[s]] = 1
      PROVE  P \ {s} = {}
  <2>1. Cardinality(P \ {s}) = 0
    BY <1>1, <1>3, <1>4, <1>5
  <2> QED BY <1>3, <2>1, FS_EmptySet
<1>6. ASSUME refcount[ptr[s]] = 1, NEW t \in Slot, ptr[t] = ptr[s]
      PROVE  t = s
  BY <1>5, <1>6 DEF Pointing
<1> HIDE DEF P
<1>7. refcount[ptr[s]] # 0
  BY <1>1, <1>3, <1>4
<1> QED BY <1>1, <1>6, <1>7

\* A slot is made to point to a context, which gets a reference for it.
LEMMA Reference ==
  ASSUME NoDangling, FinitelyPointed, TypeOK,
         NEW s \in Slot, NEW c \in Obj,
         ptr' = [ptr EXCEPT ![s] = c], refcount' = Referenced(c)
  PROVE  (NoDangling /\ FinitelyPointed)'
<1> SUFFICES ASSUME NEW d \in Obj
             PROVE  IsFiniteSet(Pointing(d)') /\ Cardinality(Pointing(d)') <= refcount'[d]
  BY DEF NoDangling, FinitelyPointed
<1>1. IsFiniteSet(Pointing(d)) /\ Cardinality(Pointing(d)) <= refcount[d] /\ refcount[d] \in Nat
  BY DEF NoDangling, FinitelyPointed, TypeOK
<1>2. Cardinality(Pointing(d)) \in Nat
  BY <1>1, FS_CardinalityType
<1>3. CASE d = c
  <2>a. \A t \in Slot : ptr'[t] = IF t = s THEN d ELSE ptr[t]
    BY <1>3 DEF TypeOK
  <2>1. Pointing(d)' = Pointing(d) \union {s}
    <3>1. \A t : t \in Pointing(d)' <=> t \in Pointing(d) \/ t = s
      BY <2>a DEF Pointing
    <3> QED BY <3>1
  <2>2. Cardinality(Pointing(d)') <= Cardinality(Pointing(d)) + 1 /\ IsFiniteSet(Pointing(d)')
    <3>1. /\ IsFiniteSet(Pointing(d) \union {s})
          /\ Cardinality(Pointing(d) \union {s}) =
               IF s \in Pointing(d) THEN Cardinality(Pointing(d)) ELSE Cardinality(Pointing(d)) + 1
      BY <1>1, FS_AddElement
    <3> QED BY <1>2, <2>1, <3>1
  <2>3. Cardinality(Pointing(d)') \in Nat
    BY <2>2, FS_CardinalityType
  <2>4. refcount'[d] = refcount[d] + 1
    BY <1>3 DEF Referenced, TypeOK
  <2> QED BY <1>1, <1>2, <2>2, <2>3, <2>4
<1>4. CASE d # c
  <2>1. Pointing(d)' \in SUBSET Pointing(d)
    BY <1>4 DEF Pointing, TypeOK
  <2>2. Cardinality(Pointing(d)') <= Cardinality(Pointing(d)) /\ IsFiniteSet(Pointing(d)')
    BY <1>1, <2>1, FS_Subset
  <2>3. Cardinality(Pointing(d)') \in Nat
    BY <2>2, FS_CardinalityType
  <2>4. refcount'[d] = refcount[d]
    BY <1>4 DEF Referenced, TypeOK
  <2> QED BY <1>1, <1>2, <2>2, <2>3, <2>4
<1> QED BY <1>3, <1>4

\* A slot gives its reference up, and the context's count goes down.
LEMMA Unreference ==
  ASSUME NoDangling, FinitelyPointed, TypeOK,
         NEW s \in Slot, ptr[s] \in Obj,
         ptr' = [ptr EXCEPT ![s] = None],
         refcount' = [refcount EXCEPT ![ptr[s]] = refcount[ptr[s]] - 1]
  PROVE  (NoDangling /\ FinitelyPointed)'
<1> SUFFICES ASSUME NEW d \in Obj
             PROVE  IsFiniteSet(Pointing(d)') /\ Cardinality(Pointing(d)') <= refcount'[d]
  BY DEF NoDangling, FinitelyPointed
<1>1. IsFiniteSet(Pointing(d)) /\ Cardinality(Pointing(d)) <= refcount[d] /\ refcount[d] \in Nat
  BY DEF NoDangling, FinitelyPointed, TypeOK
<1>2. Cardinality(Pointing(d)) \in Nat
  BY <1>1, FS_CardinalityType
<1>3. CASE d = ptr[s]
  <2>1. Pointing(d)' = Pointing(d) \ {s} /\ s \in Pointing(d)
    BY <1>3, NoneAssumption DEF Pointing, TypeOK
  <2>2. Cardinality(Pointing(d)') = Cardinality(Pointing(d)) - 1 /\ IsFiniteSet(Pointing(d)')
    BY <1>1, <2>1, FS_RemoveElement
  <2>3. refcount'[d] = refcount[d] - 1
    BY <1>3 DEF TypeOK
  <2> QED BY <1>1, <1>2, <2>2, <2>3
<1>4. CASE d # ptr[s]
  <2>1. Pointing(d)' = Pointing(d)
    BY <1>4, NoneAssumption DEF Pointing, TypeOK
  <2>2. refcount'[d] = refcount[d]
    BY <1>4 DEF TypeOK
  <2> QED BY <1>1, <2>1, <2>2
<1> QED BY <1>3, <1>4

-----------------------------------------------------------------------------
(* The stack of calls *)

\* The calls of K are kept by a step: call i was i + k before.
Keeps(k, K) ==
  /\ Len(stack') = Len(stack) - k
  /\ \A i \in K :
       /\ i \in 1 .. Len(stack') /\ i + k \in 1 .. Len(stack)
       /\ i < Len(stack') => i + 1 \in K
       /\ stack'[i].setup = stack[i + k].setup
       /\ stack'[i].holder = stack[i + k].holder
       /\ stack'[i].index = stack[i + k].index
       /\ stack'[i].made = stack[i + k].made
       /\ stack'[i].made \in Nat
       /\ stack'[i].parts \subseteq stack[i + k].parts
       /\ stack'[i].registered = 0 => stack[i + k].registered = 0

\* What was made by the calls of K is left alone.
Spares(K) ==
  /\ \A i \in K : \A n \in 1 .. stack'[i].made :
       LET s == Into(stack'[i], n) IN
         /\ s \notin todo'
         /\ ptr'[s] = ptr[s]
         /\ setup'[ptr[s]] = setup[ptr[s]]
         /\ stack'[i].registered = 0 => refcount'[ptr[s]] = refcount[ptr[s]]
  /\ K # {} => FromMain(Len(stack)) \/ (Main \notin todo' /\ ptr'[Main] = ptr[Main])

\* Then they are as they were.
LEMMA CallsKept ==
  ASSUME Calls, Len(stack) \in Nat, NEW k \in {-1, 0, 1}, NEW K \in SUBSET Nat,
         Keeps(k, K), Spares(K)
  PROVE  \A i \in K : CallOK(i)'
<1> SUFFICES ASSUME NEW i \in K
             PROVE  CallOK(i)'
  OBVIOUS
<1> DEFINE j == i + k
<1>0. /\ i \in 1 .. Len(stack') /\ j \in 1 .. Len(stack) /\ Len(stack') = Len(stack) - k
      /\ i < Len(stack') => i + 1 \in K
  BY DEF Keeps
<1>k. \A m \in K : stack'[m].holder = stack[m + k].holder
                   /\ stack'[m].index = stack[m + k].index
                   /\ stack'[m].made = stack[m + k].made /\ stack'[m].made \in Nat
  BY DEF Keeps
<1>f. /\ stack'[i].setup = stack[j].setup
      /\ stack'[i].holder = stack[j].holder
      /\ stack'[i].index = stack[j].index
      /\ stack'[i].made = stack[j].made
      /\ stack'[i].parts \subseteq stack[j].parts
      /\ stack'[i].registered = 0 => stack[j].registered = 0
  BY DEF Keeps
<1>s. \A m \in K : \A n \in 1 .. stack'[m].made :
        /\ Into(stack'[m], n) \notin todo'
        /\ ptr'[Into(stack'[m], n)] = ptr[Into(stack'[m], n)]
        /\ setup'[ptr[Into(stack'[m], n)]] = setup[ptr[Into(stack'[m], n)]]
        /\ stack'[m].registered = 0 =>
             refcount'[ptr[Into(stack'[m], n)]] = refcount[ptr[Into(stack'[m], n)]]
  BY DEF Spares
<1>m. FromMain(Len(stack)) \/ (Main \notin todo' /\ ptr'[Main] = ptr[Main])
  BY DEF Spares
<1>1. CallOK(j)
  BY <1>0 DEF Calls
<1>2. \A m \in K : \A n : Into(stack'[m], n) = Into(stack[m + k], n)
  BY <1>k DEF Into
<1> HIDE DEF j
<1>3. MadeOK(i)'
  <2>1. stack'[i].made <= Clones[stack'[i].setup]
    BY <1>1, <1>f DEF CallOK, MadeOK
  <2>2. ASSUME NEW n \in 1 .. stack'[i].made
        PROVE  LET s == Into(stack'[i], n) IN
                 /\ s \in Slot \ todo'
                 /\ ptr'[s] \in Obj
                 /\ setup'[ptr'[s]] = stack'[i].setup
                 /\ stack'[i].registered = 0 => refcount'[ptr'[s]] = 1
    <3> DEFINE s == Into(stack'[i], n)
    <3>1. n \in 1 .. stack[j].made /\ s = Into(stack[j], n)
      BY <1>f, <1>2 DEF j
    <3>2. /\ s \notin todo' /\ ptr'[s] = ptr[s]
          /\ setup'[ptr[s]] = setup[ptr[s]]
          /\ stack'[i].registered = 0 => refcount'[ptr[s]] = refcount[ptr[s]]
      BY <1>s
    <3> HIDE DEF s
    <3>3. /\ s \in Slot /\ ptr[s] \in Obj
          /\ setup[ptr[s]] = stack[j].setup
          /\ stack[j].registered = 0 => refcount[ptr[s]] = 1
      BY <1>1, <3>1 DEF CallOK, MadeOK
    <3>4. /\ s \in Slot \ todo' /\ ptr'[s] \in Obj /\ setup'[ptr'[s]] = stack'[i].setup
          /\ stack'[i].registered = 0 => refcount'[ptr'[s]] = 1
      BY <1>f, <3>2, <3>3
    <3> QED BY <3>4 DEF s
  <2> QED BY <2>1, <2>2 DEF MadeOK
<1>4. FromMain(j) => FromMain(i)'
  <2>1. Len(stack) \in Nat /\ (j = Len(stack) => i = Len(stack'))
    BY <1>0 DEF j
  <2> QED BY <1>f, <2>1 DEF FromMain
<1>5. ASSUME Anchored(j)
      PROVE  Anchored(i)'
  <2>1. CASE j < Len(stack)
    <3>1. i + 1 \in K /\ i < Len(stack') /\ (i + 1) + k = j + 1 /\ j + 1 \in 1 .. Len(stack)
      BY <1>0, <2>1 DEF j
    <3> DEFINE m == i + 1
               s == Into(stack'[m], stack'[m].made)
    <3>2. m \in K /\ m + k = j + 1
      BY <3>1
    <3>3. stack'[m].made = stack[j + 1].made /\ stack'[m].made \in Nat
          /\ s = Into(stack[j + 1], stack[j + 1].made)
      BY <1>k, <1>2, <3>2
    <3>4. Anchor(j) = s /\ Anchor(i)' = s
      BY <2>1, <3>1, <3>3 DEF Anchor
    <3>5. stack'[m].made > 0
      BY <1>5, <2>1, <3>3 DEF Anchored
    <3>6. stack'[m].made \in 1 .. stack'[m].made
      BY <3>3, <3>5
    <3>7. s \notin todo' /\ ptr'[s] = ptr[s]
      BY <1>s, <3>2, <3>6
    <3> HIDE DEF s
    <3>8. stack'[i].index # 0 /\ stack'[i].holder \in Obj /\ stack'[i].holder = ptr[s]
      BY <1>5, <1>f, <3>4 DEF Anchored
    <3> QED BY <3>4, <3>5, <3>7, <3>8 DEF Anchored
  <2>2. CASE j = Len(stack)
    <3>1. i = Len(stack') /\ Len(stack') \in Nat
      BY <1>0, <2>2 DEF j
    <3>2. ~(i < Len(stack')) /\ ~(j < Len(stack))
      BY <3>1, <2>2
    <3>3. Anchor(i)' = Main /\ Anchor(j) = Main
      BY <3>2 DEF Anchor
    <3>4. ~FromMain(Len(stack))
      BY <1>5, <2>2, HolderAssumption DEF Anchored, FromMain
    <3>5. Main \notin todo' /\ ptr'[Main] = ptr[Main]
      BY <1>m, <3>4
    <3> QED BY <1>5, <1>f, <3>2, <3>3, <3>5 DEF Anchored
  <2> QED BY <1>0, <2>1, <2>2
<1>6. stack'[i].setup = Rtv => FromMain(i)'
  BY <1>1, <1>4, <1>f DEF CallOK
<1>7. stack'[i].parts # {} => stack'[i].made > 0
  BY <1>1, <1>f DEF CallOK
<1>8. stack'[i].parts \subseteq DOMAIN Parts[stack'[i].setup]
  BY <1>1, <1>f DEF CallOK
<1> QED BY <1>1, <1>3, <1>4, <1>5, <1>6, <1>7, <1>8 DEF CallOK

\* As the previous lemma, when all calls are kept.
LEMMA StackKept ==
  ASSUME TypeOK, Calls, Apart,
         Len(stack') = Len(stack),
         \A i \in 1 .. Len(stack) :
           /\ stack'[i].setup = stack[i].setup
           /\ stack'[i].holder = stack[i].holder
           /\ stack'[i].index = stack[i].index
           /\ stack'[i].made = stack[i].made
           /\ stack'[i].parts = stack[i].parts
           /\ stack'[i].registered = stack[i].registered,
         \A i \in 1 .. Len(stack) : \A n \in 1 .. stack[i].made :
           LET s == Into(stack[i], n) IN
             /\ s \notin todo'
             /\ ptr'[s] = ptr[s]
             /\ setup'[ptr[s]] = setup[ptr[s]]
             /\ stack[i].registered = 0 => refcount'[ptr[s]] = refcount[ptr[s]],
         stack # <<>> =>
           FromMain(Len(stack)) \/ (Main \notin todo' /\ ptr'[Main] = ptr[Main])
  PROVE  (Calls /\ Apart)'
<1> DEFINE K == 1 .. Len(stack)
<1>1. Len(stack) \in Nat /\ \A i \in K : stack[i] \in CallType
  BY DEF TypeOK
<1>2. \A i \in K : stack[i].made \in Nat
  BY <1>1, BoundAssumption DEF CallType
<1>3. K # {} => stack # <<>>
  OBVIOUS
<1>4. K \in SUBSET Nat /\ 0 \in {-1, 0, 1} /\ Len(stack') = Len(stack) - 0
  BY <1>1
<1>5. \A i \in K : i + 0 = i /\ i \in 1 .. Len(stack') /\ (i < Len(stack') => i + 1 \in K)
  BY <1>1
<1>6. \A i \in K : CallOK(i)'
  <2>1. Keeps(0, K)
    BY <1>2, <1>4, <1>5 DEF Keeps
  <2>2. Spares(K)
    <3>1. \A i \in K : \A n : Into(stack'[i], n) = Into(stack[i], n)
      BY DEF Into
    <3>2. \A i \in K : stack'[i].made = stack[i].made /\ stack'[i].registered = stack[i].registered
      OBVIOUS
    <3>3. ASSUME NEW i \in K, NEW n \in 1 .. stack'[i].made
          PROVE  LET s == Into(stack'[i], n) IN
                   /\ s \notin todo'
                   /\ ptr'[s] = ptr[s]
                   /\ setup'[ptr[s]] = setup[ptr[s]]
                   /\ stack'[i].registered = 0 => refcount'[ptr[s]] = refcount[ptr[s]]
      <4>1. n \in 1 .. stack[i].made /\ Into(stack'[i], n) = Into(stack[i], n)
        BY <3>1, <3>2
      <4>2. LET s == Into(stack[i], n) IN
              /\ s \notin todo'
              /\ ptr'[s] = ptr[s]
              /\ setup'[ptr[s]] = setup[ptr[s]]
              /\ stack[i].registered = 0 => refcount'[ptr[s]] = refcount[ptr[s]]
        BY <4>1
      <4> QED BY <3>2, <4>1, <4>2
    <3> QED BY <1>3, <3>3 DEF Spares
  <2> HIDE DEF K
  <2> QED BY <1>1, <1>4, <2>1, <2>2, CallsKept
<1>7. \A i \in K : RegisteredOK(i)'
  BY DEF Calls, RegisteredOK
<1>8. Apart'
  BY DEF Apart
<1> QED BY <1>6, <1>7, <1>8 DEF Calls

-----------------------------------------------------------------------------
(* The invariant *)

LEMMA Indexes ==
  /\ Index \subseteq Nat /\ 0 \in Index
  /\ \A s \in Setup : DOMAIN Parts[s] \subseteq Index
  /\ 1 \in DOMAIN Parts[Rtv] /\ 1 \in 0 .. Len(Parts[Rtv])
  /\ DOMAIN Parts[Rtv] \subseteq 0 .. Len(Parts[Rtv])
  /\ 0 .. Len(Parts[Rtv]) \subseteq Index
<1>1. \A s \in Setup : Len(Parts[s]) \in Nat /\ DOMAIN Parts[s] = 1 .. Len(Parts[s])
  BY SetupAssumption
<1>2. \A s \in Setup : 0 .. Len(Parts[s]) \subseteq Index
  BY DEF Index
<1>3. Rtv \in Setup /\ Len(Parts[Rtv]) > 1
  BY SetupAssumption, RtvAssumption
<1>4. Index \subseteq Nat
  BY <1>1 DEF Index
<1> QED BY <1>1, <1>2, <1>3, <1>4

LEMMA ClonesBound == \A s \in Setup : Clones[s] \in 1 .. MaxClones
BY SetupAssumption DEF Clone

LEMMA InitIInv == Init => IInv
<1> SUFFICES ASSUME Init PROVE IInv
  OBVIOUS
<1> USE DEF Init
<1>1. TypeOK
  <2>1. stack \in Seq(CallType)
    OBVIOUS
  <2>2. on \in 0 .. Len(Parts[Rtv]) /\ fails \in 0 .. MaxFails
    BY Indexes, BoundAssumption
  <2>3. ptr \in [Slot -> Obj \union {None}] /\ refcount \in [Obj -> Nat]
        /\ setup \in [Obj -> Setup \union {None}]
    OBVIOUS
  <2>4. phase = "start"
    OBVIOUS
  <2> QED BY <2>1, <2>2, <2>3, <2>4 DEF TypeOK
<1>2. \A c \in Obj : Pointing(c) = {}
  BY NoneAssumption DEF Pointing
<1>3. NoDangling /\ FinitelyPointed
  <2>1. \A c \in Obj : Cardinality(Pointing(c)) = 0 /\ IsFiniteSet(Pointing(c)) /\ refcount[c] = 0
    BY <1>2, FS_EmptySet
  <2> QED BY <2>1 DEF NoDangling, FinitelyPointed
<1>4. Allocated /\ TodoHolds /\ PartsApart
  <2>1. Allocated /\ TodoHolds
    BY DEF Allocated, TodoHolds
  <2>2. ASSUME NEW c \in Obj, NEW i \in Index, NEW n \in Clone
        PROVE  ptr[<<c, i, n>>] # c
    BY NoneAssumption DEF Slot
  <2> QED BY <2>1, <2>2 DEF PartsApart
<1>5. Calls /\ Apart
  <2>1. 1 .. Len(stack) = {}
    OBVIOUS
  <2> QED BY <2>1 DEF Calls, Apart
<1>6. MainHolds /\ Switching /\ Failing
  <2>1. \A c \in Obj : setup[c] # Rtv
    BY NoneAssumption, SetupAssumption
  <2> QED BY <2>1 DEF MainHolds, Switching, Failing
<1> QED BY <1>1, <1>3, <1>4, <1>5, <1>6 DEF IInv

\* A step that leaves the pointers, the counts and the stack alone.
LEMMA SameHeap ==
  ASSUME IInv, UNCHANGED <<ptr, refcount, setup, stack>>,
         \A s \in todo' : ptr[s] \notin {None, s[1]},
         \A i \in 1 .. Len(stack) : \A n \in 1 .. stack[i].made :
           Into(stack[i], n) \notin todo',
         stack # <<>> => Main \notin todo',
         TypeOK', MainHolds', Switching', Failing'
  PROVE  IInv'
<1>1. NoDangling' /\ FinitelyPointed' /\ Allocated' /\ TodoHolds' /\ PartsApart'
  BY DEF IInv, NoDangling, FinitelyPointed, Allocated, TodoHolds, PartsApart, Pointing
<1>2. (Calls /\ Apart)'
  BY StackKept DEF IInv
<1> QED BY <1>1, <1>2 DEF IInv

\* What is to be freed is none of the slots of the calls in progress.
LEMMA CallsSpared ==
  ASSUME IInv
  PROVE  /\ \A i \in 1 .. Len(stack) : \A n \in 1 .. stack[i].made :
              Into(stack[i], n) \notin todo
         /\ stack # <<>> => Main \notin todo
         /\ \A s \in todo : ptr[s] \notin {None, s[1]}
BY DEF IInv, Calls, CallOK, MadeOK, MainHolds, TodoHolds

\* Nor are they slots of the stream.
LEMMA NotTheStreams ==
  ASSUME TypeOK, NEW i \in 1 .. Len(stack), NEW n, NEW p
  PROVE  Into(stack[i], n) \notin Registered(p) /\ Main \notin Registered(p)
<1>1. stack[i].holder # "stream"
  <2>1. stack[i] \in CallType
    BY DEF TypeOK
  <2>2. stack[i].holder \in Obj \union {"main"}
    BY <2>1 DEF CallType
  <2> QED BY <2>2, HolderAssumption
<1>2. \A s \in Registered(p) : s[1] = "stream"
  BY DEF Registered
<1>3. Into(stack[i], n)[1] = stack[i].holder /\ Main[1] = "main"
  BY DEF Into, Main
<1> QED BY <1>1, <1>2, <1>3

\* What the stream has at a path is there.
LEMMA OccupiedHolds ==
  ASSUME TypeOK, NEW p \in Path
  PROVE  \A s \in Occupied(p) : ptr[s] \notin {None, s[1]}
<1> SUFFICES ASSUME NEW s \in Occupied(p) PROVE ptr[s] \notin {None, s[1]}
  OBVIOUS
<1>1. s \in Slot /\ s[1] = "stream" /\ ptr[s] # None
  BY DEF Occupied, Registered, Slot
<1>2. ptr[s] \in Obj
  BY <1>1 DEF TypeOK
<1> QED BY <1>1, <1>2, HolderAssumption

\* What the innermost call made is there.
LEMMA TopMade ==
  ASSUME IInv, stack # <<>>
  PROVE  /\ Len(stack) \in Nat \ {0} /\ top = stack[1] /\ top \in CallType
         /\ top.made \in Nat /\ top.registered \in Nat /\ top.setup \in Setup
         /\ CallOK(1) /\ RegisteredOK(1)
         /\ top.made > 0 => Latest \in Obj
<1>1. stack \in Seq(CallType) /\ Len(stack) \in Nat \ {0} /\ top = stack[1]
  BY DEF IInv, TypeOK, top
<1>2. top \in CallType
  BY <1>1
<1>3. top.made \in Nat /\ top.registered \in Nat /\ top.setup \in Setup
  BY <1>2, BoundAssumption DEF CallType
<1>4. CallOK(1) /\ RegisteredOK(1)
  BY <1>1 DEF IInv, Calls
<1>5. top.made > 0 => Latest \in Obj
  <2>1. top.made > 0 => top.made \in 1 .. top.made
    BY <1>3
  <2> QED BY <1>1, <1>4, <2>1 DEF CallOK, MadeOK, Latest
<1> QED BY <1>1, <1>2, <1>3, <1>4, <1>5

LEMMA QuietIInv ==
  ASSUME IInv, AddPre \/ GcDone \/ Crash \/ FreeStream \/ FreedStream \/ UNCHANGED vars
  PROVE  IInv'
<1>0. TypeOK /\ MainHolds /\ Switching /\ Failing
  BY DEF IInv
<1>1. CASE AddPre
  <2>1. Latest \in Obj
    <3>1. stack # <<>> /\ top.made > 0
      BY <1>1 DEF AddPre, Creating, Listed
    <3> QED BY <3>1, TopMade
  <2>2. TypeOK'
    BY <1>0, <1>1, <2>1 DEF AddPre, TypeOK, callVars, rtvVars
  <2>3. (MainHolds /\ Switching /\ Failing)'
    BY <1>0, <1>1 DEF AddPre, callVars, rtvVars, MainHolds, Switching, Failing
  <2>4. UNCHANGED <<ptr, refcount, setup, stack, todo>>
    BY <1>1 DEF AddPre, callVars
  <2> QED BY <2>2, <2>3, <2>4, SameHeap, CallsSpared
<1>2. CASE GcDone
  <2>2. TypeOK'
    BY <1>0, <1>2 DEF GcDone, TypeOK, heapVars, callVars, rtvVars
  <2>3. (MainHolds /\ Switching /\ Failing)'
    BY <1>0, <1>2 DEF GcDone, heapVars, callVars, rtvVars, MainHolds, Switching, Failing
  <2>4. UNCHANGED <<ptr, refcount, setup, stack, todo>>
    BY <1>2 DEF GcDone, heapVars, callVars
  <2> QED BY <2>2, <2>3, <2>4, SameHeap, CallsSpared
<1>3. CASE Crash
  <2>2. TypeOK'
    BY <1>0, <1>3 DEF Crash, TypeOK, heapVars, callVars, rtvVars
  <2>3. (MainHolds /\ Switching /\ Failing)'
    BY <1>0, <1>3 DEF Crash, Idle, heapVars, callVars, rtvVars, MainHolds, Switching, Failing
  <2>4. UNCHANGED <<ptr, refcount, setup, stack, todo>>
    BY <1>3 DEF Crash, heapVars, callVars
  <2> QED BY <2>2, <2>3, <2>4, SameHeap, CallsSpared
<1>4. CASE FreeStream
  <2>2. TypeOK'
    BY <1>0, <1>4 DEF FreeStream, TypeOK, heapVars, callVars, rtvVars
  <2>3. (MainHolds /\ Switching /\ Failing)'
    BY <1>0, <1>4 DEF FreeStream, heapVars, callVars, rtvVars, MainHolds, Switching, Failing
  <2>4. UNCHANGED <<ptr, refcount, setup, stack, todo>>
    BY <1>4 DEF FreeStream, heapVars, callVars
  <2> QED BY <2>2, <2>3, <2>4, SameHeap, CallsSpared
<1>5. CASE FreedStream
  <2>2. TypeOK'
    BY <1>0, <1>5 DEF FreedStream, TypeOK, heapVars, callVars, rtvVars
  <2>3. (MainHolds /\ Switching /\ Failing)'
    BY <1>0, <1>5 DEF FreedStream, heapVars, callVars, rtvVars, MainHolds, Switching, Failing
  <2>4. UNCHANGED <<ptr, refcount, setup, stack, todo>>
    BY <1>5 DEF FreedStream, heapVars, callVars
  <2> QED BY <2>2, <2>3, <2>4, SameHeap, CallsSpared
<1>6. CASE UNCHANGED vars
  <2>2. TypeOK'
    BY <1>0, <1>6 DEF vars, TypeOK, heapVars, callVars, rtvVars
  <2>3. (MainHolds /\ Switching /\ Failing)'
    BY <1>0, <1>6 DEF vars, heapVars, callVars, rtvVars, MainHolds, Switching, Failing
  <2>4. UNCHANGED <<ptr, refcount, setup, stack, todo>>
    BY <1>6 DEF vars, heapVars, callVars
  <2> QED BY <2>2, <2>3, <2>4, SameHeap, CallsSpared
<1> QED BY <1>1, <1>2, <1>3, <1>4, <1>5, <1>6

-----------------------------------------------------------------------------
(* What is begun: the first call, an error, what is to be freed *)

LEMMA CallTyped ==
  ASSUME NEW s \in Setup, NEW h \in Obj \union {"main"}, NEW i \in Index
  PROVE  Call(s, h, i) \in CallType
BY BoundAssumption DEF Call, CallType

LEMMA StartIInv ==
  ASSUME IInv, Start
  PROVE  IInv'
<1> DEFINE c == Call(Root, "main", 0)
<1>0. TypeOK /\ phase = "start" /\ phase' = "run" /\ stack' = <<c>> /\ Root \in Setup
  BY SetupAssumption DEF IInv, Start
<1>1. c \in CallType /\ Len(<<c>>) = 1 /\ <<c>>[1] = c /\ <<c>> # <<>> /\ <<c>> \in Seq(CallType)
  BY <1>0, Indexes, CallTyped
<1>2. TypeOK'
  <2>1. stack' \in Seq(CallType) /\ phase' = "run"
    BY <1>0, <1>1
  <2>2. UNCHANGED <<ptr, refcount, setup, pre, todo, failing, gc, on, switching, snow, retains, fails>>
    BY DEF Start, heapVars, rtvVars
  <2> QED BY <1>0, <2>1, <2>2 DEF TypeOK
<1>3. UNCHANGED <<ptr, refcount, setup, todo, failing, gc, on, switching>>
  BY DEF Start, heapVars, rtvVars
<1>4. NoDangling' /\ FinitelyPointed' /\ Allocated' /\ TodoHolds' /\ PartsApart'
  BY <1>3 DEF IInv, NoDangling, FinitelyPointed, Allocated, TodoHolds, PartsApart, Pointing
<1>5. /\ c.made = 0 /\ c.registered = 0 /\ c.parts = {} /\ c.holder = "main"
      /\ c.index = 0 /\ c.setup = Root
  BY DEF Call
<1> HIDE DEF c
<1>6. stack'[1] = c /\ Len(stack') = 1
  BY <1>0, <1>1
<1>7. FromMain(1)' /\ RegisteredOK(1)' /\ MadeOK(1)'
  <2>1. FromMain(1)' /\ RegisteredOK(1)'
    BY <1>5, <1>6 DEF FromMain, RegisteredOK
  <2>2. Clones[Root] = 1
    BY SetupAssumption
  <2>3. 1 .. stack'[1].made = {}
    BY <1>5, <1>6
  <2>4. MadeOK(1)'
    BY <1>5, <1>6, <2>2, <2>3 DEF MadeOK
  <2> QED BY <2>1, <2>4
<1>8. Calls' /\ Apart'
  BY <1>5, <1>6, <1>7 DEF Calls, CallOK, Apart
<1>9. MainHolds' /\ Switching' /\ Failing'
  <2>1. todo = {} /\ ~gc /\ ~switching /\ ~failing
    BY <1>0 DEF IInv, MainHolds, Failing
  <2>2. (\E d \in Obj : setup[d] = Rtv) => on # 0
    BY DEF IInv, Switching
  <2> QED BY <1>0, <1>1, <1>3, <1>5, <1>6, <2>1, <2>2 DEF MainHolds, Switching, Failing
<1> QED BY <1>2, <1>4, <1>8, <1>9 DEF IInv

LEMMA FailIInv ==
  ASSUME IInv, Fail
  PROVE  IInv'
<1>0. TypeOK /\ MainHolds /\ Switching /\ Failing /\ stack # <<>>
  BY DEF IInv, Fail, Creating
<1>1. UNCHANGED <<ptr, refcount, setup, pre, todo, stack, gc, on, switching, snow, retains, phase>>
  BY DEF Fail, heapVars, rtvVars
<1>2. TypeOK'
  <2>1. failing' \in BOOLEAN /\ fails' \in 0 .. MaxFails
    BY <1>0, BoundAssumption DEF Fail, TypeOK
  <2> QED BY <1>0, <1>1, <2>1 DEF TypeOK
<1>3. MainHolds' /\ Switching'
  BY <1>0, <1>1 DEF MainHolds, Switching
<1>4. ASSUME switching PROVE stack[1].setup # Rtv
  <2> SUFFICES ASSUME stack[1].setup = Rtv PROVE FALSE
    OBVIOUS
  <2>1. top = stack[1] /\ FromMain(1) /\ top.made \in Nat /\ RegisteredOK(1)
    BY <1>0, TopMade DEF CallOK
  <2>2. 1 = Len(stack) /\ Rtv = Root /\ Clones[Rtv] = 1
    BY <2>1, SetupAssumption DEF FromMain
  <2>3. top.made > 0
    BY <1>0, <1>4, <2>1, <2>2 DEF Switching
  <2>4. Listed
    BY <2>1, RtvAssumption DEF Listed
  <2>5. ~(top.made < Clones[top.setup]) /\ ~MadeAll
    BY <1>4, <2>1, <2>2, <2>3 DEF MadeAll
  <2> QED BY <2>4, <2>5 DEF Fail, Allocates
<1>5. Failing'
  BY <1>0, <1>1, <1>4 DEF Failing
<1> QED BY <1>1, <1>2, <1>3, <1>5, SameHeap, CallsSpared

LEMMA QuitIInv ==
  ASSUME IInv, Quit
  PROVE  IInv'
<1>0. TypeOK /\ MainHolds /\ Switching /\ Failing /\ stack = <<>> /\ ~switching /\ phase = "run"
  BY DEF IInv, Quit, Idle
<1>1. UNCHANGED <<ptr, refcount, setup, pre, stack, failing, gc, on, switching, snow, retains, fails>>
  BY DEF Quit, callVars, rtvVars
<1>2. todo' = {Main} /\ phase' = "quit" /\ Main \in Slot
  BY DEF Quit, Slot
<1>3. TypeOK'
  BY <1>0, <1>1, <1>2 DEF TypeOK
<1>4. ptr[Main] \notin {None, Main[1]}
  <2>1. ptr[Main] # None /\ ptr[Main] \in Obj
    BY <1>0, <1>2 DEF MainHolds, TypeOK
  <2> QED BY <2>1, HolderAssumption DEF Main
<1>5. MainHolds' /\ Switching' /\ Failing'
  BY <1>0, <1>1, <1>2 DEF MainHolds, Switching, Failing
<1>6. 1 .. Len(stack) = {}
  BY <1>0
<1> QED BY <1>0, <1>1, <1>2, <1>3, <1>4, <1>5, <1>6, SameHeap

\* The current channel is freed.
LEMMA SwitchIInv ==
  ASSUME IInv, Switch
  PROVE  IInv'
<1>0. TypeOK /\ MainHolds /\ Switching /\ Failing /\ stack = <<>> /\ todo = {} /\ ~switching /\ phase = "run"
  BY DEF IInv, Switch, Idle
<1>1. UNCHANGED <<ptr, refcount, setup, pre, stack, failing, snow, retains, phase, fails>>
  BY DEF Switch, callVars
<1>2. ptr[Main] \in Obj /\ Main \in Slot
  BY <1>0, NoneAssumption DEF MainHolds, TypeOK, Slot
<1>3. Channel \in Slot /\ Channel # Main /\ ptr[Channel] \notin {None, Channel[1]}
  <2>1. rtv \in Obj /\ on \in Index /\ 1 \in Clone
    BY <1>0, <1>2, Indexes, BoundAssumption DEF rtv, TypeOK, Clone
  <2>2. Channel = <<rtv, on, 1>> /\ rtv # "main"
    BY <2>1, HolderAssumption DEF Channel
  <2>3. on # 0
    BY <1>0, <2>1 DEF Switching, Switch
  <2>4. ptr[Channel] # Channel[1]
    BY <2>1, <2>2, <2>3 DEF IInv, PartsApart
  <2> QED BY <2>1, <2>2, <2>4 DEF Slot, Main, Switch
<1>4. todo' \subseteq {Channel} /\ gc' \in BOOLEAN /\ switching' = TRUE
  BY DEF Switch
<1>5. on' \in 0 .. Len(Parts[Rtv]) /\ on' # 0
  <2>1. 0 \notin DOMAIN Parts[Rtv]
    BY SetupAssumption
  <2> QED BY <2>1, Indexes DEF Switch, After
<1>6. TypeOK'
  BY <1>0, <1>1, <1>3, <1>4, <1>5 DEF TypeOK
<1>7. MainHolds' /\ Switching' /\ Failing'
  BY <1>0, <1>1, <1>3, <1>4, <1>5 DEF MainHolds, Switching, Failing
<1>8. 1 .. Len(stack) = {}
  BY <1>0
<1> QED BY <1>0, <1>1, <1>3, <1>4, <1>6, <1>7, <1>8, SameHeap

\* The stream's slots at a path are freed.
LEMMA GcIInv ==
  ASSUME IInv, NEW p \in Path, Gc(p)
  PROVE  IInv'
<1>0. TypeOK /\ MainHolds /\ Switching /\ Failing /\ gc
  BY DEF IInv, Gc
<1>1. UNCHANGED <<ptr, refcount, setup, pre, stack, failing, gc, on, switching, snow, retains, phase, fails>>
  BY DEF Gc, callVars, rtvVars
<1>2. todo' = Occupied(p) /\ todo' \subseteq Registered(p)
  BY DEF Gc, Occupied
<1>3. Registered(p) \subseteq Slot
  BY DEF Registered, Slot
<1>4. TypeOK'
  BY <1>0, <1>1, <1>2, <1>3 DEF TypeOK
<1>5. Main \notin Registered(p)
  BY DEF Main, Registered
<1>6. MainHolds' /\ Switching' /\ Failing'
  BY <1>0, <1>1, <1>2, <1>5 DEF MainHolds, Switching, Failing
<1>7. \A i \in 1 .. Len(stack) : \A n : Into(stack[i], n) \notin todo'
  BY <1>0, <1>2, NotTheStreams
<1>8. \A s \in todo' : ptr[s] \notin {None, s[1]}
  BY <1>0, <1>2, OccupiedHolds DEF Gc
<1> QED BY <1>1, <1>2, <1>4, <1>5, <1>6, <1>7, <1>8, SameHeap

\* What is at the path is freed: the stack is the same, but for reuse.
LEMMA DisplaceIInv ==
  ASSUME IInv, Displace
  PROVE  IInv'
<1> DEFINE p == PathOf[top.setup]
           r == Cardinality(Occupied(p)) >= top.made
           n == Len(stack)
<1>0. TypeOK /\ MainHolds /\ Switching /\ Failing /\ Calls /\ Apart /\ stack # <<>> /\ todo = {}
  BY DEF IInv, Displace, MadeAll, Creating
<1>1. UNCHANGED <<ptr, refcount, setup, pre, failing, gc, on, switching, snow, retains, phase, fails>>
  BY DEF Displace, rtvVars
<1>2. todo' = Occupied(p) /\ todo' \subseteq Registered(p)
  BY DEF Displace, Occupied
<1>3. p \in Path /\ Registered(p) \subseteq Slot
  <2>1. p \in Path
    BY <1>0, TopMade, SetupAssumption
  <2> QED BY <2>1 DEF Registered, Slot
<1>4. top = stack[1] /\ top \in CallType /\ n \in Nat \ {0} /\ stack \in Seq(CallType)
  BY <1>0, TopMade DEF TypeOK
<1>5. stack' = [stack EXCEPT ![1] = [stack[1] EXCEPT !.reuse = r]]
  BY DEF Displace
<1>6. [stack[1] EXCEPT !.reuse = r] \in CallType
  <2>1. r \in BOOLEAN
    OBVIOUS
  <2> HIDE DEF r
  <2> QED BY <1>4, <2>1 DEF CallType
<1>7. /\ stack' \in Seq(CallType) /\ Len(stack') = n /\ stack' # <<>>
      /\ \A i \in 2 .. n : stack'[i] = stack[i]
      /\ stack'[1] = [stack[1] EXCEPT !.reuse = r]
  BY <1>4, <1>5, <1>6
<1> HIDE DEF r
<1>8. \A i \in 1 .. n :
        /\ stack'[i].setup = stack[i].setup
        /\ stack'[i].holder = stack[i].holder
        /\ stack'[i].index = stack[i].index
        /\ stack'[i].made = stack[i].made
        /\ stack'[i].parts = stack[i].parts
        /\ stack'[i].registered = stack[i].registered
        /\ stack[i].made \in Nat
  <2>1. \A i \in 1 .. n : stack[i] \in CallType
    BY <1>4
  <2>2. \A i \in 1 .. n : stack[i].made \in Nat
    BY <2>1, BoundAssumption DEF CallType
  <2>3. /\ stack'[1].setup = stack[1].setup
        /\ stack'[1].holder = stack[1].holder
        /\ stack'[1].index = stack[1].index
        /\ stack'[1].made = stack[1].made
        /\ stack'[1].parts = stack[1].parts
        /\ stack'[1].registered = stack[1].registered
    BY <1>4, <1>7 DEF CallType
  <2>4. \A i \in 1 .. n : i = 1 \/ i \in 2 .. n
    BY <1>4
  <2> QED BY <1>7, <2>2, <2>3, <2>4
<1>9. Main \notin Registered(p) /\ \A i \in 1 .. n : \A m : Into(stack[i], m) \notin todo'
  BY <1>0, <1>2, NotTheStreams DEF Main, Registered
<1>10. TypeOK'
  BY <1>0, <1>1, <1>2, <1>3, <1>7 DEF TypeOK
<1>11. NoDangling' /\ FinitelyPointed' /\ Allocated' /\ TodoHolds' /\ PartsApart'
  <2>1. \A s \in todo' : ptr[s] \notin {None, s[1]}
    BY <1>0, <1>2, <1>3, OccupiedHolds
  <2> QED BY <1>1, <2>1 DEF IInv, NoDangling, FinitelyPointed, Allocated, TodoHolds, PartsApart, Pointing
<1>12. Main \notin todo' /\ ptr'[Main] = ptr[Main]
  BY <1>1, <1>2, <1>9
<1>14. Calls' /\ Apart'
  <2>1. \A i \in 1 .. n : \A m \in 1 .. stack[i].made :
          LET s == Into(stack[i], m) IN
             /\ s \notin todo'
             /\ ptr'[s] = ptr[s]
             /\ setup'[ptr[s]] = setup[ptr[s]]
             /\ refcount'[ptr[s]] = refcount[ptr[s]]
    BY <1>1, <1>9
  <2> QED BY <1>0, <1>7, <1>8, <1>12, <2>1, StackKept
<1>15. MainHolds' /\ Switching' /\ Failing'
  BY <1>0, <1>1, <1>2, <1>4, <1>7, <1>8, <1>9 DEF MainHolds, Switching, Failing
<1> QED BY <1>10, <1>11, <1>14, <1>15 DEF IInv

-----------------------------------------------------------------------------
(* What is freed *)

\* The slot that points to the context a call is made for is not to be freed,
\* nor is it the innermost call's.
LEMMA HolderPointed ==
  ASSUME IInv, NEW i \in 1 .. Len(stack), stack[i].holder \in Obj
  PROVE  /\ Anchor(i) \in Slot /\ Anchor(i) \notin todo
         /\ ptr[Anchor(i)] = stack[i].holder
         /\ \A n : Anchor(i) # Into(stack[1], n)
<1>0. TypeOK /\ Len(stack) \in Nat /\ CallOK(i) /\ Calls /\ Apart /\ 1 \in 1 .. Len(stack)
  BY DEF IInv, TypeOK, Calls
<1>1. Anchored(i)
  BY <1>0, HolderAssumption DEF CallOK, FromMain
<1>2. Anchor(i) \in Slot /\ \A n : Anchor(i) # Into(stack[1], n)
  <2>1. CASE i < Len(stack)
    <3>1. stack[i + 1].made > 0 /\ i + 1 \in 1 .. Len(stack) /\ i + 1 # 1
      BY <1>0, <1>1, <2>1 DEF Anchored
    <3>2. stack[i + 1] \in CallType /\ MadeOK(i + 1)
      BY <1>0, <3>1 DEF Calls, CallOK, TypeOK
    <3>3. stack[i + 1].made \in 1 .. stack[i + 1].made
      BY <3>1, <3>2, BoundAssumption DEF CallType
    <3>4. stack[i + 1].holder # stack[1].holder
      BY <1>0, <3>1 DEF Apart
    <3>5. Anchor(i) = Into(stack[i + 1], stack[i + 1].made)
      BY <2>1 DEF Anchor
    <3>6. \A n : Anchor(i) # Into(stack[1], n)
      BY <3>4, <3>5 DEF Into
    <3> QED BY <3>2, <3>3, <3>5, <3>6 DEF MadeOK
  <2>2. CASE i = Len(stack)
    <3>1. Anchor(i) = Main /\ Main \in Slot /\ Main[1] = "main"
      BY <2>2, <1>0 DEF Anchor, Slot, Main
    <3>2. CallOK(1) /\ ~FromMain(1)
      BY <1>0, <2>2, HolderAssumption DEF Calls, FromMain
    <3>3. stack[1].holder # "main"
      BY <3>2, HolderAssumption DEF CallOK, Anchored
    <3>4. \A n : Into(stack[1], n)[1] = stack[1].holder
      BY DEF Into
    <3> HIDE DEF Main
    <3> QED BY <3>1, <3>3, <3>4
  <2> QED BY <1>0, <2>1, <2>2
<1> QED BY <1>1, <1>2 DEF Anchored

\* What calls hold is untouched when slots that are to be freed change.
LEMMA FreeingKeepsCalls ==
  ASSUME IInv, UNCHANGED stack, NEW s \in todo,
         ptr' = [ptr EXCEPT ![s] = None],
         \A c \in Obj : c # ptr[s] => setup'[c] = setup[c] /\ refcount'[c] = refcount[c],
         refcount[ptr[s]] # 1 => setup' = setup,
         \A t \in todo' : t \in todo \/ t[1] = ptr[s],
         \A i \in 1 .. Len(stack) : stack[i].holder # ptr[s] \/ todo' \subseteq todo
  PROVE  (Calls /\ Apart)'
<1>0. TypeOK /\ Calls /\ Apart /\ Len(stack) \in Nat /\ NoDangling /\ FinitelyPointed
  BY DEF IInv, TypeOK
<1>1. s \in Slot /\ ptr[s] \in Obj
  BY <1>0 DEF IInv, TodoHolds, TypeOK
<1>2. ASSUME NEW i \in 1 .. Len(stack), NEW n \in 1 .. stack[i].made
      PROVE  LET t == Into(stack[i], n) IN
               /\ t \notin todo'
               /\ ptr'[t] = ptr[t]
               /\ setup'[ptr[t]] = setup[ptr[t]]
               /\ stack[i].registered = 0 => refcount'[ptr[t]] = refcount[ptr[t]]
  <2> DEFINE t == Into(stack[i], n)
  <2>1. /\ t \in Slot /\ t \notin todo /\ ptr[t] \in Obj
        /\ stack[i].registered = 0 => refcount[ptr[t]] = 1
    BY <1>0 DEF Calls, CallOK, MadeOK
  <2>2. t[1] = stack[i].holder
    BY DEF Into
  <2> HIDE DEF t
  <2>3. t # s /\ ptr'[t] = ptr[t]
    BY <1>0, <2>1 DEF TypeOK
  <2>4. t \notin todo'
    BY <2>1, <2>2
  <2>5. refcount[ptr[s]] = 1 => ptr[t] # ptr[s]
    BY <1>0, <1>1, <2>1, <2>3, PointedTo
  <2>6. setup'[ptr[t]] = setup[ptr[t]]
    BY <2>1, <2>5
  <2>7. stack[i].registered = 0 => ptr[t] # ptr[s]
    BY <2>1, <2>5
  <2> QED BY <2>1, <2>3, <2>4, <2>6, <2>7 DEF t
<1>3. stack # <<>> => Main \notin todo' /\ ptr'[Main] = ptr[Main]
  <2> SUFFICES ASSUME stack # <<>> PROVE Main \notin todo' /\ ptr'[Main] = ptr[Main]
    OBVIOUS
  <2>1. Main \notin todo /\ Main \in Slot /\ Main[1] = "main"
    BY CallsSpared DEF Slot, Main
  <2>2. ptr[s] # "main"
    BY <1>1, HolderAssumption
  <2>3. Main # s
    BY <2>1
  <2> HIDE DEF Main
  <2> QED BY <1>0, <2>1, <2>2, <2>3 DEF TypeOK
<1> QED BY <1>0, <1>2, <1>3, StackKept

LEMMA UnrefIInv ==
  ASSUME IInv, NEW s \in todo, Unref(s)
  PROVE  IInv'
<1>0. TypeOK /\ NoDangling /\ FinitelyPointed /\ MainHolds /\ Switching /\ Failing
  BY DEF IInv
<1>1. UNCHANGED <<setup, pre, stack, failing, gc, on, switching, snow, retains, phase, fails>>
  BY DEF Unref, callVars, rtvVars
<1>2. /\ s \in Slot /\ ptr[s] \in Obj
      /\ ptr' = [ptr EXCEPT ![s] = None]
      /\ refcount[ptr[s]] > 1 /\ refcount[ptr[s]] \in Nat
      /\ refcount' = [refcount EXCEPT ![ptr[s]] = refcount[ptr[s]] - 1]
      /\ todo' = todo \ {s}
  BY <1>0 DEF IInv, TodoHolds, TypeOK, Unref
<1>3. TypeOK'
  <2>1. ptr' \in [Slot -> Obj \union {None}]
    BY <1>0, <1>2 DEF TypeOK
  <2>2. refcount' \in [Obj -> Nat]
    BY <1>0, <1>2 DEF TypeOK
  <2>3. todo' \subseteq Slot
    BY <1>0, <1>2 DEF TypeOK
  <2> QED BY <1>0, <1>1, <2>1, <2>2, <2>3 DEF TypeOK
<1>4. NoDangling' /\ FinitelyPointed'
  BY <1>0, <1>2, Unreference
<1>5. Allocated'
  BY <1>0, <1>1, <1>2 DEF IInv, Allocated, TypeOK
<1>6. TodoHolds'
  BY <1>0, <1>2 DEF IInv, TodoHolds, TypeOK
<1>7. (Calls /\ Apart)'
  <2>1. \A c \in Obj : c # ptr[s] => setup'[c] = setup[c] /\ refcount'[c] = refcount[c]
    BY <1>0, <1>1, <1>2 DEF TypeOK
  <2>2. todo' \subseteq todo /\ (\A t \in todo' : t \in todo \/ t[1] = ptr[s])
    BY <1>2
  <2> QED BY <1>1, <1>2, <2>1, <2>2, FreeingKeepsCalls
<1>9. PartsApart'
  <2>1. \A c \in Obj : \A i \in Index, n \in Clone : <<c, i, n>> \in Slot
    BY DEF Slot
  <2>2. \A t \in Slot : ptr'[t] \in {None, ptr[t]}
    BY <1>0, <1>2 DEF TypeOK
  <2> QED BY <2>1, <2>2, NoneAssumption DEF IInv, PartsApart
<1>8. MainHolds' /\ Switching' /\ Failing'
  <2>1. phase = "run" => s # Main
    BY <1>0 DEF MainHolds
  <2>2. Main \in Slot
    BY DEF Slot
  <2>3. phase = "run" => ptr'[Main] = ptr[Main] /\ Main \notin todo'
    BY <1>0, <1>2, <2>1, <2>2 DEF MainHolds, TypeOK
  <2>4. phase # "start"
    BY <1>0 DEF MainHolds
  <2>5. MainHolds'
    BY <1>0, <1>1, <2>3, <2>4 DEF MainHolds
  <2> QED BY <1>0, <1>1, <2>5 DEF Switching, Failing
<1> QED BY <1>3, <1>4, <1>5, <1>6, <1>7, <1>8, <1>9 DEF IInv

LEMMA DestroyIInv ==
  ASSUME IInv, NEW s \in todo, Destroy(s)
  PROVE  IInv'
<1> DEFINE c == ptr[s]
<1>0. TypeOK /\ NoDangling /\ FinitelyPointed /\ MainHolds /\ Switching /\ Failing
  BY DEF IInv
<1>1. UNCHANGED <<stack, failing, gc, on, switching, snow, retains, phase, fails>>
  BY DEF Destroy, callVars, rtvVars
<1>2. /\ s \in Slot /\ c \in Obj
      /\ ptr' = [ptr EXCEPT ![s] = None]
      /\ refcount[c] = 1
      /\ refcount' = [refcount EXCEPT ![c] = 0]
      /\ setup' = [setup EXCEPT ![c] = None]
      /\ pre' = Delisted(c)
      /\ todo' = (todo \ {s}) \union Destroys(c)
  BY <1>0 DEF IInv, TodoHolds, TypeOK, Destroy
<1>3. \A t \in Destroys(c) : t \in Slot /\ t[1] = c /\ ptr[t] # None
  <2>1. Destroys(c) \subseteq Held(c) /\ \A t \in Destroys(c) : ptr[t] # None
    BY DEF Destroys
  <2>2. Held(c) \subseteq Slot /\ \A t \in Held(c) : t[1] = c
    BY <1>2 DEF Held, Slot
  <2> QED BY <2>1, <2>2
<1>4. \A t \in Slot : ptr[t] = c => t = s
  BY <1>0, <1>2, PointedTo
<1>5. TypeOK'
  <2>1. ptr' \in [Slot -> Obj \union {None}]
    BY <1>0, <1>2 DEF TypeOK
  <2>2. refcount' \in [Obj -> Nat]
    BY <1>0, <1>2 DEF TypeOK
  <2>3. setup' \in [Obj -> Setup \union {None}]
    BY <1>0, <1>2 DEF TypeOK
  <2>4. todo' \subseteq Slot
    BY <1>0, <1>2, <1>3 DEF TypeOK
  <2>5. pre' \subseteq Obj
    BY <1>0, <1>2 DEF TypeOK, Delisted
  <2> QED BY <1>0, <1>1, <2>1, <2>2, <2>3, <2>4, <2>5 DEF TypeOK
<1> HIDE DEF c
<1>6. NoDangling' /\ FinitelyPointed'
  <2>1. refcount' = [refcount EXCEPT ![ptr[s]] = refcount[ptr[s]] - 1]
    BY <1>2 DEF c
  <2> QED BY <1>0, <1>2, <2>1, Unreference DEF c
<1>7. Allocated'
  BY <1>0, <1>2 DEF IInv, Allocated, TypeOK
<1>8. TodoHolds'
  <2> SUFFICES ASSUME NEW t \in todo' PROVE ptr'[t] \notin {None, t[1]}
    BY DEF TodoHolds
  <2>1. t \in Slot /\ ptr[t] # None
    BY <1>0, <1>2, <1>3 DEF IInv, TodoHolds, TypeOK
  <2>2. c # s[1]
    BY DEF IInv, TodoHolds, c
  <2>3. t # s /\ ptr[t] # t[1]
    <3>1. CASE t \in todo \ {s}
      BY <3>1 DEF IInv, TodoHolds
    <3>2. CASE t \in Destroys(c)
      BY <3>2, <1>2, <1>3, <1>4, <2>1, <2>2
    <3> QED BY <1>2, <3>1, <3>2
  <2> QED BY <1>0, <1>2, <2>1, <2>3 DEF TypeOK
<1>9. PartsApart'
  <2>1. \A d \in Obj : \A i \in Index, n \in Clone : <<d, i, n>> \in Slot
    BY DEF Slot
  <2>2. \A t \in Slot : ptr'[t] \in {None, ptr[t]}
    BY <1>0, <1>2 DEF TypeOK
  <2> QED BY <2>1, <2>2, NoneAssumption DEF IInv, PartsApart
<1>10. (Calls /\ Apart)'
  <2>1. \A d \in Obj : d # c => setup'[d] = setup[d] /\ refcount'[d] = refcount[d]
    BY <1>0, <1>2 DEF TypeOK
  <2>2. \A t \in todo' : t \in todo \/ t[1] = c
    BY <1>2, <1>3
  <2>3. \A i \in 1 .. Len(stack) : stack[i].holder # c
    <3> SUFFICES ASSUME NEW i \in 1 .. Len(stack), stack[i].holder = c PROVE FALSE
      OBVIOUS
    <3>1. Anchor(i) \in Slot /\ Anchor(i) \notin todo /\ ptr[Anchor(i)] = c
      BY <1>2, HolderPointed
    <3> QED BY <1>4, <3>1
  <2> QED BY <1>1, <1>2, <2>1, <2>2, <2>3, FreeingKeepsCalls DEF c
<1>11. MainHolds' /\ Switching' /\ Failing'
  <2>1. phase = "run" => s # Main
    BY <1>0 DEF MainHolds
  <2>2. Main \in Slot /\ Main[1] # c
    BY <1>2, HolderAssumption DEF Slot, Main
  <2>3. Main \notin Destroys(c)
    BY <1>3, <2>2
  <2>4. phase = "run" => ptr'[Main] = ptr[Main] /\ Main \notin todo'
    BY <1>0, <1>2, <2>1, <2>2, <2>3 DEF MainHolds, TypeOK
  <2>5. phase # "start"
    BY <1>0 DEF MainHolds
  <2>6. MainHolds'
    BY <1>0, <1>1, <2>4, <2>5 DEF MainHolds
  <2>7. \A d \in Obj : setup'[d] = Rtv => setup[d] = Rtv
    BY <1>0, <1>2, NoneAssumption, SetupAssumption DEF TypeOK
  <2> QED BY <1>0, <1>1, <2>6, <2>7 DEF Switching, Failing
<1> QED BY <1>5, <1>6, <1>7, <1>8, <1>9, <1>10, <1>11 DEF IInv

-----------------------------------------------------------------------------
(* What is referenced *)

LEMMA RefFindIInv ==
  ASSUME IInv, NEW c \in Obj, RefFind(c)
  PROVE  IInv'
<1> DEFINE s == <<c, 0, 1>>
           d == ptr[<<"stream", Target[setup[c]], 1>>]
<1>0. TypeOK /\ NoDangling /\ FinitelyPointed /\ MainHolds /\ Switching /\ Failing
      /\ stack = <<>> /\ todo = {} /\ Calls /\ Apart /\ PartsApart
  BY DEF IInv, RefFind, Idle
<1>1. UNCHANGED <<setup, pre, todo, stack, failing, gc, on, switching, snow, retains, phase, fails>>
  BY DEF RefFind, callVars, rtvVars
<1>2. d # None /\ ptr' = [ptr EXCEPT ![s] = d] /\ refcount' = Referenced(d)
  BY DEF RefFind
<1>3. s \in Slot /\ <<"stream", Target[setup[c]], 1>> \in Slot
  <2>1. 1 \in Clone /\ 0 \in Index
    BY BoundAssumption, Indexes DEF Clone
  <2>2. Target[setup[c]] \in Path
    BY <1>0, SetupAssumption DEF RefFind, Live, TypeOK
  <2> QED BY <2>1, <2>2 DEF Slot
<1>4. d \in Obj /\ refcount[d] \in Nat \ {0}
  <2>1. d \in Obj
    BY <1>0, <1>2, <1>3 DEF TypeOK
  <2> QED BY <1>0, <1>3, <2>1, PointedTo
<1> HIDE DEF d
<1>5. TypeOK'
  <2>1. ptr' \in [Slot -> Obj \union {None}]
    BY <1>0, <1>2, <1>4 DEF TypeOK
  <2>2. refcount' \in [Obj -> Nat]
    BY <1>0, <1>2, <1>4 DEF TypeOK, Referenced
  <2> QED BY <1>0, <1>1, <2>1, <2>2 DEF TypeOK
<1>6. NoDangling' /\ FinitelyPointed'
  BY <1>0, <1>2, <1>3, <1>4, Reference
<1>7. Allocated'
  BY <1>0, <1>1, <1>2, <1>4 DEF IInv, Allocated, Referenced, TypeOK
<1>8. TodoHolds'
  BY <1>0, <1>1 DEF TodoHolds
<1>9. PartsApart'
  <2> SUFFICES ASSUME NEW e \in Obj, NEW i \in Index \ {0}, NEW n \in Clone
               PROVE  ptr'[<<e, i, n>>] # e
    BY DEF PartsApart
  <2>1. <<e, i, n>> \in Slot /\ <<e, i, n>> # s
    BY DEF Slot
  <2>2. ptr'[<<e, i, n>>] = ptr[<<e, i, n>>]
    BY <1>0, <1>2, <2>1 DEF TypeOK
  <2> QED BY <1>0, <2>2 DEF PartsApart
<1>10. Calls' /\ Apart'
  <2>1. 1 .. Len(stack') = {}
    BY <1>0, <1>1
  <2> QED BY <2>1 DEF Calls, Apart
<1>11. MainHolds' /\ Switching' /\ Failing'
  <2>1. Main \in Slot /\ Main # s
    BY HolderAssumption DEF Main, Slot
  <2>2. ptr'[Main] = ptr[Main]
    BY <1>0, <1>2, <2>1 DEF TypeOK
  <2> HIDE DEF s
  <2>3. MainHolds'
    BY <1>0, <1>1, <2>2 DEF MainHolds
  <2> QED BY <1>0, <1>1, <2>3 DEF Switching, Failing
<1> QED BY <1>5, <1>6, <1>7, <1>8, <1>9, <1>10, <1>11 DEF IInv

-----------------------------------------------------------------------------
(* Creation *)

\* A call is made: for the context the innermost call made last, or, when none
\* is in progress, for main()'s.
LEMMA PushKeepsCalls ==
  ASSUME IInv, todo = {}, UNCHANGED <<ptr, refcount, setup, todo>>,
         NEW s \in Setup, s # Rtv, NEW h \in Obj, NEW i \in Index, i # 0,
         NEW base \in Seq(CallType), Len(base) = Len(stack),
         \A j \in 1 .. Len(stack) :
           /\ base[j].setup = stack[j].setup
           /\ base[j].holder = stack[j].holder
           /\ base[j].index = stack[j].index
           /\ base[j].made = stack[j].made
           /\ base[j].parts \subseteq stack[j].parts
           /\ base[j].registered = stack[j].registered,
         stack' = <<Call(s, h, i)>> \o base,
         stack = <<>> => h = ptr[Main],
         stack # <<>> => h = Latest /\ top.made > 0 /\ top.registered = 0
  PROVE  /\ (Calls /\ Apart)'
         /\ stack' \in Seq(CallType) /\ stack' # <<>>
         /\ Len(stack') = Len(stack) + 1
         /\ stack'[1] = Call(s, h, i)
         /\ \A j \in 2 .. Len(stack') : stack'[j] = base[j - 1]
<1> DEFINE c == Call(s, h, i)
           K == 2 .. Len(stack')
<1>0. TypeOK /\ Calls /\ Apart /\ Len(stack) \in Nat /\ stack \in Seq(CallType)
      /\ NoDangling /\ FinitelyPointed
  BY DEF IInv, TypeOK
<1>1. /\ c \in CallType /\ c.setup = s /\ c.holder = h /\ c.index = i /\ c.made = 0
      /\ c.parts = {} /\ c.registered = 0
  BY CallTyped DEF Call
<1> HIDE DEF c
<1>2. /\ stack' \in Seq(CallType) /\ stack' # <<>>
      /\ Len(stack') = Len(stack) + 1
      /\ stack'[1] = c
      /\ \A j \in 2 .. Len(stack') : stack'[j] = base[j - 1]
  <2>1. stack' = <<c>> \o base
    BY DEF c
  <2> QED BY <1>0, <1>1, <2>1
<1>3. \A j \in K :
        /\ j + (-1) \in 1 .. Len(stack) /\ j \in 1 .. Len(stack') /\ j \in Nat
        /\ j < Len(stack') => j + 1 \in K
        /\ stack'[j] = base[j + (-1)]
  BY <1>0, <1>2
<1>4. \A j \in K :
        /\ stack'[j].setup = stack[j + (-1)].setup
        /\ stack'[j].holder = stack[j + (-1)].holder
        /\ stack'[j].index = stack[j + (-1)].index
        /\ stack'[j].made = stack[j + (-1)].made
        /\ stack'[j].parts \subseteq stack[j + (-1)].parts
        /\ stack'[j].registered = stack[j + (-1)].registered
        /\ stack[j + (-1)].made \in Nat
  <2>1. \A j \in 1 .. Len(stack) : stack[j].made \in Nat
    <3>1. \A j \in 1 .. Len(stack) : stack[j] \in CallType
      BY <1>0
    <3>2. \A call \in CallType : call.made \in Nat
      BY ONLY BoundAssumption DEF CallType
    <3> QED BY ONLY <3>1, <3>2
  <2> SUFFICES ASSUME NEW j \in K
               PROVE  /\ stack'[j].setup = stack[j + (-1)].setup
                      /\ stack'[j].holder = stack[j + (-1)].holder
                      /\ stack'[j].index = stack[j + (-1)].index
                      /\ stack'[j].made = stack[j + (-1)].made
                      /\ stack'[j].parts \subseteq stack[j + (-1)].parts
                      /\ stack'[j].registered = stack[j + (-1)].registered
                      /\ stack[j + (-1)].made \in Nat
    OBVIOUS
  <2> DEFINE m == j + (-1)
  <2>2. m \in 1 .. Len(stack) /\ stack'[j] = base[m]
    BY <1>3
  <2> HIDE DEF m
  <2>3. /\ base[m].setup = stack[m].setup /\ base[m].holder = stack[m].holder
        /\ base[m].index = stack[m].index /\ base[m].made = stack[m].made
        /\ base[m].parts \subseteq stack[m].parts
        /\ base[m].registered = stack[m].registered
    BY <2>2
  <2>4. stack[m].made \in Nat
    BY <2>1, <2>2
  <2> QED BY ONLY <2>2, <2>3, <2>4 DEF m
<1>5. \A j \in 1 .. Len(stack) : stack[j].registered = 0
  <2> SUFFICES ASSUME NEW j \in 1 .. Len(stack), stack[j].registered # 0 PROVE FALSE
    OBVIOUS
  <2>1. j = 1 /\ stack # <<>>
    BY <1>0 DEF Calls, RegisteredOK
  <2> QED BY <2>1, TopMade
<1>6. \A j \in 1 .. Len(stack') : stack'[j].registered = 0
  <2> SUFFICES ASSUME NEW j \in 1 .. Len(stack') PROVE stack'[j].registered = 0
    OBVIOUS
  <2>1. j = 1 \/ j \in K
    BY <1>0, <1>2
  <2>2. ASSUME j \in K PROVE stack'[j].registered = 0
    <3> DEFINE m == j + (-1)
    <3>1. m \in 1 .. Len(stack) /\ stack'[j].registered = stack[m].registered
      BY <1>3, <1>4, <2>2
    <3> HIDE DEF m
    <3> QED BY <1>5, <3>1
  <2> QED BY <1>1, <1>2, <2>1, <2>2
<1>7. \A j \in K : CallOK(j)'
  <2>1. Len(stack') = Len(stack) - (-1) /\ -1 \in {-1, 0, 1} /\ K \in SUBSET Nat
    BY <1>0, <1>2, <1>3
  <2>2. Spares(K)
    <3>1. ASSUME NEW j \in K, NEW n \in 1 .. stack'[j].made
          PROVE  Into(stack'[j], n) \notin todo'
      OBVIOUS
    <3> QED BY <3>1 DEF Spares
  <2> HIDE DEF K
  <2>3. Keeps(-1, K)
    BY <1>3, <1>4, <2>1 DEF Keeps
  <2> QED BY <1>0, <2>1, <2>2, <2>3, CallsKept
<1>8. CallOK(1)'
  <2>1. MadeOK(1)'
    <3>1. Clones[s] > 0 /\ 1 .. 0 = {}
      BY ClonesBound, BoundAssumption
    <3> QED BY <1>1, <1>2, <3>1, ClonesBound, BoundAssumption DEF MadeOK
  <2>2. Anchored(1)'
    <3>1. CASE stack = <<>>
      <4>1. Len(stack') = 1 /\ ~(1 < Len(stack'))
        BY <1>2, <3>1
      <4> QED BY <1>1, <1>2, <3>1, <4>1 DEF Anchored, Anchor
    <3>2. CASE stack # <<>>
      <4>1. 1 < Len(stack') /\ 2 \in K
        BY <1>0, <1>2, <3>2
      <4>2. stack'[2].made = top.made /\ Into(stack'[2], stack'[2].made) = Into(top, top.made)
        BY <1>2, <1>4, <3>2, <4>1, TopMade DEF Into
      <4>3. Anchor(1)' = Into(top, top.made)
        BY <4>1, <4>2 DEF Anchor
      <4> QED BY <1>1, <1>2, <3>2, <4>1, <4>2, <4>3 DEF Anchored, Latest
    <3> QED BY <3>1, <3>2
  <2> QED BY <1>1, <1>2, <2>1, <2>2 DEF CallOK
<1>9. \A j \in 1 .. Len(stack) : stack[j].holder # h
  <2> SUFFICES ASSUME NEW j \in 1 .. Len(stack), stack[j].holder = h PROVE FALSE
    OBVIOUS
  <2>1. stack # <<>>
    OBVIOUS
  <2>a. /\ Anchor(j) \in Slot /\ ptr[Anchor(j)] = h
        /\ Anchor(j) # Into(top, top.made)
    BY <2>1, HolderPointed, TopMade
  <2>2. PICK t \in Slot : ptr[t] = h /\ t # Into(top, top.made)
    BY <2>a
  <2>3. /\ top.made \in 1 .. top.made /\ top = stack[1] /\ MadeOK(1)
        /\ h = ptr[Into(top, top.made)] /\ top.registered = 0
    BY <2>1, TopMade DEF CallOK, Latest
  <2>4. Into(top, top.made) \in Slot /\ refcount[h] = 1
    BY <2>3 DEF MadeOK
  <2> QED BY <1>0, <2>2, <2>3, <2>4, PointedTo
<1>10. Apart'
  <2> SUFFICES ASSUME NEW j \in 1 .. Len(stack'), NEW l \in 1 .. Len(stack'),
                      stack'[j].holder = stack'[l].holder
               PROVE  j = l
    BY DEF Apart
  <2>1. (j = 1 \/ j \in K) /\ (l = 1 \/ l \in K)
    BY <1>0, <1>2
  <2>2. CASE j = 1 /\ l = 1
    BY <2>2
  <2>a. \A q \in K : \E m \in 1 .. Len(stack) :
          m = q + (-1) /\ stack'[q].holder = stack[m].holder
    BY <1>3, <1>4
  <2>b. stack'[1].holder = h
    BY <1>1, <1>2
  <2>3. CASE j = 1 /\ l \in K
    BY <1>9, <2>3, <2>a, <2>b
  <2>4. CASE j \in K /\ l = 1
    BY <1>9, <2>4, <2>a, <2>b
  <2>5. CASE j \in K /\ l \in K
    <3>1. PICK m \in 1 .. Len(stack) : m = j + (-1) /\ stack'[j].holder = stack[m].holder
      BY <2>5, <2>a
    <3>2. PICK o \in 1 .. Len(stack) : o = l + (-1) /\ stack'[l].holder = stack[o].holder
      BY <2>5, <2>a
    <3>3. stack[m].holder = stack[o].holder
      BY <3>1, <3>2
    <3>4. m = o
      BY <1>0, <3>3 DEF Apart
    <3> QED BY <1>3, <2>5, <3>1, <3>2, <3>4
  <2> QED BY <2>1, <2>2, <2>3, <2>4, <2>5
<1>11. \A j \in 1 .. Len(stack') : CallOK(j)'
  <2>1. \A j \in 1 .. Len(stack') : j = 1 \/ j \in K
    BY <1>0, <1>2
  <2> QED BY <1>7, <1>8, <2>1
<1>12. Calls'
  BY <1>6, <1>11 DEF Calls, RegisteredOK
<1> QED BY <1>2, <1>10, <1>12 DEF c

\* The rest of the invariant holds after a call is made.
LEMMA PushIInv ==
  ASSUME IInv, todo = {}, ~failing, phase = "run",
         UNCHANGED <<heapVars, failing, gc, on, snow, retains, phase, fails>>,
         switching' \in BOOLEAN, switching' => switching /\ stack # <<>>,
         NEW s \in Setup, s # Rtv, NEW h \in Obj, NEW i \in Index, i # 0,
         NEW base \in Seq(CallType), Len(base) = Len(stack),
         \A j \in 1 .. Len(stack) :
           /\ base[j].setup = stack[j].setup
           /\ base[j].holder = stack[j].holder
           /\ base[j].index = stack[j].index
           /\ base[j].made = stack[j].made
           /\ base[j].parts \subseteq stack[j].parts
           /\ base[j].registered = stack[j].registered,
         stack' = <<Call(s, h, i)>> \o base,
         stack = <<>> => h = ptr[Main],
         stack # <<>> => h = Latest /\ top.made > 0 /\ top.registered = 0
  PROVE  IInv'
<1>0. TypeOK /\ MainHolds /\ Switching /\ Failing /\ Len(stack) \in Nat
  BY DEF IInv, TypeOK
<1>1. UNCHANGED <<ptr, refcount, setup, pre, todo>>
  BY DEF heapVars
<1>2. /\ (Calls /\ Apart)'
      /\ stack' \in Seq(CallType) /\ stack' # <<>>
      /\ Len(stack') = Len(stack) + 1
      /\ \A j \in 2 .. Len(stack') : stack'[j] = base[j - 1]
  BY <1>1, PushKeepsCalls
<1>3. TypeOK'
  BY <1>0, <1>1, <1>2 DEF TypeOK
<1>4. NoDangling' /\ FinitelyPointed' /\ Allocated' /\ TodoHolds' /\ PartsApart'
  BY <1>1 DEF IInv, NoDangling, FinitelyPointed, Allocated, TodoHolds, PartsApart, Pointing
<1>5. stack # <<>> =>
        /\ stack'[Len(stack')].holder = stack[Len(stack)].holder
        /\ stack'[Len(stack')].setup = stack[Len(stack)].setup
        /\ stack'[Len(stack')].made = stack[Len(stack)].made
  <2>1. stack # <<>> => Len(stack) \in 1 .. Len(stack) /\ Len(stack') - 1 = Len(stack)
                        /\ Len(stack') \in 2 .. Len(stack')
    BY <1>0, <1>2
  <2> QED BY <1>2, <2>1
<1>6. stack = <<>> => ptr[Main] # None
  BY NoneAssumption
<1>7. (MainHolds /\ Switching /\ Failing)'
  BY <1>0, <1>1, <1>2, <1>5, <1>6 DEF MainHolds, Switching, Failing
<1> QED BY <1>2, <1>3, <1>4, <1>7 DEF IInv

\* A call for a part that the innermost call's context renders.
LEMMA MakePartIInv ==
  ASSUME IInv, MakePart
  PROVE  IInv'
<1> DEFINE n == Len(stack)
<1>0. TypeOK /\ MainHolds /\ stack # <<>> /\ ~failing /\ todo = {}
  BY DEF IInv, MakePart, Creating
<1>1. PICK i \in top.parts :
        stack' = <<Call(Parts[top.setup][i], Latest, i)>> \o [stack EXCEPT ![1].parts = @ \ {i}]
  BY DEF MakePart
<1>2. /\ top = stack[1] /\ top \in CallType /\ n \in Nat \ {0} /\ stack \in Seq(CallType)
      /\ CallOK(1) /\ RegisteredOK(1) /\ top.setup \in Setup
      /\ (top.made > 0 => Latest \in Obj)
  BY <1>0, TopMade DEF TypeOK
<1>3. top.made > 0 /\ i \in DOMAIN Parts[top.setup] /\ top.registered = 0 /\ Latest \in Obj
  BY <1>2 DEF CallOK, RegisteredOK
<1>4. Parts[top.setup][i] \in Setup \ {Rtv} /\ i \in Index /\ i # 0
  <2>1. Parts[top.setup] \in Seq(Setup)
    BY <1>2, SetupAssumption
  <2>2. i \in 1 .. Len(Parts[top.setup])
    BY <1>3, <2>1
  <2>3. Parts[top.setup][i] \in Setup /\ i # 0
    BY <2>1, <2>2
  <2> QED BY <1>2, <1>3, <2>3, RtvAssumption, Indexes
<1> DEFINE call == [stack[1] EXCEPT !.parts = @ \ {i}]
           base == [stack EXCEPT ![1] = call]
<1>5. call \in CallType
  <2>1. stack[1].parts \ {i} \subseteq Index
    BY <1>2 DEF CallType
  <2> QED BY <1>2, <2>1 DEF CallType
<1>6. /\ call.setup = stack[1].setup /\ call.holder = stack[1].holder
      /\ call.index = stack[1].index /\ call.made = stack[1].made
      /\ call.parts \subseteq stack[1].parts /\ call.registered = stack[1].registered
  BY <1>2 DEF CallType
<1>7. stack' = <<Call(Parts[top.setup][i], Latest, i)>> \o base
  BY <1>1
<1> HIDE DEF call
<1>8. /\ base \in Seq(CallType) /\ Len(base) = n
      /\ base[1] = call /\ \A j \in 2 .. n : base[j] = stack[j]
  BY <1>2, <1>5
<1> HIDE DEF base
<1>9. \A j \in 1 .. n :
        /\ base[j].setup = stack[j].setup
        /\ base[j].holder = stack[j].holder
        /\ base[j].index = stack[j].index
        /\ base[j].made = stack[j].made
        /\ base[j].parts \subseteq stack[j].parts
        /\ base[j].registered = stack[j].registered
  <2>1. \A j \in 1 .. n : j = 1 \/ j \in 2 .. n
    BY <1>2
  <2> QED BY <1>6, <1>8, <2>1
<1>10. phase = "run"
  BY <1>0 DEF MainHolds
<1>11. UNCHANGED <<heapVars, failing, gc, on, switching, snow, retains, phase, fails>>
  BY DEF MakePart, rtvVars
<1>12. switching' \in BOOLEAN /\ switching' = switching
  BY <1>0, <1>11 DEF TypeOK
<1> DEFINE s == Parts[top.setup][i]
           h == Latest
<1>13. /\ s \in Setup /\ s # Rtv /\ h \in Obj /\ i \in Index /\ i # 0
       /\ stack' = <<Call(s, h, i)>> \o base
       /\ h = Latest /\ top.made > 0 /\ top.registered = 0
  BY <1>3, <1>4, <1>7
<1>14. base \in Seq(CallType) /\ Len(base) = Len(stack)
  BY <1>8
<1> HIDE DEF s, h, n
<1>15. \A j \in 1 .. Len(stack) :
        /\ base[j].setup = stack[j].setup
        /\ base[j].holder = stack[j].holder
        /\ base[j].index = stack[j].index
        /\ base[j].made = stack[j].made
        /\ base[j].parts \subseteq stack[j].parts
        /\ base[j].registered = stack[j].registered
  BY <1>9 DEF n
<1> QED BY <1>0, <1>10, <1>11, <1>12, <1>13, <1>14, <1>15, PushIInv

\* A call for the channel that rtv switched to, unless its context lasted.
LEMMA TuneIInv ==
  ASSUME IInv, Tune
  PROVE  IInv'
<1> DEFINE n == Len(stack)
           c == IF stack = <<>> THEN rtv ELSE Latest
<1>0. TypeOK /\ MainHolds /\ Switching /\ Failing /\ switching /\ todo = {} /\ phase = "run"
      /\ stack \in Seq(CallType) /\ n \in Nat
      /\ (stack # <<>> => ~failing /\ top.setup = Rtv)
  BY DEF IInv, Tune, Creating, Switching, TypeOK
<1>1. UNCHANGED <<heapVars, failing, gc, on, snow, retains, phase, fails>> /\ switching' = FALSE
  BY DEF Tune
<1>2. ~failing
  BY <1>0 DEF Failing
<1>3. stack = <<>> => rtv \in Obj
  <2>1. Main \in Slot
    BY DEF Slot
  <2> QED BY <1>0, <2>1 DEF MainHolds, TypeOK, rtv
<1>4. stack # <<>> => top.made > 0 /\ top.registered = 0 /\ Latest \in Obj
  <2> SUFFICES ASSUME stack # <<>>
               PROVE  top.made > 0 /\ top.registered = 0 /\ Latest \in Obj
    OBVIOUS
  <2>1. /\ top = stack[1] /\ top.made \in Nat /\ top.registered \in Nat
        /\ CallOK(1) /\ RegisteredOK(1) /\ (top.made > 0 => Latest \in Obj)
    BY TopMade
  <2>2. FromMain(1)
    BY <1>0, <2>1 DEF CallOK
  <2>3. n = 1 /\ top.setup = Root /\ Clones[Root] = 1
    BY <2>1, <2>2, SetupAssumption DEF FromMain
  <2>4. top.made > 0
    BY <1>0, <2>1, <2>3 DEF Switching
  <2>5. top.registered = 0
    BY <2>1, <2>3 DEF RegisteredOK
  <2> QED BY <2>1, <2>4, <2>5
<1>5. c \in Obj /\ (stack = <<>> => c = ptr[Main]) /\ (stack # <<>> => c = Latest)
  BY <1>3, <1>4 DEF rtv
<1>6. stack' = IF ptr[<<c, on, 1>>] = None
               THEN <<Call(Parts[Rtv][on], c, on)>> \o stack ELSE stack
  BY DEF Tune
<1> HIDE DEF c
<1>7. CASE ptr[<<c, on, 1>>] = None
  <2>1. on # 0 /\ on \in 0 .. Len(Parts[Rtv])
    BY <1>0 DEF Switching, TypeOK
  <2>2. Parts[Rtv] \in Seq(Setup) /\ Rtv \in Setup
    BY SetupAssumption
  <2>3. on \in 1 .. Len(Parts[Rtv])
    BY <2>1, <2>2
  <2>4. Parts[Rtv][on] \in Setup \ {Rtv} /\ on \in Index
    BY <2>1, <2>2, <2>3, RtvAssumption, Indexes
  <2>5. stack' = <<Call(Parts[Rtv][on], c, on)>> \o stack
    BY <1>6, <1>7
  <2> QED BY <1>0, <1>1, <1>2, <1>4, <1>5, <2>1, <2>4, <2>5, PushIInv
<1>8. CASE ptr[<<c, on, 1>>] # None
  <2>1. UNCHANGED <<ptr, refcount, setup, pre, todo, stack>>
    BY <1>1, <1>6, <1>8 DEF heapVars
  <2>2. TypeOK'
    BY <1>0, <1>1, <2>1 DEF TypeOK
  <2>3. (MainHolds /\ Switching /\ Failing)'
    BY <1>0, <1>1, <1>2, <2>1 DEF MainHolds, Switching, Failing
  <2> QED BY <2>1, <2>2, <2>3, SameHeap, CallsSpared
<1> QED BY <1>7, <1>8

\* A context is allocated for the innermost call, which alone points to it.
LEMMA NewIInv ==
  ASSUME IInv, NEW c \in Obj, New(c)
  PROVE  IInv'
<1> DEFINE l == Len(stack)
           m == top.made + 1
           w == Into(top, m)
           P == PartsOf(top.setup)
           K == 2 .. l
<1>0. TypeOK /\ NoDangling /\ FinitelyPointed /\ Allocated /\ PartsApart /\ Calls /\ Apart
      /\ MainHolds /\ Switching /\ Failing /\ stack # <<>> /\ ~failing /\ todo = {}
  BY DEF IInv, New, Creating
<1>1. /\ top = stack[1] /\ top \in CallType /\ l \in Nat \ {0} /\ stack \in Seq(CallType)
      /\ CallOK(1) /\ RegisteredOK(1) /\ top.setup \in Setup
      /\ top.made \in Nat /\ top.registered \in Nat
  BY <1>0, TopMade DEF TypeOK
<1>2. UNCHANGED <<pre, todo, failing, gc, snow, retains, phase, fails>>
  BY DEF New
<1>3. /\ top.made < Clones[top.setup] /\ setup[c] = None
      /\ setup' = [setup EXCEPT ![c] = top.setup]
      /\ ptr' = [s \in Slot |-> IF s \in Held(c) THEN None ELSE IF s = w THEN c ELSE ptr[s]]
      /\ refcount' = [refcount EXCEPT ![c] = 1]
      /\ IF top.setup = Rtv THEN on' \in After(on) /\ switching' = TRUE
                            ELSE UNCHANGED <<on, switching>>
  BY DEF New
<1>4. \A s \in Slot : ptr[s] # c
  <2>1. IsFiniteSet(Pointing(c)) /\ Cardinality(Pointing(c)) <= refcount[c] /\ refcount[c] = 0
    BY <1>0, <1>3 DEF NoDangling, FinitelyPointed, Allocated
  <2>2. Cardinality(Pointing(c)) = 0
    BY <2>1, FS_CardinalityType
  <2>3. Pointing(c) = {}
    BY <2>1, <2>2, FS_EmptySet
  <2> QED BY <2>3 DEF Pointing
<1>5. \A j \in 1 .. l : stack[j].holder # c
  BY <1>4, HolderPointed
<1>6. /\ \A s \in Held(c) : s[1] = c
      /\ \A j \in 1 .. l : \A n : Into(stack[j], n) \notin Held(c)
      /\ Main \notin Held(c)
  <2>1. \A s \in Held(c) : s[1] = c
    BY DEF Held
  <2>2. \A j, n : Into(stack[j], n)[1] = stack[j].holder
    BY DEF Into
  <2>3. Main[1] # c
    BY HolderAssumption DEF Main
  <2> QED BY <1>5, <2>1, <2>2, <2>3
<1>7. m \in Clone /\ m <= Clones[top.setup] /\ m \in Nat \ {0}
  BY <1>1, <1>3, ClonesBound, BoundAssumption DEF Clone
<1>8. w \in Slot /\ w \notin Held(c) /\ w[1] = top.holder
  <2>1. w \notin Held(c) /\ w[1] = top.holder /\ w = <<top.holder, top.index, m>>
    BY <1>1, <1>6 DEF Into
  <2>2. CASE FromMain(1)
    <3>1. top.holder = "main" /\ top.index = 0 /\ Clones[top.setup] = 1
      BY <1>1, <2>2, SetupAssumption DEF FromMain
    <3>2. m = 1
      BY <1>1, <1>7, <3>1
    <3> QED BY <2>1, <3>1, <3>2 DEF Slot, Main
  <2>3. CASE Anchored(1)
    <3>1. top.holder \in Obj /\ top.index \in Index
      BY <1>1, <2>3 DEF Anchored, CallType
    <3> QED BY <1>7, <2>1, <3>1 DEF Slot
  <2> QED BY <1>1, <2>2, <2>3 DEF CallOK
<1>9. top.holder = "main" => l = 1 /\ FromMain(1)
  BY <1>1, HolderAssumption DEF CallOK, Anchored, FromMain
<1>10. P \subseteq DOMAIN Parts[top.setup] /\ P \subseteq Index
  <2>1. P \subseteq DOMAIN Parts[top.setup]
    BY Indexes DEF PartsOf
  <2> QED BY <1>1, <2>1, Indexes
<1> DEFINE call == [stack[1] EXCEPT !.made = @ + 1, !.parts = P]
<1>11. /\ call \in CallType
       /\ call.setup = top.setup /\ call.holder = top.holder /\ call.index = top.index
       /\ call.made = m /\ call.parts = P /\ call.registered = top.registered
  <2>1. m \in 0 .. MaxClones
    BY <1>7, BoundAssumption DEF Clone
  <2> HIDE DEF P
  <2> QED BY <1>1, <1>10, <2>1 DEF CallType
<1>12. stack' = [stack EXCEPT ![1] = call]
  BY <1>1 DEF New
<1> HIDE DEF call
<1>13. /\ stack' \in Seq(CallType) /\ Len(stack') = l /\ stack' # <<>>
       /\ stack'[1] = call /\ \A j \in 2 .. l : stack'[j] = stack[j]
  BY <1>1, <1>11, <1>12
<1> HIDE DEF w, P
<1>14. \A s \in Slot : ptr'[s] = IF s \in Held(c) THEN None ELSE IF s = w THEN c ELSE ptr[s]
  BY <1>3
<1>15. on' \in 0 .. Len(Parts[Rtv]) /\ switching' \in BOOLEAN
       /\ (top.setup = Rtv => on' # 0)
  <2>1. 0 \notin DOMAIN Parts[Rtv]
    BY SetupAssumption
  <2> QED BY <1>0, <1>3, <2>1, Indexes DEF After, TypeOK
<1>16. TypeOK'
  <2>1. ptr' \in [Slot -> Obj \union {None}]
    BY <1>0, <1>3 DEF TypeOK
  <2>2. refcount' \in [Obj -> Nat]
    BY <1>0, <1>3 DEF TypeOK
  <2>3. setup' \in [Obj -> Setup \union {None}]
    BY <1>0, <1>1, <1>3 DEF TypeOK
  <2> QED BY <1>0, <1>2, <1>13, <1>15, <2>1, <2>2, <2>3 DEF TypeOK
<1>17. NoDangling' /\ FinitelyPointed'
  <2> SUFFICES ASSUME NEW d \in Obj
               PROVE  IsFiniteSet(Pointing(d)') /\ Cardinality(Pointing(d)') <= refcount'[d]
    BY DEF NoDangling, FinitelyPointed
  <2>1. CASE d = c
    <3>1. \A s : s \in Pointing(d)' <=> s = w
      BY <1>4, <1>8, <1>14, <2>1, NoneAssumption DEF Pointing
    <3>2. Pointing(d)' = {w}
      BY <3>1
    <3>3. IsFiniteSet({w}) /\ Cardinality({w}) = 1
      BY FS_Singleton
    <3>4. refcount'[d] = 1
      BY <1>0, <1>3, <2>1 DEF TypeOK
    <3> QED BY <3>2, <3>3, <3>4
  <2>2. CASE d # c
    <3>1. IsFiniteSet(Pointing(d)) /\ Cardinality(Pointing(d)) <= refcount[d] /\ refcount[d] \in Nat
      BY <1>0 DEF NoDangling, FinitelyPointed, TypeOK
    <3>2. Pointing(d)' \in SUBSET Pointing(d)
      BY <1>14, <2>2, NoneAssumption DEF Pointing
    <3>3. Cardinality(Pointing(d)') <= Cardinality(Pointing(d)) /\ IsFiniteSet(Pointing(d)')
      BY <3>1, <3>2, FS_Subset
    <3>4. Cardinality(Pointing(d)) \in Nat /\ Cardinality(Pointing(d)') \in Nat
      BY <3>1, <3>3, FS_CardinalityType
    <3>5. refcount'[d] = refcount[d]
      BY <1>0, <1>3, <2>2 DEF TypeOK
    <3> QED BY <3>1, <3>3, <3>4, <3>5
  <2> QED BY <2>1, <2>2
<1>18. Allocated' /\ TodoHolds'
  <2>1. Allocated'
    BY <1>0, <1>1, <1>3, NoneAssumption DEF Allocated, TypeOK
  <2> QED BY <1>0, <1>2, <2>1 DEF TodoHolds
<1>19. PartsApart'
  <2> SUFFICES ASSUME NEW d \in Obj, NEW i \in Index \ {0}, NEW n \in Clone
               PROVE  ptr'[<<d, i, n>>] # d
    BY DEF PartsApart
  <2> DEFINE s == <<d, i, n>>
  <2>1. s \in Slot /\ s[1] = d
    BY DEF Slot
  <2>2. ptr[s] # d
    BY <1>0 DEF PartsApart
  <2>3. 1 \in 1 .. l /\ top.holder # c
    BY <1>1, <1>5
  <2> HIDE DEF s
  <2>4. ptr'[s] # d
    BY <1>8, <1>14, <2>1, <2>2, <2>3, NoneAssumption
  <2> QED BY <2>4 DEF s
<1>20. \A s \in Slot : s # w /\ s \notin Held(c) => ptr'[s] = ptr[s]
  BY <1>14
<1>21. \A j \in 2 .. l : \A n : Into(stack[j], n) # w /\ Into(stack[j], n) \notin Held(c)
  <2>1. \A j \in 2 .. l : stack[j].holder # top.holder
    BY <1>0, <1>1 DEF Apart
  <2>2. \A j, n : Into(stack[j], n)[1] = stack[j].holder
    BY DEF Into
  <2>3. \A j \in 2 .. l : j \in 1 .. l
    BY <1>1
  <2>4. \A j \in 2 .. l : \A n : Into(stack[j], n) # w
    <3> SUFFICES ASSUME NEW j \in 2 .. l, NEW n PROVE Into(stack[j], n) # w
      OBVIOUS
    <3>1. Into(stack[j], n)[1] = stack[j].holder /\ stack[j].holder # top.holder
      BY <2>1, <2>2
    <3> QED BY <1>8, <3>1
  <2> QED BY <1>6, <2>3, <2>4
<1>22. ASSUME NEW j \in 1 .. l, NEW n \in 1 .. stack[j].made
       PROVE  LET s == Into(stack[j], n) IN
                /\ s \in Slot /\ ptr'[s] = ptr[s] /\ ptr[s] \in Obj
                /\ setup'[ptr[s]] = setup[ptr[s]] /\ refcount'[ptr[s]] = refcount[ptr[s]]
  <2> DEFINE s == Into(stack[j], n)
  <2>1. s \in Slot /\ ptr[s] \in Obj
    BY <1>0 DEF Calls, CallOK, MadeOK
  <2>2. s \notin Held(c)
    BY <1>6
  <2>3. s # w
    <3>1. CASE j = 1
      <4>1. n # m
        BY <1>1, <3>1
      <4> QED BY <1>1, <3>1, <4>1 DEF Into, w
    <3>2. CASE j # 1
      BY <1>21, <3>2
    <3> QED BY <3>1, <3>2
  <2> HIDE DEF s
  <2>4. ptr[s] # c /\ ptr'[s] = ptr[s]
    BY <1>4, <1>20, <2>1, <2>2, <2>3
  <2>5. setup'[ptr[s]] = setup[ptr[s]] /\ refcount'[ptr[s]] = refcount[ptr[s]]
    BY <1>0, <1>3, <2>1, <2>4 DEF TypeOK
  <2> QED BY <2>1, <2>4, <2>5 DEF s
<1>23. top.holder # "main" => ptr'[Main] = ptr[Main]
  <2>1. Main \in Slot /\ Main[1] = "main"
    BY DEF Slot, Main
  <2> HIDE DEF Main
  <2> QED BY <1>6, <1>8, <1>20, <2>1
<1>24. \A j \in K : CallOK(j)'
  <2>1. \A j \in K : stack[j] \in CallType
    BY <1>1
  <2>2. \A j \in K : stack[j].made \in Nat
    BY <2>1, BoundAssumption DEF CallType
  <2>3. Keeps(0, K)
    BY <1>1, <1>13, <2>2 DEF Keeps
  <2>4. Spares(K)
    <3>1. \A j \in K : stack'[j] = stack[j] /\ j \in 1 .. l
      BY <1>1, <1>13
    <3>2. ASSUME NEW j \in K PROVE Main \notin todo' /\ ptr'[Main] = ptr[Main]
      <4>1. l # 1
        <5>1. l \in Nat /\ j \in 2 .. l
          BY <1>1
        <5> HIDE DEF l
        <5> QED BY <5>1
      <4> QED BY <1>0, <1>2, <1>9, <1>23, <4>1
    <3> QED BY <1>0, <1>2, <1>22, <3>1, <3>2 DEF Spares
  <2> HIDE DEF K
  <2>5. 0 \in {-1, 0, 1} /\ K \in SUBSET Nat /\ l \in Nat
    BY <1>1 DEF K
  <2> QED BY <1>0, <2>3, <2>4, <2>5, CallsKept
<1>25. MadeOK(1)'
  <2> SUFFICES ASSUME NEW n \in 1 .. m
               PROVE  LET s == Into(stack'[1], n) IN
                        /\ s \in Slot \ todo' /\ ptr'[s] \in Obj
                        /\ setup'[ptr'[s]] = stack'[1].setup
                        /\ refcount'[ptr'[s]] = 1 \/ stack'[1].registered # 0
    BY <1>7, <1>11, <1>13 DEF MadeOK
  <2>1. Into(stack'[1], n) = Into(top, n) /\ stack'[1].setup = top.setup
        /\ stack'[1].registered = top.registered
    BY <1>11, <1>13 DEF Into
  <2>2. CASE n = m
    <3>1. Into(top, n) = w
      BY <2>2 DEF w
    <3>2. ptr'[w] = c /\ setup'[c] = top.setup /\ refcount'[c] = 1
      BY <1>0, <1>3, <1>8, <1>14 DEF TypeOK
    <3> QED BY <1>0, <1>2, <1>8, <2>1, <3>1, <3>2
  <2>3. CASE n # m
    <3>1. n \in 1 .. top.made
      BY <1>1, <2>3
    <3>2. LET s == Into(top, n) IN
            /\ setup[ptr[s]] = top.setup
            /\ refcount[ptr[s]] = 1 \/ top.registered # 0
      BY <1>1, <3>1 DEF CallOK, MadeOK
    <3>3. LET s == Into(top, n) IN
            /\ s \in Slot /\ ptr'[s] = ptr[s] /\ ptr[s] \in Obj
            /\ setup'[ptr[s]] = setup[ptr[s]] /\ refcount'[ptr[s]] = refcount[ptr[s]]
      <4>1. 1 \in 1 .. l /\ n \in 1 .. stack[1].made /\ stack[1] = top
        BY <1>1, <3>1
      <4> QED BY <1>22, <4>1
    <3> QED BY <1>0, <1>2, <2>1, <3>2, <3>3
  <2> QED BY <2>2, <2>3
<1>26. CallOK(1)'
  <2>1. FromMain(1) => FromMain(1)'
    BY <1>1, <1>11, <1>13 DEF FromMain
  <2>2. ASSUME Anchored(1)
        PROVE  Anchored(1)'
    <3>1. top.holder \in Obj /\ top.holder # "main" /\ 1 \in 1 .. l
      BY <1>1, <2>2, HolderAssumption DEF Anchored
    <3>2. Anchor(1) \in Slot /\ Anchor(1) # w
      BY <1>1, <3>1, HolderPointed DEF w
    <3>3. /\ Anchor(1)' = Anchor(1) /\ Anchor(1) \notin Held(c)
          /\ 1 < l => stack'[2] = stack[2]
      <4>1. CASE 1 < l
        <5>1. 2 \in 2 .. l /\ 2 \in 1 .. l /\ 1 + 1 = 2
          BY <1>1, <4>1
        <5>2. Anchor(1) = Into(stack[2], stack[2].made) /\ stack'[2] = stack[2]
          BY <1>13, <4>1, <5>1 DEF Anchor
        <5> QED BY <1>6, <1>13, <4>1, <5>1, <5>2 DEF Anchor
      <4>2. CASE ~(1 < l)
        BY <1>6, <1>13, <4>2 DEF Anchor
      <4> QED BY <4>1, <4>2
    <3>4. ptr'[Anchor(1)] = ptr[Anchor(1)]
      BY <1>20, <3>2, <3>3
    <3> QED BY <1>0, <1>1, <1>2, <1>11, <1>13, <2>2, <3>3, <3>4 DEF Anchored
  <2>3. /\ stack'[1].setup = Rtv => FromMain(1)'
        /\ stack'[1].parts # {} => stack'[1].made > 0
        /\ stack'[1].parts \subseteq DOMAIN Parts[stack'[1].setup]
    BY <1>1, <1>7, <1>10, <1>11, <1>13, <2>1 DEF CallOK
  <2> QED BY <1>1, <1>25, <2>1, <2>2, <2>3 DEF CallOK
<1>27. \A j \in 1 .. l : j = 1 \/ j \in 2 .. l
  BY <1>1
<1>28. Calls' /\ Apart'
  <2>1. \A j \in 1 .. l : RegisteredOK(j)'
    <3>1. top.registered = 0
      BY <1>1, <1>3, ClonesBound, BoundAssumption DEF RegisteredOK
    <3>2. \A j \in 2 .. l : stack[j].registered = 0
      BY <1>0, <1>1 DEF Calls, RegisteredOK
    <3> QED BY <1>11, <1>13, <1>27, <3>1, <3>2 DEF RegisteredOK
  <2>2. \A j \in 1 .. l : stack'[j].holder = stack[j].holder
    BY <1>1, <1>11, <1>13, <1>27
  <2>3. Apart'
    BY <1>0, <1>13, <2>2 DEF Apart
  <2> QED BY <1>13, <1>24, <1>26, <1>27, <2>1, <2>3 DEF Calls
<1>29. /\ stack'[l].holder = stack[l].holder
       /\ stack'[l].setup = stack[l].setup
       /\ stack[l].made > 0 => stack'[l].made > 0
  <2>0. l \in Nat /\ l # 0
    BY <1>1
  <2>1. l = 1 \/ l \in 2 .. l
    <3> HIDE DEF l
    <3> QED BY <2>0
  <2>2. CASE l = 1
    BY <1>1, <1>7, <1>11, <1>13, <2>2
  <2>3. CASE l \in 2 .. l
    BY <1>13, <2>3
  <2> QED BY <2>1, <2>2, <2>3
<1>30. MainHolds' /\ Switching' /\ Failing'
  <2>1. phase = "run"
    BY <1>0 DEF MainHolds
  <2>2. MainHolds'
    BY <1>0, <1>1, <1>2, <1>9, <1>13, <1>23, <1>29, <2>1 DEF MainHolds
  <2>3. top.setup = Rtv => l = 1
    BY <1>1 DEF CallOK, FromMain
  <2>4. top.setup # Rtv => \A d \in Obj : setup'[d] = Rtv => setup[d] = Rtv
    BY <1>0, <1>3 DEF TypeOK
  <2>5. Switching'
    <3>1. CASE top.setup = Rtv
      BY <1>2, <1>7, <1>11, <1>13, <1>15, <2>1, <2>3, <3>1 DEF Switching
    <3>2. CASE top.setup # Rtv
      BY <1>0, <1>2, <1>3, <1>13, <1>29, <2>1, <2>4, <3>2 DEF Switching
    <3> QED BY <3>1, <3>2
  <2> QED BY <1>0, <1>2, <2>2, <2>5 DEF Failing
<1> QED BY <1>16, <1>17, <1>18, <1>19, <1>28, <1>30 DEF IInv

-----------------------------------------------------------------------------
(* What a call leaves *)

\* The stream references a context the innermost call made; after the last of
\* them the call returns.
LEMMA RegisterIInv ==
  ASSUME IInv, Register
  PROVE  IInv'
<1> DEFINE l == Len(stack)
           n == top.registered + 1
           p == PathOf[top.setup]
           c == ptr[Into(top, n)]
           r == <<"stream", p, n>>
<1>0. TypeOK /\ NoDangling /\ FinitelyPointed /\ Allocated /\ PartsApart /\ Calls /\ Apart
      /\ MainHolds /\ Switching /\ Failing /\ stack # <<>> /\ ~failing /\ todo = {}
      /\ MadeAll
  BY DEF IInv, Register, MadeAll, Creating
<1>1. /\ top = stack[1] /\ top \in CallType /\ l \in Nat \ {0} /\ stack \in Seq(CallType)
      /\ CallOK(1) /\ RegisteredOK(1) /\ top.setup \in Setup
      /\ top.made \in Nat /\ top.registered \in Nat
  BY <1>0, TopMade DEF TypeOK
<1>2. UNCHANGED <<setup, pre, todo, failing, gc, on, switching, snow, retains, phase, fails>>
  BY DEF Register, rtvVars
<1>3. /\ ptr' = [ptr EXCEPT ![r] = c]
      /\ refcount' = Referenced(c)
      /\ stack' = IF n = top.made THEN Tail(stack) ELSE [stack EXCEPT ![1].registered = n]
  BY DEF Register
<1>4. top.parts = {} /\ top.made = Clones[top.setup] /\ n \in 1 .. top.made
  <2>1. top.parts = {} /\ top.made = Clones[top.setup] /\ top.made > 0
    BY <1>0, <1>1, ClonesBound, BoundAssumption DEF MadeAll
  <2>2. top.registered # 0 => top.registered < top.made
    BY <1>1 DEF RegisteredOK
  <2> QED BY <1>1, <2>1, <2>2
<1>5. /\ Into(top, n) \in Slot /\ c \in Obj
  BY <1>1, <1>4 DEF CallOK, MadeOK
<1>6. r \in Slot /\ r \in Registered(p)
  <2>1. p \in Path
    BY <1>1, SetupAssumption
  <2>2. n \in Clone
    BY <1>1, <1>4, ClonesBound, BoundAssumption DEF Clone
  <2> QED BY <2>1, <2>2 DEF Slot, Registered
<1>7. refcount[c] \in Nat \ {0} /\ \A s \in Slot : refcount[c] = 1 /\ ptr[s] = c => s = Into(top, n)
  BY <1>0, <1>5, PointedTo
<1> DEFINE u == Into(top, n)
<1>a. u[1] = top.holder /\ r[1] = "stream"
  BY DEF Into
<1> HIDE DEF c, r, u, p
<1>8. TypeOK' \/ stack' \notin Seq(CallType)
  <2>1. ptr' \in [Slot -> Obj \union {None}]
    BY <1>0, <1>3, <1>5 DEF TypeOK
  <2>2. refcount' \in [Obj -> Nat]
    BY <1>0, <1>3, <1>5 DEF TypeOK, Referenced
  <2> QED BY <1>0, <1>2, <2>1, <2>2 DEF TypeOK
<1>9. NoDangling' /\ FinitelyPointed'
  BY <1>0, <1>3, <1>5, <1>6, Reference
<1>10. Allocated' /\ TodoHolds'
  <2>1. Allocated'
    BY <1>0, <1>2, <1>3, <1>5, <1>7 DEF Allocated, Referenced, TypeOK
  <2> QED BY <1>0, <1>2, <2>1 DEF TodoHolds
<1>11. PartsApart'
  <2> SUFFICES ASSUME NEW e \in Obj, NEW i \in Index \ {0}, NEW k \in Clone
               PROVE  ptr'[<<e, i, k>>] # e
    BY DEF PartsApart
  <2> DEFINE s == <<e, i, k>>
  <2>1. s \in Slot /\ s[1] = e /\ ptr[s] # e
    BY <1>0 DEF Slot, PartsApart
  <2> HIDE DEF s
  <2>2. s # r
    BY <1>a, <2>1, HolderAssumption
  <2>3. ptr'[s] = ptr[s]
    BY <1>0, <1>3, <2>1, <2>2 DEF TypeOK
  <2> QED BY <2>1, <2>3 DEF s
<1>12. ptr'[Main] = ptr[Main]
  <2>1. Main \in Slot /\ Main[1] = "main"
    BY DEF Slot, Main
  <2> HIDE DEF Main
  <2> QED BY <1>0, <1>3, <1>a, <2>1 DEF TypeOK
<1>13. ASSUME NEW i \in 1 .. l, NEW m \in 1 .. stack[i].made
       PROVE  LET s == Into(stack[i], m) IN
                /\ s \notin todo' /\ ptr'[s] = ptr[s] /\ setup'[ptr[s]] = setup[ptr[s]]
                /\ i # 1 /\ stack[i].registered = 0 => refcount'[ptr[s]] = refcount[ptr[s]]
  <2> DEFINE s == Into(stack[i], m)
  <2>1. s \in Slot /\ ptr[s] \in Obj /\ (stack[i].registered = 0 => refcount[ptr[s]] = 1)
    BY <1>0 DEF Calls, CallOK, MadeOK
  <2>2. s \notin Registered(p)
    BY <1>0, NotTheStreams
  <2>3. i # 1 => s[1] # top.holder
    <3>1. s[1] = stack[i].holder /\ 1 \in 1 .. l
      BY <1>1 DEF Into
    <3> QED BY <1>0, <1>1, <3>1 DEF Apart
  <2> HIDE DEF s
  <2>4. ptr'[s] = ptr[s]
    BY <1>0, <1>3, <1>6, <2>1, <2>2 DEF TypeOK
  <2>5. ASSUME i # 1, stack[i].registered = 0
        PROVE  refcount'[ptr[s]] = refcount[ptr[s]]
    <3>1. ptr[s] # c
      BY <1>7, <1>a, <2>1, <2>3, <2>5 DEF u
    <3> QED BY <1>0, <1>3, <2>1, <3>1 DEF Referenced, TypeOK
  <2> QED BY <1>0, <1>2, <2>1, <2>4, <2>5 DEF s
<1>14. \A i \in 1 .. l : stack[i].made \in Nat
  <2>1. \A i \in 1 .. l : stack[i] \in CallType
    BY <1>1
  <2> QED BY <2>1, BoundAssumption DEF CallType
<1>15. \A i \in 1 .. l : i # 1 => stack[i].registered = 0
  BY <1>0 DEF Calls, RegisteredOK
<1>16. CASE n = top.made
  <2> DEFINE K == 1 .. l - 1
  <2>1. stack' = Tail(stack) /\ stack' \in Seq(CallType) /\ Len(stack') = l - 1
        /\ \A i \in K : stack'[i] = stack[i + 1]
    BY <1>0, <1>1, <1>3, <1>16
  <2>2. \A i \in K : CallOK(i)'
    <3>1. Keeps(1, K)
      BY <1>1, <1>14, <2>1 DEF Keeps
    <3>2. Spares(K)
      <4>1. ASSUME NEW i \in K, NEW m \in 1 .. stack'[i].made
            PROVE  LET s == Into(stack'[i], m) IN
                     /\ s \notin todo' /\ ptr'[s] = ptr[s] /\ setup'[ptr[s]] = setup[ptr[s]]
                     /\ stack'[i].registered = 0 => refcount'[ptr[s]] = refcount[ptr[s]]
        <5> DEFINE j == i + 1
        <5>1. j \in 1 .. l /\ j # 1 /\ stack'[i] = stack[j]
          BY <1>1, <2>1
        <5> HIDE DEF j
        <5> QED BY <1>13, <5>1
      <4> QED BY <1>0, <1>2, <1>12, <4>1 DEF Spares
    <3> HIDE DEF K
    <3>3. 1 \in {-1, 0, 1} /\ K \in SUBSET Nat /\ l \in Nat
      BY <1>1 DEF K
    <3> QED BY <1>0, <3>1, <3>2, <3>3, CallsKept
  <2>3. Calls' /\ Apart'
    <3>1. \A i \in K : i + 1 \in 1 .. l /\ i + 1 # 1
      BY <1>1
    <3>2. \A i \in K : RegisteredOK(i)'
      BY <1>15, <2>1, <3>1 DEF RegisteredOK
    <3>3. ASSUME NEW i \in K, NEW j \in K, stack'[i].holder = stack'[j].holder
          PROVE  i = j
      <4>1. stack[i + 1].holder = stack[j + 1].holder
        BY <2>1, <3>3
      <4>2. i + 1 = j + 1
        BY <1>0, <3>1, <4>1 DEF Apart
      <4> QED BY <4>2
    <3> QED BY <2>1, <2>2, <3>2, <3>3 DEF Calls, Apart
  <2>4. l # 1 => stack' # <<>> /\ stack'[l - 1] = stack[l]
    <3>1. l \in Nat \ {0} /\ Len(stack') = l - 1
      BY <1>1, <2>1
    <3>2. l # 1 => l - 1 \in K /\ (l - 1) + 1 = l /\ Len(stack') # 0
      <4> HIDE DEF l
      <4> QED BY <3>1
    <3>3. \A i \in K : stack'[i] = stack[i + 1]
      BY <2>1
    <3>4. l # 1 => stack'[l - 1] = stack[l]
      <4> HIDE DEF l, K
      <4> QED BY <3>2, <3>3
    <3> QED BY <3>2, <3>4
  <2>5. l = 1 => stack' = <<>>
    BY <1>1, <2>1
  <2>6. ASSUME l = 1, stack[1].holder = "main"
        PROVE  ptr[Main] # None
    <3>1. FromMain(1) /\ Clones[top.setup] = 1
      BY <1>1, <2>6, HolderAssumption, SetupAssumption DEF CallOK, Anchored, FromMain
    <3>2. Into(top, n) = Main
      BY <1>1, <1>4, <3>1 DEF FromMain, Into, Main
    <3> QED BY <1>5, <3>2, NoneAssumption DEF c
  <2>7. MainHolds'
    <3>1. phase = "run"
      BY <1>0 DEF MainHolds
    <3> QED BY <1>0, <1>2, <1>12, <2>1, <2>4, <2>5, <2>6, <3>1 DEF MainHolds
  <2>8. Switching' /\ Failing'
    BY <1>0, <1>2, <2>1, <2>4, <2>5 DEF Switching, Failing
  <2> QED BY <1>8, <1>9, <1>10, <1>11, <2>1, <2>3, <2>7, <2>8 DEF IInv
<1>17. CASE n # top.made
  <2> DEFINE K == 1 .. l
             call == [stack[1] EXCEPT !.registered = n]
  <2>0. /\ call \in CallType
        /\ call.setup = top.setup /\ call.holder = top.holder /\ call.index = top.index
        /\ call.made = top.made /\ call.parts = top.parts /\ call.registered = n
    <3>1. n \in 0 .. MaxClones
      BY <1>1, <1>4, ClonesBound, BoundAssumption
    <3> QED BY <1>1, <3>1 DEF CallType
  <2>a. stack' = [stack EXCEPT ![1] = call]
    BY <1>3, <1>17
  <2> HIDE DEF call
  <2>1. /\ stack' \in Seq(CallType) /\ Len(stack') = l /\ stack' # <<>>
        /\ stack'[1] = call /\ \A j \in 2 .. l : stack'[j] = stack[j]
    BY <1>1, <2>0, <2>a
  <2>b. \A i \in K : i = 1 \/ i \in 2 .. l
    BY <1>1
  <2>c. \A i \in K :
          /\ stack'[i].setup = stack[i].setup
          /\ stack'[i].holder = stack[i].holder
          /\ stack'[i].index = stack[i].index
          /\ stack'[i].made = stack[i].made
          /\ stack'[i].parts = stack[i].parts
          /\ stack'[i].registered = IF i = 1 THEN n ELSE stack[i].registered
    BY <1>1, <2>0, <2>1, <2>b
  <2>d. n # 0
    BY <1>1
  <2>2. \A i \in K : CallOK(i)'
    <3>1. Keeps(0, K)
      BY <1>1, <1>14, <2>1, <2>c, <2>d DEF Keeps
    <3>2. Spares(K)
      <4>1. ASSUME NEW i \in K, NEW m \in 1 .. stack'[i].made
            PROVE  LET s == Into(stack'[i], m) IN
                     /\ s \notin todo' /\ ptr'[s] = ptr[s] /\ setup'[ptr[s]] = setup[ptr[s]]
                     /\ stack'[i].registered = 0 => refcount'[ptr[s]] = refcount[ptr[s]]
        <5>1. Into(stack'[i], m) = Into(stack[i], m) /\ m \in 1 .. stack[i].made
              /\ (stack'[i].registered = 0 => i # 1 /\ stack[i].registered = 0)
          BY <2>c, <2>d DEF Into
        <5> QED BY <1>13, <5>1
      <4> QED BY <1>0, <1>2, <1>12, <4>1 DEF Spares
    <3> HIDE DEF K
    <3>3. 0 \in {-1, 0, 1} /\ K \in SUBSET Nat /\ l \in Nat
      BY <1>1 DEF K
    <3> QED BY <1>0, <3>1, <3>2, <3>3, CallsKept
  <2>3. Calls' /\ Apart'
    <3>1. 1 \in K /\ n < top.made
      BY <1>1, <1>4, <1>17
    <3>2. RegisteredOK(1)'
      BY <1>1, <1>4, <2>0, <2>1, <3>1 DEF RegisteredOK
    <3>3. \A i \in K : i # 1 => RegisteredOK(i)'
      BY <1>15, <2>c DEF RegisteredOK
    <3>4. Apart'
      BY <1>0, <2>1, <2>c DEF Apart
    <3> QED BY <2>1, <2>2, <3>2, <3>3, <3>4 DEF Calls
  <2>4. l \in K
    BY <1>1
  <2>5. MainHolds' /\ Switching' /\ Failing'
    BY <1>0, <1>2, <1>12, <2>1, <2>4, <2>c DEF MainHolds, Switching, Failing
  <2> QED BY <1>8, <1>9, <1>10, <1>11, <2>1, <2>3, <2>5 DEF IInv
<1> QED BY <1>16, <1>17

\* An error: what the innermost call made is freed, and it returns.
LEMMA UnwindIInv ==
  ASSUME IInv, Unwind
  PROVE  IInv'
<1> DEFINE l == Len(stack)
           K == 1 .. l - 1
<1>0. TypeOK /\ NoDangling /\ FinitelyPointed /\ Allocated /\ PartsApart /\ Calls /\ Apart
      /\ MainHolds /\ Switching /\ Failing /\ stack # <<>> /\ failing /\ todo = {}
  BY DEF IInv, Unwind, Failing
<1>1. /\ top = stack[1] /\ top \in CallType /\ l \in Nat \ {0} /\ stack \in Seq(CallType)
      /\ CallOK(1) /\ top.made \in Nat
  BY <1>0, TopMade DEF TypeOK
<1>2. UNCHANGED <<ptr, refcount, setup, pre, gc, on, switching, snow, retains, fails>>
  BY DEF Unwind, rtvVars
<1>3. /\ todo' = {Into(top, m) : m \in 1 .. top.made}
      /\ stack' = Tail(stack)
      /\ failing' = (Tail(stack) # <<>> /\ Head(Tail(stack)).setup \notin Careless)
      /\ phase' = IF top.holder = "main" THEN "exited" ELSE phase
  BY DEF Unwind
<1>4. stack' \in Seq(CallType) /\ Len(stack') = l - 1
      /\ \A i \in K : stack'[i] = stack[i + 1]
  BY <1>0, <1>1, <1>3
<1>5. top.holder = "main" => l = 1
  BY <1>1, HolderAssumption DEF CallOK, Anchored, FromMain
<1>6. \A s \in todo' : s \in Slot /\ s[1] = top.holder /\ ptr[s] \in Obj /\ ptr[s] # s[1]
  <2> SUFFICES ASSUME NEW m \in 1 .. top.made
               PROVE  LET s == Into(top, m) IN
                        s \in Slot /\ s[1] = top.holder /\ ptr[s] \in Obj /\ ptr[s] # s[1]
    BY <1>3
  <2> DEFINE s == Into(top, m)
  <2>1. s \in Slot /\ ptr[s] \in Obj
    BY <1>1 DEF CallOK, MadeOK
  <2>2. s = <<top.holder, top.index, m>> /\ s[1] = top.holder
    BY DEF Into
  <2>3. ptr[s] # s[1]
    <3>1. CASE FromMain(1)
      <4>1. s[1] = "main"
        BY <1>1, <2>2, <3>1 DEF FromMain
      <4> HIDE DEF s
      <4> QED BY <2>1, <4>1, HolderAssumption
    <3>2. CASE Anchored(1)
      <4>1. top.holder \in Obj /\ top.index \in Index \ {0}
        BY <1>1, <3>2 DEF Anchored, CallType
      <4>2. m \in Clone
        <5>1. top.made \in 0 .. MaxClones
          BY <1>1 DEF CallType
        <5> QED BY <5>1, BoundAssumption DEF Clone
      <4>3. ptr[<<top.holder, top.index, m>>] # top.holder
        BY <1>0, <4>1, <4>2 DEF PartsApart
      <4> QED BY <2>2, <4>3
    <3> QED BY <1>1, <3>1, <3>2 DEF CallOK
  <2> QED BY <2>1, <2>2, <2>3
<1>7. l # 1 => Main \notin todo'
  <2>1. Main[1] = "main"
    BY DEF Main
  <2> QED BY <1>5, <1>6, <2>1
<1>8. failing' \in BOOLEAN
  BY <1>3
<1>9. TypeOK'
  BY <1>0, <1>2, <1>3, <1>4, <1>6, <1>8 DEF TypeOK
<1>10. NoDangling' /\ FinitelyPointed' /\ Allocated' /\ TodoHolds' /\ PartsApart'
  BY <1>0, <1>2, <1>6, NoneAssumption
  DEF NoDangling, FinitelyPointed, Allocated, TodoHolds, PartsApart, Pointing
<1>11. \A i \in K : CallOK(i)'
  <2>1. \A i \in 1 .. l : stack[i].made \in Nat
    <3>1. \A i \in 1 .. l : stack[i] \in CallType
      BY <1>1
    <3> QED BY <3>1, BoundAssumption DEF CallType
  <2>2. Keeps(1, K)
    BY <1>1, <1>4, <2>1 DEF Keeps
  <2>3. Spares(K)
    <3>1. ASSUME NEW i \in K, NEW m \in 1 .. stack'[i].made
          PROVE  Into(stack'[i], m) \notin todo'
      <4>1. stack'[i] = stack[i + 1] /\ i + 1 \in 1 .. l /\ i + 1 # 1 /\ 1 \in 1 .. l
        BY <1>1, <1>4
      <4>2. stack'[i].holder # top.holder
        BY <1>0, <1>1, <4>1 DEF Apart
      <4>3. Into(stack'[i], m)[1] = stack'[i].holder
        BY DEF Into
      <4> QED BY <1>6, <4>2, <4>3
    <3>2. ASSUME NEW i \in K PROVE Main \notin todo'
      <4>1. l # 1
        <5>1. l \in Nat /\ i \in 1 .. l - 1
          BY <1>1
        <5> HIDE DEF l
        <5> QED BY <5>1
      <4> QED BY <1>7, <4>1
    <3> QED BY <1>2, <3>1, <3>2 DEF Spares
  <2> HIDE DEF K
  <2>4. 1 \in {-1, 0, 1} /\ K \in SUBSET Nat /\ l \in Nat
    BY <1>1 DEF K
  <2> QED BY <1>0, <2>2, <2>3, <2>4, CallsKept
<1>12. Calls' /\ Apart'
  <2>1. \A i \in K : i + 1 \in 1 .. l /\ i + 1 # 1
    BY <1>1
  <2>2. \A i \in K : RegisteredOK(i)'
    <3>1. \A i \in 1 .. l : i # 1 => stack[i].registered = 0
      BY <1>0 DEF Calls, RegisteredOK
    <3> QED BY <1>4, <2>1, <3>1 DEF RegisteredOK
  <2>3. ASSUME NEW i \in K, NEW j \in K, stack'[i].holder = stack'[j].holder
        PROVE  i = j
    <3>1. stack[i + 1].holder = stack[j + 1].holder
      BY <1>4, <2>3
    <3>2. i + 1 = j + 1
      BY <1>0, <2>1, <3>1 DEF Apart
    <3> QED BY <3>2
  <2> QED BY <1>4, <1>11, <2>2, <2>3 DEF Calls, Apart
<1>13. l # 1 => stack' # <<>> /\ stack'[l - 1] = stack[l]
  BY <1>1, <1>4
<1>14. l = 1 => stack' = <<>>
  BY <1>1, <1>4
<1>15. MainHolds' /\ Switching'
  <2>1. phase = "run"
    BY <1>0 DEF MainHolds
  <2>2. top.holder = "main" => ~switching
    <3>1. ASSUME top.holder = "main", switching PROVE FALSE
      <4>1. stack[l].setup = Rtv /\ l = 1 /\ stack[1].setup # Rtv
        BY <1>0, <1>5, <3>1 DEF Switching, Failing
      <4> QED BY <4>1
    <3> QED BY <3>1
  <2>3. MainHolds'
    <3>1. CASE l = 1
      <4>1. top.holder # "main" => ptr[Main] # None
        BY <1>0, <1>1, <2>1, <3>1 DEF MainHolds
      <4>2. top.holder # "main" => Main \notin todo'
        BY <1>6 DEF Main
      <4> QED BY <1>2, <1>3, <1>14, <2>1, <3>1, <4>1, <4>2 DEF MainHolds
    <3>2. CASE l # 1
      BY <1>0, <1>2, <1>3, <1>4, <1>5, <1>7, <1>13, <2>1, <3>2 DEF MainHolds
    <3> QED BY <3>1, <3>2
  <2>4. Switching'
    BY <1>0, <1>2, <1>3, <1>4, <1>13, <1>14, <2>1, <2>2 DEF Switching
  <2> QED BY <2>3, <2>4
<1>16. Failing'
  <2>1. stack' # <<>> => Head(stack') = stack'[1]
    BY <1>4
  <2>2. Rtv \in Careless
    BY RtvAssumption
  <2> QED BY <1>3, <2>1, <2>2 DEF Failing
<1> QED BY <1>9, <1>10, <1>12, <1>15, <1>16 DEF IInv

-----------------------------------------------------------------------------
LEMMA StepIInv == IInv /\ [Next]_vars => IInv'
<1> SUFFICES ASSUME IInv, [Next]_vars PROVE IInv'
  OBVIOUS
<1>1. CASE Start \/ MakePart \/ Displace \/ Register \/ Fail \/ Unwind
  BY <1>1, StartIInv, MakePartIInv, DisplaceIInv, RegisterIInv, FailIInv, UnwindIInv
<1>2. ASSUME NEW c \in Obj, New(c) \/ RefFind(c) PROVE IInv'
  BY <1>2, NewIInv, RefFindIInv
<1>3. ASSUME NEW s \in todo, Unref(s) \/ Destroy(s) PROVE IInv'
  BY <1>3, UnrefIInv, DestroyIInv
<1>4. ASSUME NEW p \in Path, Gc(p) PROVE IInv'
  BY <1>4, GcIInv
<1>5. CASE Switch \/ Tune \/ Quit
  BY <1>5, SwitchIInv, TuneIInv, QuitIInv
<1>6. CASE AddPre \/ GcDone \/ Crash \/ FreeStream \/ FreedStream \/ UNCHANGED vars
  BY <1>6, QuietIInv
<1> QED BY <1>1, <1>2, <1>3, <1>4, <1>5, <1>6 DEF Next, Stopped

\* The invariant holds in every state.
THEOREM Invariance == Spec => []IInv
BY InitIInv, StepIInv, PTL DEF Spec

\* Every variable has its type: a count of references never goes below zero.
THEOREM TypeCorrect == Spec => []TypeOK
<1>1. IInv => TypeOK
  BY DEF IInv
<1> QED BY <1>1, Invariance, PTL

\* No pointer is left dangling, whatever contexts are created, found, replaced,
\* collected and freed, and whichever allocation fails: a context has no fewer
\* references than there are pointers to it.
THEOREM NoDanglingCorrect == Spec => []NoDangling
<1>1. IInv => NoDangling
  BY DEF IInv
<1> QED BY <1>1, Invariance, PTL

\* The stream renders no freed context of pre: the list, which it does not count
\* references for, has only contexts of pre that are allocated.
THEOREM PreListedCorrect == Spec => []PreListed
<1>1. Init => PreListed
  BY DEF Init, PreListed
<1>2. IInv /\ PreListed /\ [Next]_vars => PreListed'
  <2> SUFFICES ASSUME IInv, PreListed, [Next]_vars PROVE PreListed'
    OBVIOUS
  <2>0. TypeOK
    BY DEF IInv
  <2>1. ASSUME UNCHANGED <<setup, pre>> PROVE PreListed'
    BY <2>1 DEF PreListed
  <2>2. CASE AddPre
    <3>1. stack # <<>> /\ top.made > 0 /\ top.setup \in Pre /\ pre' = pre \union {Latest} /\ setup' = setup
      BY <2>2 DEF AddPre, Creating, Listed
    <3>2. CallOK(1) /\ top = stack[1] /\ top.made \in 1 .. top.made
      BY <3>1, TopMade
    <3>3. setup[Latest] = top.setup
      BY <3>2 DEF CallOK, MadeOK, Latest
    <3> QED BY <3>1, <3>3 DEF PreListed
  <2>3. ASSUME NEW c \in Obj, New(c) PROVE PreListed'
    <3>1. setup[c] = None /\ setup' = [setup EXCEPT ![c] = top.setup] /\ pre' = pre
      BY <2>3 DEF New
    <3>2. c \notin pre
      BY <3>1, NoneAssumption, SetupAssumption DEF PreListed
    <3> QED BY <2>0, <3>1, <3>2 DEF PreListed, TypeOK
  <2>4. ASSUME NEW s \in todo, Destroy(s) PROVE PreListed'
    <3> DEFINE c == ptr[s]
    <3>1. setup' = [setup EXCEPT ![c] = None] /\ pre' = Delisted(c)
      BY <2>4 DEF Destroy
    <3> HIDE DEF c
    <3>2. \A d \in pre' : d \in pre /\ d # c /\ d \in Obj
      BY <2>0, <3>1 DEF Delisted, PreListed, TypeOK
    <3> QED BY <2>0, <3>1, <3>2 DEF PreListed, TypeOK
  <2>5. CASE Start \/ MakePart \/ Displace \/ Register \/ Fail \/ Unwind
    BY <2>1, <2>5 DEF Start, MakePart, Displace, Register, Fail, Unwind, heapVars
  <2>6. ASSUME NEW c \in Obj, RefFind(c) PROVE PreListed'
    BY <2>1, <2>6 DEF RefFind
  <2>7. ASSUME NEW s \in todo, Unref(s) PROVE PreListed'
    BY <2>1, <2>7 DEF Unref
  <2>8. ASSUME NEW p \in Path, Gc(p) PROVE PreListed'
    BY <2>1, <2>8 DEF Gc
  <2>9. CASE GcDone \/ Switch \/ Tune \/ Crash \/ Quit
    BY <2>1, <2>9 DEF GcDone, Switch, Tune, Crash, Quit, heapVars
  <2>10. CASE FreeStream \/ FreedStream \/ UNCHANGED vars
    BY <2>1, <2>10 DEF FreeStream, FreedStream, vars, heapVars
  <2> QED BY <2>2, <2>3, <2>4, <2>5, <2>6, <2>7, <2>8, <2>9, <2>10 DEF Next, Stopped
<1> QED BY <1>1, <1>2, Invariance, PTL DEF Spec

-----------------------------------------------------------------------------
(* What rendering reaches *)

\* A nonempty set of numbers has a least one.
LEMMA LeastNumber ==
  ASSUME NEW T \in SUBSET Nat, T # {}
  PROVE  \E m \in T : \A k \in T : m <= k
<1> DEFINE Up(k) == 0 .. k
           Ups == {Up(k) : k \in T}
<1>1. IsWellFoundedOn(StrictSubsetOrdering(Nat), FiniteSubsetsOf(Nat))
  BY FS_StrictSubsetOrderingWellFounded
<1>2. Ups \subseteq FiniteSubsetsOf(Nat) /\ Ups # {}
  <2>1. \A k \in T : IsFiniteSet(Up(k)) /\ Up(k) \in SUBSET Nat
    BY FS_Interval
  <2> QED BY <2>1 DEF FiniteSubsetsOf
<1>3. PICK U \in Ups : \A V \in Ups : <<V, U>> \notin StrictSubsetOrdering(Nat)
  <2> HIDE DEF Ups
  <2> QED BY <1>1, <1>2, WFMin
<1>4. PICK m \in T : U = Up(m)
  OBVIOUS
<1>5. ASSUME NEW k \in T, ~(m <= k) PROVE FALSE
  <2>1. Up(k) \subseteq Up(m) /\ Up(k) # Up(m)
    BY <1>5
  <2>2. <<Up(k), Up(m)>> \in StrictSubsetOrdering(Nat)
    BY <2>1 DEF StrictSubsetOrdering
  <2> QED BY <1>3, <1>4, <2>2
<1> QED BY <1>5

\* What is reached from roots, in any number of steps, is in whatever set has
\* the roots and what its members render.
LEMMA ReachedWithin ==
  ASSUME NEW roots, NEW S, roots \subseteq S,
         \A c \in S : \A s \in Destroys(c) \ todo : ptr[s] \in S
  PROVE  Reached(roots) \subseteq S
<1> DEFINE held(c) == {ptr[s] : s \in Destroys(c) \ todo}
           next(R) == R \union UNION {held(c) : c \in R}
           Upto(n, g) == g = [k \in 0 .. n |-> IF k = 0 THEN roots ELSE next(g[k - 1])]
           Def(g) == g = [n \in Nat |-> IF n = 0 THEN roots ELSE next(g[n - 1])]
           after == CHOOSE g : Def(g)
<1> HIDE DEF held
<1>1. ASSUME NEW n \in Nat PROVE \E g : Upto(n, g)
  <2> DEFINE Bad == {k \in Nat : \A g : ~Upto(k, g)}
  <2> HIDE DEF Upto
  <2> SUFFICES ASSUME Bad # {} PROVE FALSE
    OBVIOUS
  <2>1. PICK m \in Bad : \A k \in Bad : m <= k
    <3> HIDE DEF Bad
    <3>1. Bad \in SUBSET Nat
      BY DEF Bad
    <3> QED BY <3>1, LeastNumber
  <2>2. m # 0
    <3> DEFINE g == [k \in 0 .. 0 |-> roots]
    <3>1. g = [k \in 0 .. 0 |-> IF k = 0 THEN roots ELSE next(g[k - 1])]
      <4> HIDE DEF next
      <4> QED OBVIOUS
    <3>2. Upto(0, g)
      BY <3>1 DEF Upto
    <3> HIDE DEF g
    <3> QED BY <2>1, <3>2
  <2>3. m - 1 \in Nat /\ m - 1 \notin Bad
    BY <2>1, <2>2
  <2>4. PICK g : Upto(m - 1, g)
    BY <2>3
  <2> DEFINE h == [k \in 0 .. m |-> IF k = m THEN next(g[m - 1]) ELSE g[k]]
  <2> HIDE DEF next
  <2>5. ASSUME NEW k \in 0 .. m
        PROVE  h[k] = IF k = 0 THEN roots ELSE next(h[k - 1])
    <3>1. CASE k = m
      <4>1. k - 1 \in 0 .. m /\ k - 1 # m /\ k # 0
        BY <2>2, <3>1
      <4> QED BY <3>1, <4>1
    <3>2. CASE k # m
      <4>1. k \in 0 .. m - 1 /\ (k # 0 => k - 1 \in 0 .. m /\ k - 1 # m)
        BY <2>3, <3>2
      <4>2. g[k] = IF k = 0 THEN roots ELSE next(g[k - 1])
        BY <2>4, <4>1 DEF Upto
      <4> QED BY <3>2, <4>1, <4>2
    <3> QED BY <3>1, <3>2
  <2>6. h = [k \in 0 .. m |-> IF k = 0 THEN roots ELSE next(h[k - 1])]
    <3> DEFINE e(k) == IF k = 0 THEN roots ELSE next(h[k - 1])
    <3>1. \A k \in 0 .. m : h[k] = e(k)
      BY <2>5
    <3>2. h = [k \in 0 .. m |-> h[k]]
      OBVIOUS
    <3> HIDE DEF h, e
    <3>3. h = [k \in 0 .. m |-> e(k)]
      BY <3>1, <3>2
    <3> QED BY <3>3 DEF e
  <2>7. Upto(m, h)
    BY <2>6 DEF Upto
  <2> HIDE DEF h
  <2> QED BY <2>1, <2>7
<1>2. ASSUME NEW n \in Nat, NEW m \in Nat, NEW g, NEW h, Upto(n, g), Upto(m, h),
             NEW k \in Nat, k <= n, k <= m
      PROVE  g[k] = h[k]
  <2> DEFINE Bad == {j \in Nat : j <= n /\ j <= m /\ g[j] # h[j]}
  <2> SUFFICES ASSUME Bad # {} PROVE FALSE
    BY <1>2
  <2>1. PICK j \in Bad : \A i \in Bad : j <= i
    <3> HIDE DEF Bad
    <3>1. Bad \in SUBSET Nat
      BY DEF Bad
    <3> QED BY <3>1, LeastNumber
  <2> HIDE DEF next
  <2>2. /\ g[j] = IF j = 0 THEN roots ELSE next(g[j - 1])
        /\ h[j] = IF j = 0 THEN roots ELSE next(h[j - 1])
    <3>1. j \in 0 .. n /\ j \in 0 .. m
      OBVIOUS
    <3> QED BY <1>2, <3>1
  <2>3. j # 0 /\ j - 1 \in Nat
    BY <2>1, <2>2
  <2>4. g[j - 1] = h[j - 1]
    BY <2>1, <2>3
  <2> QED BY <2>1, <2>2, <2>3, <2>4
<1>3. \E f : Def(f)
  <2> DEFINE some(n) == CHOOSE g : Upto(n, g)
             f == [n \in Nat |-> some(n)[n]]
  <2> HIDE DEF next
  <2>1. \A n \in Nat : Upto(n, some(n))
    BY <1>1
  <2>2. ASSUME NEW n \in Nat
        PROVE  f[n] = IF n = 0 THEN roots ELSE next(f[n - 1])
    <3>1. n \in 0 .. n
      OBVIOUS
    <3>2. some(n)[n] = IF n = 0 THEN roots ELSE next(some(n)[n - 1])
      <4>1. Upto(n, some(n))
        BY <2>1
      <4> HIDE DEF some
      <4> QED BY <3>1, <4>1
    <3>3. CASE n # 0
      <4>1. n - 1 \in Nat /\ n - 1 <= n
        BY <3>3
      <4>2. Upto(n, some(n)) /\ Upto(n - 1, some(n - 1))
        BY <2>1, <4>1
      <4>3. some(n)[n - 1] = some(n - 1)[n - 1]
        <5> HIDE DEF some, Upto
        <5> QED BY <1>2, <4>1, <4>2
      <4> HIDE DEF some
      <4> QED BY <3>2, <3>3, <4>1, <4>3
    <3> HIDE DEF some
    <3> QED BY <3>2, <3>3
  <2>3. f = [n \in Nat |-> IF n = 0 THEN roots ELSE next(f[n - 1])]
    <3> DEFINE e(n) == IF n = 0 THEN roots ELSE next(f[n - 1])
    <3>1. \A n \in Nat : f[n] = e(n)
      BY <2>2
    <3>2. f = [n \in Nat |-> f[n]]
      OBVIOUS
    <3> HIDE DEF f, e
    <3>3. f = [n \in Nat |-> e(n)]
      BY <3>1, <3>2
    <3> QED BY <3>3 DEF e
  <2> QED BY <2>3
<1>4. Def(after)
  <2> HIDE DEF Def
  <2> QED BY <1>3
<1>5. ASSUME NEW n \in Nat PROVE after[n] \subseteq S
  <2> DEFINE Bad == {k \in Nat : ~(after[k] \subseteq S)}
  <2> SUFFICES ASSUME Bad # {} PROVE FALSE
    OBVIOUS
  <2>1. PICK m \in Bad : \A k \in Bad : m <= k
    <3> HIDE DEF Bad
    <3>1. Bad \in SUBSET Nat
      BY DEF Bad
    <3> QED BY <3>1, LeastNumber
  <2> HIDE DEF after
  <2>2. after[m] = IF m = 0 THEN roots ELSE next(after[m - 1])
    <3> HIDE DEF next
    <3> QED BY <1>4
  <2>3. m # 0 /\ m - 1 \in Nat /\ after[m - 1] \subseteq S
    BY <2>1, <2>2
  <2>4. next(after[m - 1]) \subseteq S
    BY <2>3 DEF held
  <2> QED BY <2>1, <2>2, <2>3, <2>4
<1>6. Reached(roots) = after[Cardinality(Obj)]
  BY DEF Reached, held
<1>7. Cardinality(Obj) \in Nat
  BY FiniteAssumption, FS_CardinalityType
<1> HIDE DEF after
<1> QED BY <1>5, <1>6, <1>7

-----------------------------------------------------------------------------
\* Nothing is created while the stream collects, and of what it holds it only
\* gives up contexts that nobody else refers to.
Collects ==
  gc => /\ stack = <<>>
        /\ \A s \in todo : s[1] = "stream" => refcount[ptr[s]] = 1

LEMMA StepCollects == IInv /\ Collects /\ [Next]_vars => Collects'
<1> SUFFICES ASSUME IInv, Collects, [Next]_vars, gc' PROVE Collects'
  BY DEF Collects
<1>0. TypeOK /\ NoDangling /\ FinitelyPointed /\ MainHolds
  BY DEF IInv
<1>t. \A s \in todo : s \in Slot /\ ptr[s] \in Obj
  BY <1>0 DEF TypeOK, IInv, TodoHolds
<1>1. ASSUME gc, UNCHANGED <<refcount, ptr, todo, stack>> PROVE Collects'
  BY <1>1 DEF Collects
<1>2. CASE Start \/ MakePart \/ AddPre \/ Displace \/ Register \/ Fail \/ Unwind
  <2>1. gc = gc' /\ (phase = "start" \/ stack # <<>>)
    BY <1>2 DEF Start, MakePart, AddPre, Displace, Register, Fail, Unwind, Creating,
       MadeAll, IInv, Failing
  <2> QED BY <1>0, <2>1 DEF Collects, MainHolds
<1>3. ASSUME NEW c \in Obj, New(c) \/ RefFind(c) PROVE FALSE
  <2>1. gc = gc' /\ (~gc \/ stack # <<>>)
    BY <1>3 DEF New, RefFind, Idle, Creating
  <2> QED BY <2>1 DEF Collects
<1>4. ASSUME NEW t \in todo, Unref(t) PROVE Collects'
  <2>1. /\ gc /\ stack' = <<>> /\ refcount[ptr[t]] > 1 /\ ptr[t] \in Obj
        /\ refcount' = [refcount EXCEPT ![ptr[t]] = refcount[ptr[t]] - 1]
        /\ ptr' = [ptr EXCEPT ![t] = None] /\ todo' = todo \ {t}
    BY <1>4, <1>t DEF Unref, Collects, callVars
  <2>2. ASSUME NEW s \in todo', s[1] = "stream" PROVE refcount'[ptr'[s]] = 1
    <3>1. s \in todo /\ s # t /\ s \in Slot /\ ptr[s] \in Obj /\ refcount[ptr[s]] = 1
      BY <1>t, <2>1, <2>2 DEF Collects
    <3>2. ptr'[s] = ptr[s] /\ ptr[s] # ptr[t]
      BY <1>0, <2>1, <3>1 DEF TypeOK
    <3> QED BY <1>0, <2>1, <3>1, <3>2 DEF TypeOK
  <2> QED BY <2>1, <2>2 DEF Collects
<1>5. ASSUME NEW t \in todo, Destroy(t) PROVE Collects'
  <2> DEFINE c == ptr[t]
  <2>1. /\ gc /\ stack' = <<>> /\ refcount[c] = 1 /\ c \in Obj /\ t \in Slot
        /\ refcount' = [refcount EXCEPT ![c] = 0]
        /\ ptr' = [ptr EXCEPT ![t] = None] /\ todo' = (todo \ {t}) \union Destroys(c)
    BY <1>5, <1>t DEF Destroy, Collects, callVars
  <2>2. \A s \in Slot : ptr[s] = c => s = t
    BY <1>0, <2>1, PointedTo
  <2> HIDE DEF c
  <2>3. ASSUME NEW s \in todo', s[1] = "stream" PROVE refcount'[ptr'[s]] = 1
    <3>1. s \notin Destroys(c)
      BY <2>1, <2>3, HolderAssumption DEF Destroys, Held
    <3>2. s \in todo /\ s # t /\ s \in Slot /\ ptr[s] \in Obj /\ refcount[ptr[s]] = 1
      BY <1>t, <2>1, <2>3, <3>1 DEF Collects
    <3>3. ptr'[s] = ptr[s] /\ ptr[s] # c
      BY <1>0, <2>1, <2>2, <3>2 DEF TypeOK
    <3> QED BY <1>0, <2>1, <3>2, <3>3 DEF TypeOK
  <2> QED BY <2>1, <2>3 DEF Collects
<1>6. ASSUME NEW p \in Path, Gc(p) PROVE Collects'
  <2>1. UNCHANGED <<ptr, refcount, stack>> /\ gc /\ todo' = Occupied(p) /\ Unused(p)
    BY <1>6 DEF Gc, Collectable, callVars
  <2> QED BY <2>1 DEF Collects, Unused
<1>7. CASE Switch
  <2>1. stack' = <<>> /\ todo' \subseteq {Channel} /\ setup[rtv] = Rtv
    BY <1>7 DEF Switch, Idle, callVars
  <2>2. rtv \in Obj
    BY <1>0, <1>7 DEF rtv, TypeOK, Slot, Switch, Idle, MainHolds
  <2>3. Channel[1] # "stream"
    BY <2>2, HolderAssumption DEF Channel
  <2> QED BY <2>1, <2>3 DEF Collects
<1>8. CASE FreeStream
  BY <1>0, <1>8 DEF FreeStream, Collects, MainHolds, heapVars, callVars
<1>9. CASE GcDone \/ Tune \/ Quit
  BY <1>9 DEF GcDone, Tune, Quit, Idle, callVars
<1>10. CASE Crash \/ FreedStream \/ UNCHANGED vars
  BY <1>1, <1>10 DEF Crash, FreedStream, heapVars, callVars, vars, Idle
<1> QED BY <1>2, <1>3, <1>4, <1>5, <1>6, <1>7, <1>8, <1>9, <1>10 DEF Next, Stopped

\* What main()'s context renders is held by a slot that is not the stream's.
LEMMA RenderedHeld ==
  ASSUME TypeOK, NEW c \in ByMain
  PROVE  \E s \in Slot : s[1] # "stream" /\ ptr[s] = c /\ c \in Obj
<1> DEFINE S == {d \in Obj : \E s \in Slot : s[1] # "stream" /\ ptr[s] = d}
<1>1. {ptr[Main]} \intersect Live \subseteq S
  <2>1. Main \in Slot /\ Main[1] # "stream"
    BY DEF Main, Slot
  <2> QED BY <2>1 DEF Live
<1>2. ASSUME NEW d \in S, NEW s \in Destroys(d) \ todo PROVE ptr[s] \in S
  <2>1. s \in Slot /\ s[1] = d /\ ptr[s] # None
    BY DEF Destroys, Held, Slot
  <2> QED BY <2>1, HolderAssumption DEF TypeOK
<1>3. ByMain \subseteq S
  <2> HIDE DEF S
  <2> QED BY <1>1, <1>2, ReachedWithin DEF ByMain
<1> QED BY <1>3

\* Collecting the contexts only the stream refers to leaves those that main()'s
\* context renders where refs find them.
THEOREM GcSparesCorrect == Spec => GcSpares
<1>1. Init => Collects
  BY DEF Init, Collects
<1>2. ASSUME IInv, Collects, [Next]_vars, gc, NEW p \in Path, NEW s \in Occupied(p),
             ptr[s] \in ByMain
      PROVE  ptr'[s] = ptr[s]
  <2>0. TypeOK /\ NoDangling /\ FinitelyPointed /\ stack = <<>>
    BY <1>2 DEF IInv, Collects
  <2>1. s \in Slot /\ s[1] = "stream" /\ ptr[s] \in Obj
    BY <2>0 DEF Occupied, Registered, Slot, TypeOK
  <2>2. PICK t \in Slot : t[1] # "stream" /\ ptr[t] = ptr[s]
    BY <1>2, <2>0, RenderedHeld
  <2>3. refcount[ptr[s]] # 1
    BY <2>0, <2>1, <2>2, PointedTo
  <2>4. s \notin todo
    BY <1>2, <2>1, <2>3 DEF Collects
  <2>5. ASSUME NEW u \in todo, Unref(u) \/ Destroy(u) PROVE ptr'[s] = ptr[s]
    BY <2>0, <2>1, <2>4, <2>5 DEF Unref, Destroy, TypeOK
  <2>6. CASE UNCHANGED ptr
    BY <2>6
  <2>7. CASE Start \/ MakePart \/ AddPre \/ Displace \/ Register \/ Fail \/ Unwind
    BY <2>0, <2>7 DEF Start, MakePart, AddPre, Displace, Register, Fail, Unwind, Creating,
       MadeAll, heapVars
  <2>8. ASSUME NEW c \in Obj, New(c) \/ RefFind(c) PROVE FALSE
    BY <1>2, <2>0, <2>8 DEF New, RefFind, Idle, Creating
  <2>9. ASSUME NEW q \in Path, Gc(q) PROVE UNCHANGED ptr
    BY <2>9 DEF Gc
  <2>10. CASE GcDone \/ Switch \/ Tune \/ Crash \/ Quit
    BY <2>10 DEF GcDone, Switch, Tune, Crash, Quit, heapVars
  <2>11. CASE FreeStream \/ FreedStream \/ UNCHANGED vars
    BY <2>11 DEF FreeStream, FreedStream, heapVars, vars
  <2> QED BY <1>2, <2>5, <2>6, <2>7, <2>8, <2>9, <2>10, <2>11 DEF Next, Stopped
<1>3. IInv /\ Collects /\ [Next]_vars
        => [gc => \A p \in Path : \A s \in Occupied(p) :
                    ptr[s] \in ByMain => ptr'[s] = ptr[s]]_vars
  BY <1>2
<1> QED BY <1>1, <1>3, StepCollects, Invariance, PTL DEF Spec, GcSpares

-----------------------------------------------------------------------------
(* Nothing is leaked.  References are counted exactly, what holds them is     *)
(* allocated, and whatever is held fits the place that holds it, so that what *)
(* is left when main() has freed its context hangs from the stream.           *)

\* A context has as many references as there are pointers to it.
Counted == \A c \in Obj : Cardinality(Pointing(c)) = refcount[c]

\* What is freed holds nothing but what is to be freed.
HoldersLive ==
  \A c \in Obj : setup[c] = None => \A s \in Held(c) : ptr[s] = None \/ s \in todo

\* The stream has a context in one place.
StreamOnce ==
  \A s, t \in Slot : s[1] = "stream" /\ t[1] = "stream" /\ ptr[s] # None /\ ptr[s] = ptr[t]
                       => s = t

\* The stream has a context at its path; contexts hold those of their parts, and
\* refs what is at the path they name.
Fits(s) ==
  LET c == setup[s[1]]
      d == setup[ptr[s]]
  IN /\ s[1] = "stream" => s[2] = PathOf[d]
     /\ s[1] \in Obj /\ s[2] # 0 => s[2] \in DOMAIN Parts[c] /\ d = Parts[c][s[2]]
     /\ s[1] \in Obj /\ s[2] = 0 => PathOf[d] = Target[c]
Fitting == \A s \in Slot \ todo : ptr[s] # None => Fits(s)

\* rtv holds nothing but the channel that is on.
OneChannel ==
  \A c \in Obj : setup[c] = Rtv =>
    \A s \in Held(c) : ptr[s] = None \/ s \in todo \/ (s[2] = on /\ s[3] = 1)

OneRtv == \A c, d \in Obj : setup[c] = Rtv /\ setup[d] = Rtv => c = d

Heap ==
  /\ Counted
  /\ HoldersLive
  /\ StreamOnce
  /\ Fitting
  /\ OneChannel
  /\ OneRtv

\* When main() has freed its context, nothing is left to free or to collect,
\* and contexts render deeper ones only, nothing is left.
LEMMA NothingLeft ==
  ASSUME IInv, Heap, Layered,
         todo = {}, Collectable = {}, ptr[Main] = None
  PROVE  Live = {}
<1>0. TypeOK /\ NoDangling /\ FinitelyPointed /\ Allocated
  BY DEF IInv
<1>1. PICK depth \in [Path -> 0 .. Cardinality(Path)] : \A s \in Setup :
        /\ \A i \in DOMAIN Parts[s] : depth[PathOf[s]] < depth[PathOf[Parts[s][i]]]
        /\ Target[s] # NoPath => depth[PathOf[s]] < depth[Target[s]]
  BY DEF Layered
<1> DEFINE At(c) == depth[PathOf[setup[c]]]
           Depths == {At(c) : c \in Live}
<1>2. SUFFICES ASSUME Live # {} PROVE FALSE
  OBVIOUS
<1>3. \A c \in Live : c \in Obj /\ setup[c] \in Setup /\ PathOf[setup[c]] \in Path /\ At(c) \in Nat
  <2>1. \A c \in Live : c \in Obj /\ setup[c] \in Setup
    BY <1>0 DEF Live, TypeOK
  <2>2. \A c \in Live : PathOf[setup[c]] \in Path
    BY <2>1, SetupAssumption
  <2>3. \A p \in Path : depth[p] \in Nat
    BY <1>1
  <2> QED BY <2>1, <2>2, <2>3
<1>4. PICK c \in Live : \A d \in Live : At(c) <= At(d)
  <2> HIDE DEF At
  <2>1. Depths \in SUBSET Nat /\ Depths # {}
    BY <1>2, <1>3
  <2> HIDE DEF Depths
  <2>2. PICK m \in Depths : \A k \in Depths : m <= k
    BY <2>1, LeastNumber
  <2> QED BY <2>2 DEF Depths
\* What holds a context, but for the stream, renders it.
<1>5. ASSUME NEW d \in Live, NEW s \in Slot, ptr[s] = d, s[1] # "stream"
      PROVE  s[1] \in Live /\ At(s[1]) < At(d)
  <2>1. s[1] \in Obj /\ s \in Held(s[1])
    <3>1. s # Main
      BY <1>3, <1>5, NoneAssumption
    <3> QED BY <1>5, <3>1 DEF Slot, Held
  <2> DEFINE h == s[1]
  <2>2. ptr[s] # None
    BY <1>3, <1>5, NoneAssumption
  <2>3. h \in Live
    BY <2>1, <2>2 DEF Heap, HoldersLive, Live
  <2>4. Fits(s)
    BY <2>2 DEF Heap, Fitting
  <2> HIDE DEF h
  <2>5. setup[h] \in Setup /\ h \in Obj
    BY <1>3, <2>3
  <2>6. CASE s[2] # 0
    <3>1. s[2] \in DOMAIN Parts[setup[h]] /\ setup[d] = Parts[setup[h]][s[2]]
      BY <1>5, <2>4, <2>5, <2>6 DEF Fits, h
    <3> QED BY <1>1, <2>3, <2>5, <3>1 DEF h
  <2>7. CASE s[2] = 0
    <3>1. PathOf[setup[d]] = Target[setup[h]]
      BY <1>5, <2>4, <2>5, <2>7 DEF Fits, h
    <3>2. Target[setup[h]] # NoPath
      BY <1>3, <3>1, NoneAssumption
    <3> QED BY <1>1, <2>3, <2>5, <3>1, <3>2 DEF h
  <2> QED BY <2>6, <2>7
<1> HIDE DEF At
\* So the stream has the least deep at its path.
<1>6. ASSUME NEW d \in Live, At(d) = At(c), NEW s \in Slot, ptr[s] = d
      PROVE  s[1] = "stream" /\ s[2] = PathOf[setup[d]]
  <2>1. s[1] = "stream"
    <3> SUFFICES ASSUME s[1] # "stream" PROVE FALSE
      OBVIOUS
    <3>1. s[1] \in Live /\ At(s[1]) < At(d)
      BY <1>5, <1>6
    <3>2. At(c) <= At(s[1]) /\ At(c) \in Nat /\ At(s[1]) \in Nat
      BY <1>3, <1>4, <3>1
    <3> QED BY <1>6, <3>1, <3>2
  <2>2. Fits(s)
    BY <1>3, <1>6, NoneAssumption DEF Heap, Fitting
  <2> QED BY <1>6, <2>1, <2>2 DEF Fits
<1> DEFINE p == PathOf[setup[c]]
<1>7. Occupied(p) # {}
  <2>1. Pointing(c) # {}
    <3>1. refcount[c] # 0 /\ Cardinality(Pointing(c)) = refcount[c]
      BY <1>0, <1>3 DEF Allocated, Live, Heap, Counted
    <3> QED BY <3>1, FS_EmptySet
  <2>2. PICK s \in Slot : ptr[s] = c
    BY <2>1 DEF Pointing
  <2>3. s[1] = "stream" /\ s[2] = p
    BY <1>6, <2>2
  <2>4. s \in Registered(p)
    BY <2>3, HolderAssumption DEF Slot, Registered, Main
  <2> QED BY <1>3, <2>2, <2>4, NoneAssumption DEF Occupied
<1>8. PICK e \in Occupied(p) : refcount[ptr[e]] # 1
  BY <1>3, <1>7 DEF Collectable, Unused
<1> DEFINE d == ptr[e]
<1>9. e \in Slot /\ e[1] = "stream" /\ e[2] = p /\ d \in Obj
  BY <1>0, <1>3 DEF Occupied, Registered, Slot, TypeOK
<1>10. d \in Live /\ PathOf[setup[d]] = p
  <2>1. refcount[d] # 0
    BY <1>0, <1>9, PointedTo
  <2>2. Fits(e)
    BY <1>9, NoneAssumption DEF Heap, Fitting
  <2> QED BY <1>0, <1>9, <2>1, <2>2 DEF Allocated, Live, Fits
<1>11. At(d) = At(c)
  BY <1>10 DEF At
<1>12. \A s \in Slot : ptr[s] = d => s = e
  BY <1>6, <1>9, <1>10, <1>11, NoneAssumption DEF Heap, StreamOnce
<1>13. Pointing(d) = {e}
  BY <1>9, <1>12 DEF Pointing
<1>14. refcount[d] = 1
  BY <1>9, <1>13, FS_Singleton DEF Heap, Counted
<1> QED BY <1>8, <1>14

-----------------------------------------------------------------------------
(* The heap is kept *)

\* A step that only puts slots on the list of what is to be freed.
LEMMA GrowingKeepsHeap ==
  ASSUME Heap, UNCHANGED <<ptr, refcount, setup, on>>, todo \subseteq todo'
  PROVE  Heap'
<1>1. (Counted /\ StreamOnce /\ OneRtv)'
  BY DEF Heap, Counted, StreamOnce, OneRtv, Pointing
<1>2. (HoldersLive /\ OneChannel)'
  BY DEF Heap, HoldersLive, OneChannel
<1>3. Fitting'
  BY DEF Heap, Fitting, Fits
<1> QED BY <1>1, <1>2, <1>3 DEF Heap

\* A slot that pointed to nothing is made to point to a context, which gets a
\* reference for it; it may have been allocated for that.
LEMMA ReferenceKeepsHeap ==
  ASSUME TypeOK, NoDangling, FinitelyPointed, Allocated, Heap,
         todo = {}, todo' = {},
         NEW s \in Slot, ptr[s] = None, NEW c \in Obj,
         ptr' = [ptr EXCEPT ![s] = c], refcount' = Referenced(c),
         \A d \in Obj \ {c} : setup'[d] = setup[d],
         setup'[c] = setup[c] \/ setup[c] = None,
         s[1] = "stream" => \A t \in Slot : t[1] = "stream" => ptr[t] # c,
         s[1] \in Obj => setup[s[1]] # None,
         Fits(s)', OneChannel', OneRtv'
  PROVE  Heap'
<1>0. \A t \in Slot : ptr'[t] = IF t = s THEN c ELSE ptr[t]
  BY DEF TypeOK
<1>1. Counted'
  <2> SUFFICES ASSUME NEW d \in Obj PROVE Cardinality(Pointing(d)') = refcount'[d]
    BY DEF Counted
  <2>1. IsFiniteSet(Pointing(d)) /\ Cardinality(Pointing(d)) = refcount[d] /\ refcount[d] \in Nat
    BY DEF Heap, Counted, FinitelyPointed, TypeOK
  <2>2. CASE d = c
    <3>1. s \notin Pointing(d) /\ Pointing(d)' = Pointing(d) \union {s}
      BY <1>0, <2>2, NoneAssumption DEF Pointing
    <3>2. Cardinality(Pointing(d) \union {s}) = Cardinality(Pointing(d)) + 1
      BY <2>1, <3>1, FS_AddElement
    <3>3. refcount'[d] = refcount[d] + 1
      BY <2>2 DEF Referenced, TypeOK
    <3> QED BY <2>1, <3>1, <3>2, <3>3
  <2>3. CASE d # c
    <3>1. Pointing(d)' = Pointing(d)
      BY <1>0, <2>3, NoneAssumption DEF Pointing
    <3>2. refcount'[d] = refcount[d]
      BY <2>3 DEF Referenced, TypeOK
    <3> QED BY <2>1, <3>1, <3>2
  <2> QED BY <2>2, <2>3
<1>2. HoldersLive'
  <2> SUFFICES ASSUME NEW d \in Obj, setup'[d] = None, NEW t \in Held(d)
               PROVE  ptr'[t] = None
    BY DEF HoldersLive
  <2>1. setup[d] = None
    OBVIOUS
  <2>2. t \in Slot /\ t[1] = d
    BY DEF Held, Slot
  <2>3. ptr[t] = None
    BY <2>1 DEF Heap, HoldersLive
  <2> QED BY <1>0, <2>1, <2>2, <2>3
<1>3. StreamOnce'
  BY <1>0 DEF Heap, StreamOnce
<1>4. Fitting'
  <2> SUFFICES ASSUME NEW t \in Slot, t # s, ptr[t] # None PROVE Fits(t)'
    BY <1>0 DEF Fitting
  <2>1. Fits(t) /\ ptr[t] \in Obj /\ ptr'[t] = ptr[t]
    BY <1>0 DEF Heap, Fitting, TypeOK
  <2>2. setup'[ptr[t]] = setup[ptr[t]]
    <3>1. refcount[ptr[t]] # 0
      BY <2>1, PointedTo
    <3> QED BY <2>1, <3>1 DEF Allocated
  <2>3. t[1] \in Obj => setup'[t[1]] = setup[t[1]]
    <3> SUFFICES ASSUME t[1] = c, setup[c] = None PROVE FALSE
      OBVIOUS
    <3>1. t \in Held(c)
      BY HolderAssumption DEF Slot, Held, Main
    <3> QED BY <3>1 DEF Heap, HoldersLive
  <2> QED BY <2>1, <2>2, <2>3 DEF Fits
<1> QED BY <1>1, <1>2, <1>3, <1>4 DEF Heap

\* til_module_context_free() gives up what it is called for.
LEMMA FreeKeepsHeap ==
  ASSUME IInv, Heap, NEW s \in todo, Unref(s) \/ Destroy(s)
  PROVE  Heap'
<1> DEFINE c == ptr[s]
<1>0. TypeOK /\ NoDangling /\ FinitelyPointed /\ Allocated /\ TodoHolds
  BY DEF IInv
<1>1. /\ s \in Slot /\ c \in Obj /\ c # s[1] /\ on' = on
      /\ ptr' = [ptr EXCEPT ![s] = None]
      /\ todo \ {s} \subseteq todo'
  BY <1>0 DEF TodoHolds, TypeOK, Unref, Destroy, rtvVars
<1>2. refcount' = [refcount EXCEPT ![c] = refcount[c] - 1]
  <2>1. CASE Unref(s)
    BY <2>1 DEF Unref
  <2>2. CASE Destroy(s)
    <3>1. refcount[c] = 1 /\ refcount' = [refcount EXCEPT ![c] = 0]
      BY <2>2 DEF Destroy
    <3> HIDE DEF c
    <3> QED BY <3>1
  <2> QED BY <2>1, <2>2
<1>3. /\ \A d \in Obj \ {c} : setup'[d] = setup[d]
      /\ setup'[c] = setup[c] \/ (setup'[c] = None /\ Destroy(s))
  BY <1>0, <1>1 DEF Unref, Destroy, TypeOK
<1>4. ASSUME setup'[c] # setup[c]
      PROVE  /\ \A t \in Slot : ptr[t] = c => t = s
             /\ \A t \in Held(c) : ptr[t] = None \/ t \in todo'
  <2>1. Destroy(s) /\ refcount[c] = 1 /\ todo' = (todo \ {s}) \union Destroys(c)
    BY <1>3, <1>4 DEF Destroy
  <2>2. \A t \in Slot : ptr[t] = c => t = s
    BY <1>0, <1>1, <2>1, PointedTo
  <2>3. ASSUME NEW t \in Held(c), ptr[t] # None PROVE t \in todo'
    <3>1. t # s
      BY <1>1, <2>3 DEF Held
    <3>2. CASE t \in todo
      BY <2>1, <3>1, <3>2
    <3>3. CASE t \notin todo
      <4>1. setup[c] = Rtv => t[2] = on
        BY <1>1, <2>3, <3>3 DEF Heap, OneChannel
      <4> QED BY <2>1, <2>3, <4>1 DEF Destroys
    <3> QED BY <3>2, <3>3
  <2> QED BY <2>2, <2>3
<1> HIDE DEF c
<1>5. \A t \in Slot : ptr'[t] = IF t = s THEN None ELSE ptr[t]
  BY <1>0, <1>1 DEF TypeOK
<1>6. Counted'
  <2> SUFFICES ASSUME NEW d \in Obj PROVE Cardinality(Pointing(d)') = refcount'[d]
    BY DEF Counted
  <2>1. IsFiniteSet(Pointing(d)) /\ Cardinality(Pointing(d)) = refcount[d] /\ refcount[d] \in Nat
    BY <1>0 DEF Heap, Counted, FinitelyPointed, TypeOK
  <2>2. CASE d = c
    <3>1. s \in Pointing(d) /\ Pointing(d)' = Pointing(d) \ {s}
      BY <1>1, <1>5, <2>2, NoneAssumption DEF Pointing, c
    <3>2. Cardinality(Pointing(d) \ {s}) = Cardinality(Pointing(d)) - 1
      BY <2>1, <3>1, FS_RemoveElement
    <3>3. refcount'[d] = refcount[d] - 1
      BY <1>0, <1>1, <1>2, <2>2 DEF TypeOK
    <3> QED BY <2>1, <3>1, <3>2, <3>3
  <2>3. CASE d # c
    <3>1. Pointing(d)' = Pointing(d)
      BY <1>1, <1>5, <2>3, NoneAssumption DEF Pointing, c
    <3>2. refcount'[d] = refcount[d]
      BY <1>0, <1>1, <1>2, <2>3 DEF TypeOK
    <3> QED BY <2>1, <3>1, <3>2
  <2> QED BY <2>2, <2>3
<1>7. \A d \in Obj : \A t \in Held(d) : t \in Slot /\ t[1] = d
  BY DEF Held, Slot
<1>8. HoldersLive'
  <2> SUFFICES ASSUME NEW d \in Obj, setup'[d] = None, NEW t \in Held(d)
               PROVE  ptr'[t] = None \/ t \in todo'
    BY DEF HoldersLive
  <2>1. CASE setup[d] = None
    <3>1. ptr[t] = None \/ t \in todo
      BY <2>1 DEF Heap, HoldersLive
    <3> QED BY <1>1, <1>5, <1>7, <3>1
  <2>2. CASE setup[d] # None
    <3>1. d = c
      BY <1>3, <2>2
    <3> QED BY <1>4, <1>5, <1>7, <2>2, <3>1
  <2> QED BY <2>1, <2>2
<1>9. StreamOnce'
  BY <1>5 DEF Heap, StreamOnce
<1>10. Fitting'
  <2> SUFFICES ASSUME NEW t \in Slot \ todo', ptr'[t] # None PROVE Fits(t)'
    BY DEF Fitting
  <2>1. t # s /\ t \notin todo /\ ptr'[t] = ptr[t] /\ ptr[t] # None
    BY <1>1, <1>5
  <2>2. Fits(t) /\ ptr[t] \in Obj
    BY <1>0, <2>1 DEF Heap, Fitting, TypeOK
  <2>3. setup'[ptr[t]] = setup[ptr[t]]
    BY <1>3, <1>4, <2>1, <2>2
  <2>4. t[1] \in Obj => setup'[t[1]] = setup[t[1]]
    <3> SUFFICES ASSUME t[1] = c, setup'[c] # setup[c] PROVE FALSE
      BY <1>3
    <3>1. t \in Held(c)
      BY <1>1, HolderAssumption DEF Slot, Held, Main
    <3> QED BY <1>4, <2>1, <3>1
  <2> QED BY <2>1, <2>2, <2>3, <2>4 DEF Fits
<1>11. OneChannel' /\ OneRtv'
  <2>1. \A d \in Obj : setup'[d] = Rtv => setup[d] = Rtv
    BY <1>3, NoneAssumption, SetupAssumption
  <2>2. OneRtv'
    BY <2>1 DEF Heap, OneRtv
  <2>3. ASSUME NEW d \in Obj, setup[d] = Rtv, NEW t \in Held(d)
        PROVE  ptr'[t] = None \/ t \in todo' \/ (t[2] = on' /\ t[3] = 1)
    <3>1. ptr[t] = None \/ t \in todo \/ (t[2] = on /\ t[3] = 1)
      BY <2>3 DEF Heap, OneChannel
    <3> QED BY <1>1, <1>5, <1>7, <3>1
  <2> QED BY <2>1, <2>2, <2>3 DEF OneChannel
<1> QED BY <1>6, <1>8, <1>9, <1>10, <1>11 DEF Heap

\* rtv frees the channel that was on, before it has another.
LEMMA SwitchKeepsHeap ==
  ASSUME IInv, Heap, Switch, ~retains
  PROVE  Heap'
<1>0. TypeOK /\ todo = {} /\ MainHolds /\ stack = <<>> /\ phase = "run"
  BY DEF IInv, Switch, Idle
<1>1. /\ UNCHANGED <<ptr, refcount, setup>> /\ todo' = {Channel}
      /\ setup[rtv] = Rtv
  BY DEF Switch
<1>2. (Counted /\ StreamOnce /\ OneRtv)'
  BY <1>1 DEF Heap, Counted, StreamOnce, OneRtv, Pointing
<1>3. HoldersLive'
  BY <1>0, <1>1 DEF Heap, HoldersLive
<1>4. Fitting'
  BY <1>0, <1>1 DEF Heap, Fitting, Fits
<1>5. OneChannel'
  <2> SUFFICES ASSUME NEW c \in Obj, setup[c] = Rtv, NEW s \in Held(c), ptr[s] # None
               PROVE  s = Channel
    BY <1>1 DEF OneChannel
  <2>1. rtv \in Obj
    BY <1>0 DEF MainHolds, TypeOK, Slot, rtv
  <2>2. c = rtv
    BY <1>1, <2>1 DEF Heap, OneRtv
  <2>3. s[2] = on /\ s[3] = 1
    BY <1>0 DEF Heap, OneChannel
  <2> QED BY <2>2, <2>3 DEF Held, Channel
<1> QED BY <1>2, <1>3, <1>4, <1>5 DEF Heap

-----------------------------------------------------------------------------
(* The calls are in their places *)

\* The context a call makes parts of.
Making(i) == ptr[Into(stack[i], stack[i].made)]

\* A call makes a part of its holder, of rtv the channel that is on.
PartOK(i) ==
  LET h == stack[i].holder IN
    h \in Obj =>
      /\ stack[i].index \in DOMAIN Parts[setup[h]]
      /\ stack[i].setup = Parts[setup[h]][stack[i].index]
      /\ setup[h] = Rtv => stack[i].index = on
      /\ i < Len(stack) => stack[i].index \notin stack[i + 1].parts

\* The slots a call is still to fill point to nothing.
UnfilledOK(i) ==
  /\ \A n \in Clone : n > stack[i].made /\ Into(stack[i], n) \in Slot
                        => ptr[Into(stack[i], n)] = None
  /\ \A j \in stack[i].parts, n \in Clone : ptr[<<Making(i), j, n>>] = None
  /\ stack[i].setup = Rtv => stack[i].parts \subseteq {on}

Placed == \A i \in 1 .. Len(stack) : PartOK(i) /\ UnfilledOK(i)

\* The calls of K are kept in their places: call i was i + k before.
LEMMA PlacesKept ==
  ASSUME Placed, Len(stack) \in Nat, NEW k \in {-1, 0, 1}, NEW K \in SUBSET Nat, Keeps(k, K),
         NEW i \in K,
         \A n \in Clone : n > stack'[i].made /\ Into(stack'[i], n) \in Slot
           => ptr'[Into(stack'[i], n)] \in {ptr[Into(stack'[i], n)], None},
         \A j \in stack'[i].parts, n \in Clone :
           /\ Making(i)' = Making(i + k)
           /\ ptr'[<<Making(i + k), j, n>>] \in {ptr[<<Making(i + k), j, n>>], None},
         stack'[i].holder \in Obj => setup'[stack'[i].holder] = setup[stack'[i].holder],
         \/ on' = on
         \/ stack'[i].setup # Rtv /\ (stack'[i].holder \in Obj => setup[stack'[i].holder] # Rtv)
  PROVE  (PartOK(i) /\ UnfilledOK(i))'
<1> DEFINE j == i + k
<1>1. /\ i \in 1 .. Len(stack') /\ j \in 1 .. Len(stack) /\ Len(stack') = Len(stack) - k
      /\ i < Len(stack') => i + 1 \in K
      /\ stack'[i].setup = stack[j].setup
      /\ stack'[i].holder = stack[j].holder
      /\ stack'[i].index = stack[j].index
      /\ stack'[i].made = stack[j].made
      /\ stack'[i].parts \subseteq stack[j].parts
  BY DEF Keeps
<1>2. PartOK(j) /\ UnfilledOK(j)
  BY <1>1 DEF Placed
<1>3. i < Len(stack') => j < Len(stack) /\ stack'[i + 1].parts \subseteq stack[j + 1].parts
  <2> SUFFICES ASSUME i < Len(stack')
               PROVE  j < Len(stack) /\ stack'[i + 1].parts \subseteq stack[j + 1].parts
    OBVIOUS
  <2> DEFINE m == i + 1
             o == m + k
  <2>1. m \in K
    BY <1>1
  <2>2. stack'[m].parts \subseteq stack[o].parts /\ o \in 1 .. Len(stack)
    BY <2>1 DEF Keeps
  <2>3. o = j + 1
    <3>1. i \in Nat /\ k \in {-1, 0, 1}
      OBVIOUS
    <3> QED BY ONLY <3>1 DEF o, m, j
  <2> QED BY <1>1, <2>2, <2>3
<1>4. \A n : Into(stack'[i], n) = Into(stack[j], n)
  BY <1>1 DEF Into
<1> HIDE DEF j
<1>5. PartOK(i)'
  <2> SUFFICES ASSUME stack'[i].holder \in Obj
               PROVE  LET h == stack'[i].holder IN
                        /\ stack'[i].index \in DOMAIN Parts[setup'[h]]
                        /\ stack'[i].setup = Parts[setup'[h]][stack'[i].index]
                        /\ setup'[h] = Rtv => stack'[i].index = on'
                        /\ i < Len(stack') => stack'[i].index \notin stack'[i + 1].parts
    BY DEF PartOK
  <2> DEFINE h == stack'[i].holder
  <2>1. /\ stack[j].index \in DOMAIN Parts[setup[h]]
        /\ stack[j].setup = Parts[setup[h]][stack[j].index]
        /\ setup[h] = Rtv => stack[j].index = on
        /\ j < Len(stack) => stack[j].index \notin stack[j + 1].parts
    BY <1>1, <1>2 DEF PartOK
  <2> QED BY <1>1, <1>3, <2>1
<1>6. UnfilledOK(i)'
  <2>1. \A n \in Clone : n > stack'[i].made /\ Into(stack'[i], n) \in Slot
                           => ptr'[Into(stack'[i], n)] = None
    BY <1>1, <1>2, <1>4 DEF UnfilledOK
  <2>2. \A p \in stack'[i].parts, n \in Clone : ptr'[<<Making(i)', p, n>>] = None
    <3> SUFFICES ASSUME NEW p \in stack'[i].parts, NEW n \in Clone
                 PROVE  ptr'[<<Making(i)', p, n>>] = None
      OBVIOUS
    <3>1. /\ Making(i)' = Making(j)
          /\ ptr'[<<Making(j), p, n>>] \in {ptr[<<Making(j), p, n>>], None}
      BY DEF j
    <3>2. ptr[<<Making(j), p, n>>] = None
      BY <1>1, <1>2 DEF UnfilledOK
    <3> QED BY <3>1, <3>2
  <2>3. stack'[i].setup = Rtv => stack'[i].parts \subseteq {on'}
    BY <1>1, <1>2 DEF UnfilledOK
  <2> QED BY <2>1, <2>2, <2>3 DEF UnfilledOK
<1> QED BY <1>5, <1>6

\* So they are when slots are given up, but for those of what was made, or the
\* stream's are filled.
LEMMA PlacesSpared ==
  ASSUME IInv, Placed, NEW k \in {-1, 0, 1}, NEW K \in SUBSET Nat, Keeps(k, K),
         on' = on,
         \A t \in Slot : ptr'[t] \in {ptr[t], None} \/ t[1] = "stream",
         \A i \in 1 .. Len(stack) : \A n \in 1 .. stack[i].made :
           ptr'[Into(stack[i], n)] = ptr[Into(stack[i], n)],
         \A i \in 1 .. Len(stack) :
           stack[i].holder \in Obj => setup'[stack[i].holder] = setup[stack[i].holder]
  PROVE  \A i \in K : (PartOK(i) /\ UnfilledOK(i))'
<1> SUFFICES ASSUME NEW i \in K PROVE (PartOK(i) /\ UnfilledOK(i))'
  OBVIOUS
<1> DEFINE j == i + k
<1>0. TypeOK /\ Len(stack) \in Nat /\ Calls
  BY DEF IInv, TypeOK
<1>1. /\ j \in 1 .. Len(stack)
      /\ stack'[i].holder = stack[j].holder
      /\ stack'[i].index = stack[j].index
      /\ stack'[i].made = stack[j].made
      /\ stack'[i].parts \subseteq stack[j].parts
  BY DEF Keeps
<1> HIDE DEF j
<1>2. \A n : Into(stack'[i], n) = Into(stack[j], n)
  BY <1>1 DEF Into
<1>3. stack[j] \in CallType /\ CallOK(j)
  BY <1>0, <1>1 DEF TypeOK, Calls
<1>4. stack[j].holder \in Obj \union {"main"} /\ stack[j].made \in Nat /\ stack[j].parts \subseteq Index
  BY <1>3, BoundAssumption DEF CallType
<1>5. ASSUME NEW n \in Clone, Into(stack'[i], n) \in Slot
      PROVE  ptr'[Into(stack'[i], n)] \in {ptr[Into(stack'[i], n)], None}
  <2> DEFINE t == Into(stack'[i], n)
  <2>1. t[1] # "stream"
    BY <1>1, <1>4, HolderAssumption DEF Into
  <2> HIDE DEF t
  <2> QED BY <1>5, <2>1 DEF t
<1>6. ASSUME NEW p \in stack'[i].parts, NEW n \in Clone
      PROVE  /\ Making(i)' = Making(j)
             /\ ptr'[<<Making(j), p, n>>] \in {ptr[<<Making(j), p, n>>], None}
  <2>1. p \in stack[j].parts /\ p \in Index /\ stack[j].made > 0
    BY <1>1, <1>3, <1>4 DEF CallOK
  <2>2. stack[j].made \in 1 .. stack[j].made
    BY <1>4, <2>1
  <2>3. Making(i)' = Making(j)
    BY <1>1, <1>2, <2>2 DEF Making
  <2>4. Making(j) \in Obj
    BY <1>3, <2>2 DEF CallOK, MadeOK, Making
  <2> DEFINE t == <<Making(j), p, n>>
  <2>5. t \in Slot /\ t[1] # "stream"
    BY <2>1, <2>4, HolderAssumption DEF Slot
  <2> HIDE DEF t
  <2>6. ptr'[t] \in {ptr[t], None}
    BY <2>5
  <2> QED BY <2>3, <2>6 DEF t
<1>7. stack'[i].holder \in Obj => setup'[stack'[i].holder] = setup[stack'[i].holder]
  BY <1>1
<1> QED BY <1>0, <1>5, <1>6, <1>7, PlacesKept DEF j

\* A call returns.
LEMMA TailKeeps ==
  ASSUME TypeOK, stack # <<>>, stack' = Tail(stack)
  PROVE  /\ Keeps(1, 1 .. Len(stack'))
         /\ Len(stack) \in Nat \ {0} /\ Len(stack') = Len(stack) - 1
         /\ \A i \in 1 .. Len(stack') : stack'[i] = stack[i + 1] /\ i + 1 \in 1 .. Len(stack)
<1>1. /\ Len(stack) \in Nat \ {0} /\ Len(stack') = Len(stack) - 1
      /\ \A i \in 1 .. Len(stack') : stack'[i] = stack[i + 1] /\ i + 1 \in 1 .. Len(stack)
  BY DEF TypeOK
<1>2. \A i \in 1 .. Len(stack) : stack[i].made \in Nat
  <2>1. \A i \in 1 .. Len(stack) : stack[i] \in CallType
    BY DEF TypeOK
  <2> QED BY <2>1, BoundAssumption DEF CallType
<1>3. \A i \in 1 .. Len(stack') : i < Len(stack') => i + 1 \in 1 .. Len(stack')
  BY <1>1
<1> QED BY <1>1, <1>2, <1>3 DEF Keeps

\* Calls are the same, but for what the innermost has registered or may reuse.
LEMMA SameKeeps ==
  ASSUME TypeOK, Len(stack') = Len(stack),
         \A i \in 1 .. Len(stack) :
           /\ stack'[i].setup = stack[i].setup
           /\ stack'[i].holder = stack[i].holder
           /\ stack'[i].index = stack[i].index
           /\ stack'[i].made = stack[i].made
           /\ stack'[i].parts = stack[i].parts
           /\ stack'[i].registered = 0 => stack[i].registered = 0
  PROVE  Keeps(0, 1 .. Len(stack')) /\ Len(stack) \in Nat
<1>1. Len(stack) \in Nat /\ \A i \in 1 .. Len(stack) : stack[i] \in CallType
  BY DEF TypeOK
<1>2. \A i \in 1 .. Len(stack) : stack[i].made \in Nat
  BY <1>1, BoundAssumption DEF CallType
<1>3. \A i \in 1 .. Len(stack) : i + 0 = i /\ (i < Len(stack) => i + 1 \in 1 .. Len(stack))
  BY <1>1
<1> QED BY <1>1, <1>2, <1>3 DEF Keeps

LEMMA FreePlaced ==
  ASSUME IInv, Placed, NEW s \in todo, Unref(s) \/ Destroy(s)
  PROVE  Placed'
<1>0. TypeOK /\ NoDangling /\ FinitelyPointed
  BY DEF IInv
<1>1. /\ UNCHANGED <<stack, on>> /\ s \in Slot /\ ptr[s] \in Obj
      /\ ptr' = [ptr EXCEPT ![s] = None]
  BY <1>0 DEF IInv, TodoHolds, TypeOK, Unref, Destroy, callVars, rtvVars
<1>2. Keeps(0, 1 .. Len(stack'))
  BY <1>0, <1>1, SameKeeps
<1>3. \A t \in Slot : t # s => ptr'[t] = ptr[t]
  BY <1>0, <1>1 DEF TypeOK
<1>4. \A t \in Slot : ptr'[t] \in {ptr[t], None}
  BY <1>0, <1>1 DEF TypeOK
<1>5. \A i \in 1 .. Len(stack) : \A n \in 1 .. stack[i].made :
        ptr'[Into(stack[i], n)] = ptr[Into(stack[i], n)]
  BY <1>3 DEF IInv, Calls, CallOK, MadeOK
<1>6. ASSUME NEW i \in 1 .. Len(stack), stack[i].holder \in Obj
      PROVE  setup'[stack[i].holder] = setup[stack[i].holder]
  <2>1. Anchor(i) \in Slot /\ Anchor(i) \notin todo /\ ptr[Anchor(i)] = stack[i].holder
    BY <1>6, HolderPointed
  <2>2. CASE Unref(s)
    BY <2>2 DEF Unref
  <2>3. CASE Destroy(s)
    <3>1. refcount[ptr[s]] = 1 /\ setup' = [setup EXCEPT ![ptr[s]] = None]
      BY <2>3 DEF Destroy
    <3>2. stack[i].holder # ptr[s]
      BY <1>0, <1>1, <2>1, <3>1, PointedTo
    <3> QED BY <1>0, <1>6, <3>1, <3>2 DEF TypeOK
  <2> QED BY <2>2, <2>3
<1>7. \A i \in 1 .. Len(stack') : (PartOK(i) /\ UnfilledOK(i))'
  <2> DEFINE K == 1 .. Len(stack')
  <2>1. K \in SUBSET Nat /\ 0 \in {-1, 0, 1} /\ Keeps(0, K)
    BY <1>2
  <2> HIDE DEF K
  <2>2. \A i \in K : (PartOK(i) /\ UnfilledOK(i))'
    BY <1>1, <1>4, <1>5, <1>6, <2>1, PlacesSpared
  <2> QED BY <2>2 DEF K
<1> QED BY <1>7 DEF Placed

\* A step that changes nothing of what the calls are about.
LEMMA QuietPlaced ==
  ASSUME Placed, UNCHANGED <<ptr, setup, stack, on>>
  PROVE  Placed'
BY DEF Placed, PartOK, UnfilledOK, Making

LEMMA DisplacePlaced ==
  ASSUME IInv, Placed, Displace
  PROVE  Placed'
<1> DEFINE r == Cardinality(Occupied(PathOf[top.setup])) >= top.made
           K == 1 .. Len(stack')
<1>0. TypeOK /\ stack # <<>>
  BY DEF IInv, Displace, MadeAll, Creating
<1>1. UNCHANGED <<ptr, setup, on>> /\ stack' = [stack EXCEPT ![1] = [stack[1] EXCEPT !.reuse = r]]
  BY DEF Displace, rtvVars
<1>2. stack[1] \in CallType /\ Len(stack) \in Nat \ {0} /\ stack \in Seq(CallType)
  BY <1>0, TopMade DEF TypeOK
<1> DEFINE call == [stack[1] EXCEPT !.reuse = r]
<1>3. /\ call.setup = stack[1].setup /\ call.holder = stack[1].holder
      /\ call.index = stack[1].index /\ call.made = stack[1].made
      /\ call.parts = stack[1].parts /\ call.registered = stack[1].registered
  BY <1>2 DEF CallType
<1> HIDE DEF call
<1>4. Len(stack') = Len(stack) /\ \A i \in 1 .. Len(stack) :
        stack'[i] = IF i = 1 THEN call ELSE stack[i]
  BY <1>1, <1>2 DEF call
<1>5. Keeps(0, K) /\ Len(stack) \in Nat
  BY <1>0, <1>3, <1>4, SameKeeps
<1>6. K \in SUBSET Nat /\ 0 \in {-1, 0, 1}
  OBVIOUS
<1> HIDE DEF K
<1>7. \A i \in K : (PartOK(i) /\ UnfilledOK(i))'
  BY <1>1, <1>5, <1>6, PlacesSpared
<1> QED BY <1>7 DEF Placed, K

LEMMA UnwindPlaced ==
  ASSUME IInv, Placed, Unwind
  PROVE  Placed'
<1> DEFINE K == 1 .. Len(stack')
<1>0. TypeOK /\ stack # <<>> /\ UNCHANGED <<ptr, setup, on>> /\ stack' = Tail(stack)
  BY DEF IInv, Unwind, Failing, rtvVars
<1>1. Keeps(1, K) /\ K \in SUBSET Nat /\ 1 \in {-1, 0, 1}
  BY <1>0, TailKeeps
<1> HIDE DEF K
<1>2. \A i \in K : (PartOK(i) /\ UnfilledOK(i))'
  BY <1>0, <1>1, PlacesSpared
<1> QED BY <1>2 DEF Placed, K

LEMMA RegisterPlaced ==
  ASSUME IInv, Placed, Register
  PROVE  Placed'
<1> DEFINE n == top.registered + 1
           p == PathOf[top.setup]
           c == ptr[Into(top, n)]
           r == <<"stream", p, n>>
           K == 1 .. Len(stack')
<1>0. TypeOK /\ Calls /\ stack # <<>>
  BY DEF IInv, Register, MadeAll, Creating
<1>1. /\ UNCHANGED <<setup, on>>
      /\ ptr' = [ptr EXCEPT ![r] = c]
      /\ stack' = IF n = top.made THEN Tail(stack)
                                  ELSE [stack EXCEPT ![1] = [stack[1] EXCEPT !.registered = n]]
  BY DEF Register, rtvVars
<1>2. top = stack[1] /\ stack[1] \in CallType /\ top.registered \in Nat
      /\ Len(stack) \in Nat \ {0} /\ stack \in Seq(CallType)
  BY <1>0, TopMade DEF TypeOK
<1>3. r[1] = "stream" /\ n \in Nat \ {0}
  BY <1>2
<1>4. Keeps(1, K) \/ Keeps(0, K)
  <2>1. CASE n = top.made
    BY <1>0, <1>1, <2>1, TailKeeps
  <2>2. CASE n # top.made
    <3> DEFINE call == [stack[1] EXCEPT !.registered = n]
    <3>1. /\ call.setup = stack[1].setup /\ call.holder = stack[1].holder
          /\ call.index = stack[1].index /\ call.made = stack[1].made
          /\ call.parts = stack[1].parts /\ call.registered # 0
      BY <1>2, <1>3 DEF CallType
    <3>2. stack' = [stack EXCEPT ![1] = call]
      BY <1>1, <2>2
    <3> HIDE DEF call
    <3>3. Len(stack') = Len(stack) /\ \A i \in 1 .. Len(stack) :
            stack'[i] = IF i = 1 THEN call ELSE stack[i]
      BY <1>2, <3>2
    <3> QED BY <1>0, <3>1, <3>3, SameKeeps
  <2> QED BY <2>1, <2>2
<1> HIDE DEF r, c
<1>5. \A t \in Slot : t[1] # "stream" => ptr'[t] = ptr[t]
  BY <1>0, <1>1, <1>3 DEF TypeOK
<1>6. \A i \in 1 .. Len(stack) : \A m \in 1 .. stack[i].made :
        ptr'[Into(stack[i], m)] = ptr[Into(stack[i], m)]
  <2> SUFFICES ASSUME NEW i \in 1 .. Len(stack), NEW m \in 1 .. stack[i].made
               PROVE  ptr'[Into(stack[i], m)] = ptr[Into(stack[i], m)]
    OBVIOUS
  <2>1. Into(stack[i], m) \in Slot
    BY <1>0 DEF Calls, CallOK, MadeOK
  <2>2. Into(stack[i], m)[1] # "stream"
    <3>1. stack[i] \in CallType
      BY <1>2
    <3> QED BY <3>1, HolderAssumption DEF Into, CallType
  <2> QED BY <1>5, <2>1, <2>2
<1>7. \A t \in Slot : ptr'[t] \in {ptr[t], None} \/ t[1] = "stream"
  BY <1>5
<1>8. K \in SUBSET Nat /\ 1 \in {-1, 0, 1} /\ 0 \in {-1, 0, 1}
  OBVIOUS
<1> HIDE DEF K
<1>9. \A i \in K : (PartOK(i) /\ UnfilledOK(i))'
  BY <1>1, <1>4, <1>6, <1>7, <1>8, PlacesSpared
<1> QED BY <1>9 DEF Placed, K

\* A call is made for the part i of h.
LEMMA PushPlaced ==
  ASSUME IInv, Placed, UNCHANGED <<ptr, setup, on>>,
         NEW s \in Setup, NEW h \in Obj, NEW i \in Index,
         NEW base \in Seq(CallType), Len(base) = Len(stack),
         \A j \in 1 .. Len(stack) :
           /\ base[j].setup = stack[j].setup
           /\ base[j].holder = stack[j].holder
           /\ base[j].index = stack[j].index
           /\ base[j].made = stack[j].made
           /\ base[j].parts \subseteq stack[j].parts
           /\ base[j].registered = stack[j].registered,
         stack' = <<Call(s, h, i)>> \o base,
         i \in DOMAIN Parts[setup[h]], s = Parts[setup[h]][i], setup[h] = Rtv => i = on,
         stack # <<>> => i \notin base[1].parts,
         \A n \in Clone : ptr[<<h, i, n>>] = None
  PROVE  Placed'
<1> DEFINE c == Call(s, h, i)
           K == 2 .. Len(stack')
<1>0. TypeOK /\ Len(stack) \in Nat
  BY DEF IInv, TypeOK
<1>1. c \in CallType /\ c.setup = s /\ c.holder = h /\ c.index = i /\ c.parts = {}
  BY CallTyped DEF Call
<1> HIDE DEF c
<1>2. /\ Len(stack') = Len(stack) + 1
      /\ stack'[1] = c
      /\ \A j \in 2 .. Len(stack') : stack'[j] = base[j - 1]
  <2>1. stack' = <<c>> \o base
    BY DEF c
  <2> QED BY <1>0, <1>1, <2>1
<1>3. \A m \in 1 .. Len(stack) : stack[m].made \in Nat
  <2>1. \A m \in 1 .. Len(stack) : stack[m] \in CallType
    BY <1>0 DEF TypeOK
  <2>2. \A call \in CallType : call.made \in Nat
    BY ONLY BoundAssumption DEF CallType
  <2> QED BY ONLY <2>1, <2>2
<1>4. Keeps(-1, K)
  <2>1. Len(stack') = Len(stack) - (-1)
    BY <1>0, <1>2
  <2>2. ASSUME NEW j \in K
        PROVE  /\ j \in 1 .. Len(stack') /\ j + (-1) \in 1 .. Len(stack)
               /\ j < Len(stack') => j + 1 \in K
               /\ stack'[j].setup = stack[j + (-1)].setup
               /\ stack'[j].holder = stack[j + (-1)].holder
               /\ stack'[j].index = stack[j + (-1)].index
               /\ stack'[j].made = stack[j + (-1)].made
               /\ stack'[j].made \in Nat
               /\ stack'[j].parts \subseteq stack[j + (-1)].parts
               /\ stack'[j].registered = 0 => stack[j + (-1)].registered = 0
    <3> DEFINE m == j + (-1)
    <3>1. /\ m \in 1 .. Len(stack) /\ j \in 1 .. Len(stack')
          /\ j < Len(stack') => j + 1 \in K
          /\ m = j - 1
      BY <1>0, <1>2
    <3>2. stack'[j] = base[m]
      BY <1>2, <3>1
    <3> HIDE DEF m, K
    <3>3. /\ stack'[j].setup = stack[m].setup
          /\ stack'[j].holder = stack[m].holder
          /\ stack'[j].index = stack[m].index
          /\ stack'[j].made = stack[m].made
          /\ stack'[j].made \in Nat
          /\ stack'[j].parts \subseteq stack[m].parts
          /\ stack'[j].registered = 0 => stack[m].registered = 0
      BY <1>3, <3>1, <3>2
    <3> QED BY ONLY <3>1, <3>3 DEF m
  <2> HIDE DEF K
  <2> QED BY <2>1, <2>2 DEF Keeps
<1>5. \A j \in K : (PartOK(j) /\ UnfilledOK(j))'
  <2>1. K \in SUBSET Nat /\ -1 \in {-1, 0, 1}
    OBVIOUS
  <2> HIDE DEF K
  <2>2. /\ \A t \in Slot : ptr'[t] \in {ptr[t], None} \/ t[1] = "stream"
        /\ \A j \in 1 .. Len(stack) : \A n \in 1 .. stack[j].made :
             ptr'[Into(stack[j], n)] = ptr[Into(stack[j], n)]
        /\ \A j \in 1 .. Len(stack) :
             stack[j].holder \in Obj => setup'[stack[j].holder] = setup[stack[j].holder]
    OBVIOUS
  <2> QED BY <1>4, <2>1, <2>2, PlacesSpared
<1>6. PartOK(1)'
  <2>1. 1 < Len(stack') => stack # <<>> /\ stack'[1 + 1] = base[1]
    BY <1>0, <1>2
  <2> QED BY <1>1, <1>2, <2>1 DEF PartOK
<1>7. UnfilledOK(1)'
  <2>1. \A n \in Clone : ptr'[Into(stack'[1], n)] = None
    BY <1>1, <1>2 DEF Into
  <2> QED BY <1>1, <1>2, <2>1 DEF UnfilledOK
<1>8. \A j \in 1 .. Len(stack') : j = 1 \/ j \in K
  BY <1>0, <1>2
<1> QED BY <1>5, <1>6, <1>7, <1>8 DEF Placed

LEMMA MakePartPlaced ==
  ASSUME IInv, Placed, MakePart
  PROVE  Placed'
<1> DEFINE n == Len(stack)
<1>0. TypeOK /\ Placed /\ stack # <<>> /\ UNCHANGED <<ptr, setup, on>>
  BY DEF IInv, MakePart, Creating, heapVars, rtvVars
<1>1. PICK i \in top.parts :
        stack' = <<Call(Parts[top.setup][i], Latest, i)>> \o [stack EXCEPT ![1].parts = @ \ {i}]
  BY DEF MakePart
<1>2. /\ top = stack[1] /\ top \in CallType /\ n \in Nat \ {0} /\ stack \in Seq(CallType)
      /\ CallOK(1) /\ top.setup \in Setup /\ top.made \in Nat
      /\ (top.made > 0 => Latest \in Obj)
  BY <1>0, TopMade DEF TypeOK
<1>3. top.made \in 1 .. top.made /\ i \in DOMAIN Parts[top.setup] /\ Latest \in Obj
  BY <1>2 DEF CallOK
<1>4. Parts[top.setup][i] \in Setup /\ i \in Index
  <2>1. Parts[top.setup] \in Seq(Setup)
    BY <1>2, SetupAssumption
  <2> QED BY <1>2, <1>3, <2>1, Indexes
<1>5. setup[Latest] = top.setup
  BY <1>2, <1>3 DEF CallOK, MadeOK, Latest
<1>6. /\ \A m \in Clone : ptr[<<Latest, i, m>>] = None
      /\ setup[Latest] = Rtv => i = on
  <2>1. UnfilledOK(1) /\ Making(1) = Latest
    BY <1>0, <1>2 DEF Placed, Making, Latest
  <2> QED BY <1>2, <1>5, <2>1 DEF UnfilledOK
<1> DEFINE call == [stack[1] EXCEPT !.parts = @ \ {i}]
           base == [stack EXCEPT ![1] = call]
<1>7. call \in CallType
  <2>1. stack[1].parts \ {i} \subseteq Index
    BY <1>2 DEF CallType
  <2> QED BY <1>2, <2>1 DEF CallType
<1>8. /\ call.setup = stack[1].setup /\ call.holder = stack[1].holder
      /\ call.index = stack[1].index /\ call.made = stack[1].made
      /\ call.parts = stack[1].parts \ {i} /\ call.registered = stack[1].registered
  BY <1>2 DEF CallType
<1> DEFINE s == Parts[top.setup][i]
           h == Latest
<1>9. stack' = <<Call(s, h, i)>> \o base
  BY <1>1
<1> HIDE DEF call
<1>10. /\ base \in Seq(CallType) /\ Len(base) = n
       /\ \A j \in 1 .. n : base[j] = IF j = 1 THEN call ELSE stack[j]
  BY <1>2, <1>7
<1> HIDE DEF base
<1>11. /\ s \in Setup /\ h \in Obj /\ i \in Index
       /\ i \in DOMAIN Parts[setup[h]] /\ s = Parts[setup[h]][i] /\ (setup[h] = Rtv => i = on)
       /\ \A m \in Clone : ptr[<<h, i, m>>] = None
  BY <1>3, <1>4, <1>5, <1>6
<1>12. base[1] = call /\ i \notin base[1].parts
  BY <1>2, <1>8, <1>10
<1> HIDE DEF s, h, n
<1>13. \A j \in 1 .. Len(stack) :
        /\ base[j].setup = stack[j].setup
        /\ base[j].holder = stack[j].holder
        /\ base[j].index = stack[j].index
        /\ base[j].made = stack[j].made
        /\ base[j].parts \subseteq stack[j].parts
        /\ base[j].registered = stack[j].registered
  BY <1>8, <1>10 DEF n
<1>14. Len(base) = Len(stack)
  BY <1>10 DEF n
<1> QED BY <1>0, <1>9, <1>10, <1>11, <1>12, <1>13, <1>14, PushPlaced

\* rtv is main()'s when it switches channels as it renders.
SwitchesMains == switching /\ stack = <<>> => setup[ptr[Main]] = Rtv

LEMMA TunePlaced ==
  ASSUME IInv, Heap, Placed, SwitchesMains, Tune
  PROVE  Placed'
<1> DEFINE c == IF stack = <<>> THEN rtv ELSE Latest
           s == Parts[Rtv][on]
<1>0. TypeOK /\ Switching /\ MainHolds /\ switching /\ todo = {} /\ UNCHANGED <<ptr, setup, on>>
      /\ (stack # <<>> => top.setup = Rtv /\ top.parts = {})
  BY DEF IInv, Tune, Creating, heapVars
<1>1. c \in Obj /\ setup[c] = Rtv
  <2>1. CASE stack = <<>>
    BY <1>0, <2>1 DEF SwitchesMains, rtv, MainHolds, Switching, TypeOK, Slot
  <2>2. CASE stack # <<>>
    <3>1. /\ top = stack[1] /\ top.made \in Nat /\ CallOK(1) /\ Len(stack) \in Nat \ {0}
          /\ (top.made > 0 => Latest \in Obj)
      BY <2>2, TopMade
    <3>2. FromMain(1)
      BY <1>0, <2>2, <3>1 DEF CallOK
    <3>3. top.made > 0
      BY <1>0, <2>2, <3>1, <3>2 DEF Switching, FromMain
    <3>4. setup[Latest] = top.setup
      BY <3>1, <3>3 DEF CallOK, MadeOK, Latest
    <3> QED BY <1>0, <2>2, <3>1, <3>3, <3>4
  <2> QED BY <2>1, <2>2
<1>2. stack' = IF ptr[<<c, on, 1>>] = None THEN <<Call(s, c, on)>> \o stack ELSE stack
  BY DEF Tune
<1> HIDE DEF c
<1>3. CASE ptr[<<c, on, 1>>] # None
  BY <1>0, <1>2, <1>3, QuietPlaced
<1>4. CASE ptr[<<c, on, 1>>] = None
  <2>1. on # 0 /\ on \in 0 .. Len(Parts[Rtv])
    BY <1>0 DEF Switching, TypeOK
  <2>2. Parts[Rtv] \in Seq(Setup) /\ Rtv \in Setup
    BY SetupAssumption
  <2>3. on \in DOMAIN Parts[Rtv] /\ s \in Setup /\ on \in Index
    BY <2>1, <2>2, Indexes
  <2>4. \A n \in Clone : ptr[<<c, on, n>>] = None
    <3> SUFFICES ASSUME NEW n \in Clone PROVE ptr[<<c, on, n>>] = None
      OBVIOUS
    <3>1. <<c, on, n>> \in Held(c)
      BY <2>3 DEF Held
    <3>2. ptr[<<c, on, n>>] = None \/ n = 1
      BY <1>0, <1>1, <3>1 DEF Heap, OneChannel
    <3> QED BY <1>4, <3>2
  <2>5. stack' = <<Call(s, c, on)>> \o stack
    BY <1>2, <1>4
  <2>6. stack # <<>> => on \notin stack[1].parts
    BY <1>0, TopMade
  <2>7. stack \in Seq(CallType)
    BY <1>0 DEF TypeOK
  <2>8. on \in DOMAIN Parts[setup[c]] /\ s = Parts[setup[c]][on] /\ (setup[c] = Rtv => on = on)
    BY <1>1, <2>3
  <2> HIDE DEF s
  <2> QED BY <1>0, <1>1, <2>3, <2>4, <2>5, <2>6, <2>7, <2>8, PushPlaced
<1> QED BY <1>3, <1>4

-----------------------------------------------------------------------------
(* A context is allocated *)

\* Before main()'s context there is none, and no channel is on.
Unbegun ==
  phase = "start" \/ (stack # <<>> /\ stack[Len(stack)].holder = "main" /\ stack[Len(stack)].made = 0)
NothingYet == Unbegun => on = 0 /\ \A c \in Obj : setup[c] = None

\* What New does, in terms of the slot that it fills.
LEMMA NewFills ==
  ASSUME IInv, Heap, Placed, NEW c \in Obj, New(c)
  PROVE  LET w == Into(top, top.made + 1) IN
         /\ stack # <<>> /\ todo = {} /\ todo' = {} /\ phase' = phase /\ phase = "run"
         /\ top.made + 1 \in Clone /\ top.made \in Nat /\ top.setup \in Setup
         /\ w \in Slot /\ ptr[w] = None /\ w[1] # "stream"
         /\ setup[c] = None
         /\ \A s \in Slot : ptr[s] # c
         /\ \A j \in 1 .. Len(stack) : stack[j].holder # c
         /\ ptr' = [ptr EXCEPT ![w] = c] /\ refcount' = Referenced(c)
         /\ setup' = [setup EXCEPT ![c] = top.setup]
         /\ Len(stack') = Len(stack)
         /\ \A j \in 2 .. Len(stack) : stack'[j] = stack[j]
         /\ stack'[1].setup = top.setup /\ stack'[1].holder = top.holder
         /\ stack'[1].index = top.index /\ stack'[1].made = top.made + 1
         /\ stack'[1].parts = PartsOf(top.setup) /\ stack'[1].registered = top.registered
         /\ top.registered = 0
<1> DEFINE l == Len(stack)
           m == top.made + 1
           w == Into(top, m)
           P == PartsOf(top.setup)
<1>0. TypeOK /\ NoDangling /\ FinitelyPointed /\ Allocated /\ stack # <<>> /\ todo = {}
      /\ MainHolds
  BY DEF IInv, New, Creating
<1>1. /\ top = stack[1] /\ top \in CallType /\ l \in Nat \ {0} /\ stack \in Seq(CallType)
      /\ CallOK(1) /\ RegisteredOK(1) /\ top.setup \in Setup
      /\ top.made \in Nat
  BY <1>0, TopMade DEF TypeOK
<1>2. /\ top.made < Clones[top.setup] /\ setup[c] = None
      /\ setup' = [setup EXCEPT ![c] = top.setup]
      /\ ptr' = [s \in Slot |-> IF s \in Held(c) THEN None ELSE IF s = w THEN c ELSE ptr[s]]
      /\ refcount' = [refcount EXCEPT ![c] = 1]
      /\ todo' = todo /\ phase' = phase
  BY DEF New
<1>3. refcount[c] = 0 /\ \A s \in Slot : ptr[s] # c
  <2>1. refcount[c] = 0
    BY <1>0, <1>2 DEF Allocated
  <2> QED BY <1>0, <2>1, PointedTo
<1>4. \A j \in 1 .. l : stack[j].holder # c
  BY <1>3, HolderPointed
<1>5. m \in Clone /\ m \in 1 .. m
  BY <1>1, <1>2, ClonesBound, BoundAssumption DEF Clone
<1>6. 1 \in 1 .. l /\ UnfilledOK(1)
  BY <1>1 DEF Placed
<1>7. w = <<top.holder, top.index, m>> /\ w[1] = top.holder
  BY DEF Into
<1>8. w \in Slot /\ w[1] # "stream"
  <2>1. CASE FromMain(1)
    <3>1. top.holder = "main" /\ top.index = 0 /\ Clones[top.setup] = 1
      BY <1>1, <2>1, SetupAssumption DEF FromMain
    <3>2. m = 1
      BY <1>1, <1>2, <3>1
    <3> QED BY <1>7, <3>1, <3>2 DEF Slot, Main
  <2>2. CASE Anchored(1)
    <3>1. top.holder \in Obj /\ top.index \in Index
      BY <1>1, <2>2 DEF Anchored, CallType
    <3> QED BY <1>5, <1>7, <3>1, HolderAssumption DEF Slot
  <2> QED BY <1>1, <2>1, <2>2 DEF CallOK
<1>9. ptr[w] = None
  <2>1. m > stack[1].made
    BY <1>1
  <2>2. w = Into(stack[1], m)
    BY <1>1
  <2> HIDE DEF w, m
  <2> QED BY <1>5, <1>6, <1>8, <2>1, <2>2 DEF UnfilledOK
<1>10. \A s \in Held(c) : s[1] = c /\ s \in Slot /\ ptr[s] = None
  <2>1. \A s \in Held(c) : ptr[s] = None
    BY <1>0, <1>2 DEF Heap, HoldersLive
  <2> QED BY <2>1 DEF Held, Slot
<1>11. w \notin Held(c)
  BY <1>1, <1>4, <1>6, <1>7, <1>10
<1> HIDE DEF w
<1>12. ptr' = [ptr EXCEPT ![w] = c]
  BY <1>0, <1>2, <1>10, <1>11 DEF TypeOK
<1>13. refcount' = Referenced(c)
  BY <1>0, <1>2, <1>3 DEF Referenced, TypeOK
<1> DEFINE call == [stack[1] EXCEPT !.made = @ + 1, !.parts = P]
<1>14. stack' = [stack EXCEPT ![1] = call]
  BY <1>1 DEF New
<1>15. /\ call.setup = top.setup /\ call.holder = top.holder /\ call.index = top.index
       /\ call.made = m /\ call.parts = P /\ call.registered = top.registered
  BY <1>1 DEF CallType
<1> HIDE DEF call
<1>16. /\ Len(stack') = l /\ stack'[1] = call
       /\ \A j \in 2 .. l : stack'[j] = stack[j]
  BY <1>1, <1>14
<1>17. top.registered = 0
  BY <1>1, <1>2, ClonesBound, BoundAssumption DEF RegisteredOK
<1>18. phase = "run"
  BY <1>0 DEF MainHolds
<1>19. w = Into(top, top.made + 1)
  BY DEF w
<1> HIDE DEF l, P
<1>20. Len(stack') = Len(stack) /\ \A j \in 2 .. Len(stack) : stack'[j] = stack[j]
  BY <1>16 DEF l
<1>21. stack'[1].parts = PartsOf(top.setup)
  BY <1>15, <1>16 DEF P
<1>22. \A j \in 1 .. Len(stack) : stack[j].holder # c
  BY <1>4 DEF l
<1>23. todo' = {}
  BY <1>0, <1>2
<1> QED BY <1>0, <1>1, <1>2, <1>3, <1>5, <1>8, <1>9, <1>12, <1>13, <1>15, <1>16, <1>17, <1>18, <1>19,
           <1>20, <1>21, <1>22, <1>23

\* rtv's own call is main()'s, and the first to make anything.
LEMMA RtvIsFirst ==
  ASSUME IInv, NothingYet, NEW c \in Obj, New(c), top.setup = Rtv
  PROVE  /\ Len(stack) = 1 /\ top.holder = "main"
         /\ on = 0 /\ on' \in After(0) /\ \A d \in Obj : setup[d] = None
<1>1. stack # <<>> /\ top.made < Clones[top.setup] /\ on' \in After(on)
  BY DEF New, Creating
<1>2. top = stack[1] /\ CallOK(1) /\ top.made \in Nat
  BY <1>1, TopMade
<1>3. FromMain(1)
  BY <1>2 DEF CallOK
<1>4. 1 = Len(stack) /\ top.holder = "main" /\ Clones[top.setup] = 1
  BY <1>2, <1>3, SetupAssumption DEF FromMain
<1>5. stack[Len(stack)].holder = "main" /\ stack[Len(stack)].made = 0
  <2>1. top.made = 0
    BY <1>1, <1>2, <1>4
  <2>2. stack[Len(stack)] = top
    BY <1>2, <1>4
  <2> QED BY <1>4, <2>1, <2>2
<1> QED BY <1>1, <1>4, <1>5 DEF NothingYet, Unbegun

LEMMA NewPlaced ==
  ASSUME IInv, Heap, Placed, NothingYet, NEW c \in Obj, New(c)
  PROVE  Placed'
<1> DEFINE w == Into(top, top.made + 1)
           K == 2 .. Len(stack)
<1>0. TypeOK /\ Calls /\ Apart /\ stack # <<>> /\ todo = {}
  BY DEF IInv, New, Creating
<1>1. /\ top = stack[1] /\ CallOK(1) /\ Len(stack) \in Nat \ {0}
      /\ \A j \in 1 .. Len(stack) : stack[j] \in CallType /\ stack[j].made \in Nat
      /\ PartOK(1) /\ UnfilledOK(1)
  <2>1. \A j \in 1 .. Len(stack) : stack[j] \in CallType
    BY <1>0 DEF TypeOK
  <2>2. \A call \in CallType : call.made \in Nat
    BY ONLY BoundAssumption DEF CallType
  <2>3. 1 \in 1 .. Len(stack)
    BY <1>0, TopMade
  <2> QED BY <1>0, <2>1, <2>2, <2>3, TopMade DEF Placed
<1>2. /\ top.made + 1 \in Clone /\ top.made \in Nat /\ top.setup \in Setup
      /\ w \in Slot /\ ptr[w] = None /\ setup[c] = None
      /\ \A j \in 1 .. Len(stack) : stack[j].holder # c
      /\ ptr' = [ptr EXCEPT ![w] = c]
      /\ setup' = [setup EXCEPT ![c] = top.setup]
      /\ Len(stack') = Len(stack)
      /\ \A j \in 2 .. Len(stack) : stack'[j] = stack[j]
      /\ stack'[1].setup = top.setup /\ stack'[1].holder = top.holder
      /\ stack'[1].index = top.index /\ stack'[1].made = top.made + 1
      /\ stack'[1].parts = PartsOf(top.setup)
  BY NewFills
<1>3. top.setup # Rtv => on' = on
  BY DEF New
<1>4. /\ w[1] = top.holder /\ w[2] = top.index /\ w[3] = top.made + 1
      /\ Into(stack'[1], stack'[1].made) = w
      /\ \A n : Into(stack'[1], n) = Into(top, n)
      /\ \A n : n # top.made + 1 => Into(top, n) # w
  BY <1>2 DEF Into
<1> HIDE DEF w
<1>5. /\ \A t \in Slot : t # w => ptr'[t] = ptr[t]
      /\ ptr'[w] = c
      /\ \A j \in 1 .. Len(stack) :
           stack[j].holder \in Obj => setup'[stack[j].holder] = setup[stack[j].holder]
  BY <1>0, <1>2 DEF TypeOK
<1>6. PartOK(1)'
  <2> SUFFICES ASSUME top.holder \in Obj
               PROVE  LET h == top.holder IN
                        /\ top.index \in DOMAIN Parts[setup'[h]]
                        /\ top.setup = Parts[setup'[h]][top.index]
                        /\ setup'[h] = Rtv => top.index = on'
                        /\ 1 < Len(stack') => top.index \notin stack'[1 + 1].parts
    BY <1>2 DEF PartOK
  <2>1. top.setup # Rtv
    BY HolderAssumption, RtvIsFirst
  <2>2. 1 < Len(stack') => 1 + 1 \in 2 .. Len(stack)
    BY <1>1, <1>2
  <2>3. setup'[top.holder] = setup[top.holder]
    BY <1>1, <1>5
  <2> QED BY <1>1, <1>2, <1>3, <2>1, <2>2, <2>3 DEF PartOK
<1>7. UnfilledOK(1)'
  <2>1. ASSUME NEW n \in Clone, n > stack'[1].made, Into(stack'[1], n) \in Slot
        PROVE  ptr'[Into(stack'[1], n)] = None
    <3>1. n # top.made + 1 /\ n > top.made /\ Into(top, n) \in Slot
      BY <1>2, <1>4, <2>1 DEF Clone
    <3>2. ptr[Into(top, n)] = None
      BY <1>1, <3>1 DEF UnfilledOK
    <3> QED BY <1>4, <1>5, <3>1, <3>2
  <2>2. Making(1)' = c
    BY <1>4, <1>5 DEF Making
  <2>3. PartsOf(top.setup) \subseteq Index
    <3>1. 1 \in Index
      BY Indexes
    <3> QED BY <1>2, <3>1, Indexes DEF PartsOf
  <2>4. ASSUME NEW p \in stack'[1].parts, NEW n \in Clone
        PROVE  ptr'[<<Making(1)', p, n>>] = None
    <3> DEFINE t == <<c, p, n>>
    <3>1. t \in Held(c) /\ t \in Slot /\ t # w
      BY <1>1, <1>2, <1>4, <2>3, <2>4 DEF Held, Slot
    <3>2. ptr[t] = None
      BY <1>0, <1>2, <3>1 DEF Heap, HoldersLive
    <3> HIDE DEF t
    <3>3. ptr'[t] = None
      BY <1>5, <3>1, <3>2
    <3> QED BY <2>2, <3>3 DEF t
  <2>5. stack'[1].setup = Rtv => stack'[1].parts \subseteq {on'}
    <3> SUFFICES ASSUME top.setup = Rtv PROVE PartsOf(Rtv) \subseteq {on'}
      BY <1>2
    <3>1. on' \in After(0)
      BY RtvIsFirst
    <3> QED BY <3>1 DEF After, PartsOf
  <2> QED BY <2>1, <2>4, <2>5 DEF UnfilledOK
<1>8. Keeps(0, K)
  <2>1. \A j \in K : j \in 1 .. Len(stack) /\ j + 0 = j /\ (j < Len(stack) => j + 1 \in K)
    BY <1>1
  <2>2. Len(stack') = Len(stack) - 0
    BY <1>1, <1>2
  <2>3. \A j \in K : stack'[j] = stack[j]
    BY <1>2
  <2> HIDE DEF K
  <2> QED BY <1>1, <1>2, <2>1, <2>2, <2>3 DEF Keeps
<1>9. ASSUME NEW i \in K PROVE (PartOK(i) /\ UnfilledOK(i))'
  <2>1. i \in 1 .. Len(stack) /\ i # 1 /\ i + 0 = i /\ stack'[i] = stack[i] /\ 1 \in 1 .. Len(stack)
    BY <1>1, <1>2
  <2>2. CallOK(i) /\ stack[i].holder # top.holder
    BY <1>0, <1>1, <2>1 DEF Calls, Apart
  <2>3. top.setup # Rtv
    BY <2>1, RtvIsFirst
  <2>4. \A n : Into(stack[i], n) # w
    BY <1>4, <2>2 DEF Into
  <2>5. ASSUME NEW p \in stack'[i].parts, NEW n \in Clone
        PROVE  /\ Making(i)' = Making(i)
               /\ ptr'[<<Making(i), p, n>>] = ptr[<<Making(i), p, n>>]
    <3>1. stack[i].made \in 1 .. stack[i].made /\ p \in Index
      <4>1. stack[i].parts \subseteq Index
        BY <1>1, <2>1 DEF CallType
      <4>2. stack[i].made > 0 /\ stack[i].made \in Nat
        BY <1>1, <2>1, <2>2, <2>5 DEF CallOK
      <4> QED BY <2>1, <2>5, <4>1, <4>2
    <3>2. Into(stack[i], stack[i].made) \in Slot /\ Making(i) \in Obj
      BY <2>2, <3>1 DEF CallOK, MadeOK, Making
    <3>3. Making(i)' = Making(i)
      BY <1>5, <2>1, <2>4, <3>2 DEF Making
    <3> DEFINE t == <<Making(i), p, n>>
    <3>4. t \in Slot
      BY <3>1, <3>2 DEF Slot
    <3>5. t # w
      <4> SUFFICES ASSUME Making(i) = top.holder, p = top.index PROVE FALSE
        BY <1>4
      <4> DEFINE j == i - 1
      <4>1. j \in 1 .. Len(stack) /\ j < Len(stack) /\ j + 1 = i
        BY <1>1, <2>1
      <4> HIDE DEF j
      <4>2. CallOK(j) /\ ~FromMain(j)
        BY <1>0, <4>1 DEF Calls, FromMain
      <4>3. stack[j].holder = Making(i)
        BY <4>1, <4>2 DEF CallOK, Anchored, Anchor, Making
      <4>4. j = 1
        BY <1>0, <1>1, <2>1, <4>1, <4>3 DEF Apart
      <4>5. top.index \notin stack[i].parts
        BY <1>1, <3>2, <4>1, <4>4 DEF PartOK
      <4> QED BY <2>1, <2>5, <4>5
    <3> HIDE DEF t
    <3>6. ptr'[t] = ptr[t]
      BY <1>5, <3>4, <3>5
    <3> QED BY <3>3, <3>6 DEF t
  <2>6. \A n \in Clone : Into(stack'[i], n) \in Slot => ptr'[Into(stack'[i], n)] = ptr[Into(stack'[i], n)]
    BY <1>5, <2>1, <2>4
  <2>7. K \in SUBSET Nat /\ 0 \in {-1, 0, 1}
    OBVIOUS
  <2>8. stack'[i].holder \in Obj => setup'[stack'[i].holder] = setup[stack'[i].holder]
    BY <1>5, <2>1
  <2> HIDE DEF K
  <2>9. /\ \A n \in Clone : n > stack'[i].made /\ Into(stack'[i], n) \in Slot
             => ptr'[Into(stack'[i], n)] \in {ptr[Into(stack'[i], n)], None}
        /\ \A p \in stack'[i].parts, n \in Clone :
             /\ Making(i)' = Making(i + 0)
             /\ ptr'[<<Making(i + 0), p, n>>] \in {ptr[<<Making(i + 0), p, n>>], None}
        /\ on' = on
    BY <1>3, <2>1, <2>3, <2>5, <2>6
  <2> QED BY <1>1, <1>8, <2>7, <2>8, <2>9, PlacesKept
<1>10. \A i \in 1 .. Len(stack') : i = 1 \/ i \in K
  BY <1>1, <1>2
<1> QED BY <1>6, <1>7, <1>9, <1>10 DEF Placed

LEMMA NewKeepsHeap ==
  ASSUME IInv, Heap, Placed, NothingYet, NEW c \in Obj, New(c)
  PROVE  Heap'
<1>0. TypeOK /\ NoDangling /\ FinitelyPointed /\ Allocated /\ stack # <<>>
      /\ top.made < Clones[top.setup]
  BY DEF IInv, New, Creating
<1>1. top = stack[1] /\ CallOK(1) /\ PartOK(1) /\ 1 \in 1 .. Len(stack)
  BY <1>0, TopMade DEF Placed
<1>a. Into(top, top.made + 1) \in Slot
  BY NewFills
<1>b. PICK w \in Slot : w = Into(top, top.made + 1)
  BY <1>a
<1>2. /\ todo = {} /\ todo' = {} /\ top.made \in Nat /\ top.setup \in Setup
      /\ w \in Slot /\ ptr[w] = None /\ w[1] # "stream"
      /\ setup[c] = None
      /\ \A j \in 1 .. Len(stack) : stack[j].holder # c
      /\ ptr' = [ptr EXCEPT ![w] = c] /\ refcount' = Referenced(c)
      /\ setup' = [setup EXCEPT ![c] = top.setup]
  BY <1>b, NewFills
<1>3. top.setup # Rtv => on' = on
  BY DEF New
<1>4. w[1] = top.holder /\ w[2] = top.index /\ w[3] = top.made + 1
  BY <1>b DEF Into
<1>5. /\ \A d \in Obj : setup'[d] = IF d = c THEN top.setup ELSE setup[d]
      /\ \A t \in Slot : ptr'[t] = IF t = w THEN c ELSE ptr[t]
      /\ top.holder # c
  BY <1>0, <1>1, <1>2 DEF TypeOK
<1>6. ASSUME top.holder \in Obj
      PROVE  /\ top.index # 0 /\ setup'[top.holder] = setup[top.holder]
             /\ top.index \in DOMAIN Parts[setup[top.holder]]
             /\ top.setup = Parts[setup[top.holder]][top.index]
             /\ setup[top.holder] = Rtv => top.index = on
             /\ setup[top.holder] # None
  <2>1. Anchored(1)
    BY <1>1, <1>6, HolderAssumption DEF CallOK, FromMain
  <2>2. Anchor(1) \in Slot /\ ptr[Anchor(1)] = top.holder
    BY <1>1, <1>6, HolderPointed
  <2>3. setup[top.holder] # None
    <3>1. refcount[top.holder] # 0
      BY <1>0, <1>6, <2>2, PointedTo
    <3> QED BY <1>0, <1>6, <3>1 DEF Allocated
  <2> QED BY <1>1, <1>5, <1>6, <2>1, <2>3 DEF PartOK, Anchored
<1>7. Fits(w)'
  <2>1. setup'[ptr'[w]] = top.setup
    BY <1>2, <1>5
  <2>2. w[1] \in Obj => w[2] # 0 /\ w[2] \in DOMAIN Parts[setup'[w[1]]]
                         /\ top.setup = Parts[setup'[w[1]]][w[2]]
    BY <1>4, <1>6
  <2> QED BY <1>2, <2>1, <2>2 DEF Fits
<1>8. OneChannel' /\ OneRtv'
  <2>1. CASE top.setup = Rtv
    <3>1. \A d \in Obj : setup'[d] = Rtv => d = c
      BY <1>5, <2>1, NoneAssumption, RtvIsFirst, SetupAssumption
    <3>2. \A s \in Held(c) : ptr'[s] = None
      <4>1. \A s \in Held(c) : s[1] = c /\ s \in Slot /\ ptr[s] = None
        BY <1>2 DEF Held, Slot, Heap, HoldersLive
      <4> QED BY <1>4, <1>5, <4>1
    <3> QED BY <3>1, <3>2 DEF OneChannel, OneRtv
  <2>2. CASE top.setup # Rtv
    <3>1. \A d \in Obj : setup'[d] = Rtv => setup[d] = Rtv
      BY <1>5, <2>2
    <3>2. OneRtv'
      BY <3>1 DEF Heap, OneRtv
    <3>3. ASSUME NEW d \in Obj, setup[d] = Rtv, NEW s \in Held(d), ptr'[s] # None
          PROVE  s[2] = on /\ s[3] = 1
      <4>1. s \in Slot /\ s[1] = d
        BY <3>3 DEF Held, Slot
      <4>2. CASE s = w
        <5>1. d = top.holder /\ s[2] = top.index /\ s[3] = top.made + 1
          BY <1>4, <4>1, <4>2
        <5>2. top.index \in DOMAIN Parts[Rtv] /\ top.setup = Parts[Rtv][top.index] /\ top.index = on
          BY <1>6, <3>3, <5>1
        <5>3. Clones[top.setup] = 1
          BY <5>2, RtvAssumption
        <5> QED BY <1>0, <1>2, <5>1, <5>2, <5>3
      <4>3. CASE s # w
        BY <1>2, <1>5, <3>3, <4>1, <4>3 DEF Heap, OneChannel
      <4> QED BY <4>2, <4>3
    <3>4. OneChannel'
      BY <1>3, <2>2, <3>1, <3>3 DEF OneChannel
    <3> QED BY <3>2, <3>4
  <2> QED BY <2>1, <2>2
<1>9. /\ \A d \in Obj \ {c} : setup'[d] = setup[d]
      /\ setup'[c] = setup[c] \/ setup[c] = None
      /\ w[1] = "stream" => \A t \in Slot : t[1] = "stream" => ptr[t] # c
      /\ w[1] \in Obj => setup[w[1]] # None
  BY <1>2, <1>4, <1>5, <1>6
<1> QED BY <1>0, <1>2, <1>7, <1>8, <1>9, ReferenceKeepsHeap

-----------------------------------------------------------------------------
(* The stream and refs get references *)

\* What a call has yet to register, the stream does not have.
Registering ==
  stack # <<>> /\ top.registered # 0 =>
    \A n \in Clone : n > top.registered =>
      /\ ptr[<<"stream", PathOf[top.setup], n>>] = None
      /\ n <= top.made => refcount[ptr[Into(top, n)]] = 1

\* What Register does: the context of the slot u is registered in r.
LEMMA Registers ==
  ASSUME IInv, Registering, Register
  PROVE  LET n == top.registered + 1
             u == Into(top, n)
             r == <<"stream", PathOf[top.setup], n>>
         IN /\ stack # <<>> /\ todo = {} /\ todo' = {}
            /\ UNCHANGED <<setup, on, phase, gc, switching>>
            /\ n \in Clone /\ n \in 1 .. top.made /\ n \in Nat
            /\ u \in Slot /\ u[1] # "stream" /\ ptr[u] \in Obj /\ setup[ptr[u]] = top.setup
            /\ refcount[ptr[u]] = 1 /\ \A t \in Slot : ptr[t] = ptr[u] => t = u
            /\ r \in Slot /\ ptr[r] = None
            /\ ptr' = [ptr EXCEPT ![r] = ptr[u]] /\ refcount' = Referenced(ptr[u])
            /\ stack' = IF n = top.made THEN Tail(stack) ELSE [stack EXCEPT ![1].registered = n]
<1> DEFINE n == top.registered + 1
           u == Into(top, n)
           r == <<"stream", PathOf[top.setup], n>>
<1>0. TypeOK /\ NoDangling /\ FinitelyPointed /\ stack # <<>> /\ todo = {} /\ MadeAll
      /\ (top.registered = 0 => Occupied(PathOf[top.setup]) = {})
  BY DEF IInv, Register, MadeAll, Creating
<1>1. /\ top = stack[1] /\ top \in CallType /\ CallOK(1) /\ RegisteredOK(1)
      /\ top.made \in Nat /\ top.registered \in Nat /\ top.setup \in Setup
      /\ 1 \in 1 .. Len(stack)
  BY <1>0, TopMade
<1>2. n \in 1 .. top.made /\ n \in Clone /\ n \in Nat
  <2>1. top.made = Clones[top.setup] /\ Clones[top.setup] \in 1 .. MaxClones
    BY <1>0, <1>1, ClonesBound DEF MadeAll
  <2>2. top.registered # 0 => top.registered < top.made
    BY <1>1 DEF RegisteredOK
  <2> QED BY <1>1, <2>1, <2>2, BoundAssumption DEF Clone
<1>3. u \in Slot /\ u[1] # "stream" /\ ptr[u] \in Obj /\ setup[ptr[u]] = top.setup
  <2>1. top.holder # "stream"
    BY <1>1, HolderAssumption DEF CallType
  <2>2. u[1] = top.holder
    BY DEF Into
  <2> QED BY <1>1, <1>2, <2>1, <2>2 DEF CallOK, MadeOK
<1>4. n > top.registered /\ n <= top.made
  BY <1>1, <1>2
<1>5. refcount[ptr[u]] = 1
  <2>1. CASE top.registered = 0
    BY <1>1, <1>2, <2>1 DEF CallOK, MadeOK
  <2>2. CASE top.registered # 0
    <3> HIDE DEF n
    <3> QED BY <1>0, <1>2, <1>4, <2>2 DEF Registering
  <2> QED BY <2>1, <2>2
<1>6. \A t \in Slot : ptr[t] = ptr[u] => t = u
  BY <1>0, <1>3, <1>5, PointedTo
<1>7. r \in Slot /\ r \in Registered(PathOf[top.setup])
  BY <1>1, <1>2, SetupAssumption DEF Slot, Registered
<1>8. ptr[r] = None
  <2>1. CASE top.registered = 0
    BY <1>0, <1>7, <2>1 DEF Occupied
  <2>2. CASE top.registered # 0
    <3> HIDE DEF n
    <3> QED BY <1>0, <1>2, <1>4, <2>2 DEF Registering
  <2> QED BY <2>1, <2>2
<1>9. /\ UNCHANGED <<setup, todo, on, phase, gc, switching>>
      /\ ptr' = [ptr EXCEPT ![r] = ptr[u]] /\ refcount' = Referenced(ptr[u])
      /\ stack' = IF n = top.made THEN Tail(stack) ELSE [stack EXCEPT ![1].registered = n]
  BY DEF Register, rtvVars
<1> QED BY <1>0, <1>2, <1>3, <1>5, <1>6, <1>7, <1>8, <1>9

LEMMA RegisterKeepsHeap ==
  ASSUME IInv, Heap, Registering, Register
  PROVE  Heap'
<1>1. \E n \in Clone, u, r \in Slot :
        /\ r = <<"stream", PathOf[top.setup], n>>
        /\ u[1] # "stream" /\ ptr[u] \in Obj /\ setup[ptr[u]] = top.setup
        /\ \A t \in Slot : ptr[t] = ptr[u] => t = u
        /\ ptr[r] = None
        /\ ptr' = [ptr EXCEPT ![r] = ptr[u]] /\ refcount' = Referenced(ptr[u])
  BY Registers
<1>a. PICK n \in Clone, u \in Slot, r \in Slot :
        /\ r = <<"stream", PathOf[top.setup], n>>
        /\ u[1] # "stream" /\ ptr[u] \in Obj /\ setup[ptr[u]] = top.setup
        /\ \A t \in Slot : ptr[t] = ptr[u] => t = u
        /\ ptr[r] = None
        /\ ptr' = [ptr EXCEPT ![r] = ptr[u]] /\ refcount' = Referenced(ptr[u])
  BY <1>1
<1>b. PICK c \in Obj : c = ptr[u]
  BY <1>a
<1>2. /\ r = <<"stream", PathOf[top.setup], n>>
      /\ u[1] # "stream" /\ ptr[u] = c /\ setup[c] = top.setup
      /\ \A t \in Slot : ptr[t] = c => t = u
      /\ ptr[r] = None
      /\ ptr' = [ptr EXCEPT ![r] = c] /\ refcount' = Referenced(c)
  BY <1>a, <1>b
<1>3. /\ TypeOK /\ NoDangling /\ FinitelyPointed /\ Allocated
      /\ todo = {} /\ todo' = {} /\ UNCHANGED <<setup, on>>
  BY Registers DEF IInv
<1>4. r[1] = "stream" /\ r[2] = PathOf[top.setup] /\ r[1] \notin Obj
  BY <1>2, HolderAssumption
<1>5. \A t \in Slot : ptr'[t] = IF t = r THEN c ELSE ptr[t]
  BY <1>2, <1>3 DEF TypeOK
<1>6. Fits(r)'
  BY <1>2, <1>3, <1>4, <1>5 DEF Fits
<1>7. OneRtv'
  BY <1>3 DEF Heap, OneRtv
<1>8. OneChannel'
  <2>1. \A d \in Obj : \A s \in Held(d) : s \in Slot /\ s # r
    BY <1>4 DEF Held, Slot
  <2>2. \A d \in Obj : \A s \in Held(d) : ptr'[s] = ptr[s]
    BY <1>5, <2>1
  <2> QED BY <1>3, <2>2 DEF Heap, OneChannel
<1>9. \A t \in Slot : t[1] = "stream" => ptr[t] # c
  BY <1>2
<1> QED BY <1>2, <1>3, <1>4, <1>6, <1>7, <1>8, <1>9, ReferenceKeepsHeap

LEMMA RefFindKeepsHeap ==
  ASSUME IInv, Heap, NEW c \in Obj, RefFind(c)
  PROVE  Heap'
<1> DEFINE u == <<"stream", Target[setup[c]], 1>>
           s == <<c, 0, 1>>
<1>0. /\ TypeOK /\ NoDangling /\ FinitelyPointed /\ Allocated
      /\ todo = {} /\ UNCHANGED <<setup, todo, on>>
  BY DEF IInv, RefFind, Idle, rtvVars
<1>1. /\ setup[c] # None /\ Target[setup[c]] # NoPath
      /\ ptr[s] = None /\ ptr[u] # None
      /\ ptr' = [ptr EXCEPT ![s] = ptr[u]] /\ refcount' = Referenced(ptr[u])
  BY DEF RefFind, Live
<1>2. u \in Slot /\ s \in Slot
  <2>1. 1 \in Clone /\ 0 \in Index
    BY BoundAssumption, Indexes DEF Clone
  <2>2. Target[setup[c]] \in Path
    BY <1>0, <1>1, SetupAssumption DEF TypeOK
  <2> QED BY <2>1, <2>2 DEF Slot
<1>3. PICK d \in Obj : d = ptr[u]
  BY <1>0, <1>1, <1>2 DEF TypeOK
<1>4. PathOf[setup[d]] = Target[setup[c]]
  <2>1. Fits(u) /\ u[1] = "stream" /\ u[2] = Target[setup[c]]
    BY <1>0, <1>1, <1>2 DEF Heap, Fitting
  <2> HIDE DEF u
  <2> QED BY <1>3, <2>1 DEF Fits
<1> HIDE DEF u
<1>5. \A t \in Slot : ptr'[t] = IF t = s THEN d ELSE ptr[t]
  BY <1>0, <1>1, <1>3 DEF TypeOK
<1>6. s[1] = c /\ s[2] = 0 /\ c # "stream"
  BY HolderAssumption
<1> HIDE DEF s
<1>7. PICK t \in Slot : t = s
  BY <1>2
<1>8. Fits(t)'
  BY <1>0, <1>4, <1>5, <1>6, <1>7 DEF Fits
<1>9. OneRtv'
  BY <1>0 DEF Heap, OneRtv
<1>10. OneChannel'
  <2> SUFFICES ASSUME NEW e \in Obj, setup[e] = Rtv, NEW v \in Held(e)
               PROVE  ptr'[v] = ptr[v]
    BY <1>0 DEF Heap, OneChannel
  <2>1. v \in Slot /\ v[1] = e
    BY DEF Held, Slot
  <2>2. e # c
    BY <1>1, RtvAssumption
  <2> QED BY <1>5, <1>6, <2>1, <2>2
<1>11. /\ ptr[t] = None /\ t[1] # "stream" /\ (t[1] \in Obj => setup[t[1]] # None)
       /\ ptr' = [ptr EXCEPT ![t] = d] /\ refcount' = Referenced(d) /\ todo' = {}
       /\ \A e \in Obj \ {d} : setup'[e] = setup[e]
       /\ setup'[d] = setup[d]
  BY <1>0, <1>1, <1>3, <1>6, <1>7
<1> QED BY <1>0, <1>8, <1>9, <1>10, <1>11, ReferenceKeepsHeap

\* A call is made for the first part left.
LEMMA MakePartPushes ==
  ASSUME IInv, MakePart
  PROVE  /\ stack # <<>>
         /\ \E k \in CallType, base \in Seq(CallType) :
              /\ stack' = <<k>> \o base
              /\ k.registered = 0
              /\ Len(base) = Len(stack)
              /\ base[Len(stack)].holder = stack[Len(stack)].holder
              /\ base[Len(stack)].made = stack[Len(stack)].made
<1>1. PICK i \in top.parts :
        stack' = <<Call(Parts[top.setup][i], Latest, i)>> \o [stack EXCEPT ![1].parts = @ \ {i}]
  BY DEF MakePart
<1>2. /\ stack # <<>> /\ top = stack[1] /\ top \in CallType /\ CallOK(1) /\ top.setup \in Setup
      /\ top.made \in Nat /\ (top.made > 0 => Latest \in Obj) /\ Len(stack) \in Nat \ {0}
      /\ stack \in Seq(CallType)
  BY TopMade DEF IInv, TypeOK, MakePart, Creating
<1> DEFINE k == Call(Parts[top.setup][i], Latest, i)
           q == [stack[1] EXCEPT !.parts = @ \ {i}]
           base == [stack EXCEPT ![1] = q]
<1>3. k \in CallType /\ k.registered = 0
  <2>1. i \in DOMAIN Parts[top.setup] /\ Latest \in Obj
    BY <1>2 DEF CallOK
  <2>2. Parts[top.setup] \in Seq(Setup)
    BY <1>2, SetupAssumption
  <2>3. Parts[top.setup][i] \in Setup /\ i \in Index
    BY <1>2, <2>1, <2>2, Indexes
  <2> QED BY <2>1, <2>3, CallTyped DEF Call
<1>4. q \in CallType /\ q.holder = stack[1].holder /\ q.made = stack[1].made
  <2>1. stack[1].parts \ {i} \subseteq Index
    BY <1>2 DEF CallType
  <2> QED BY <1>2, <2>1 DEF CallType
<1>5. stack' = <<k>> \o base
  BY <1>1
<1> HIDE DEF k, q
<1>6. /\ base \in Seq(CallType) /\ Len(base) = Len(stack)
      /\ base[Len(stack)] = IF Len(stack) = 1 THEN q ELSE stack[Len(stack)]
  BY <1>2, <1>4
<1> HIDE DEF base
<1>7. /\ base[Len(stack)].holder = stack[Len(stack)].holder
      /\ base[Len(stack)].made = stack[Len(stack)].made
  BY <1>4, <1>6
<1> QED BY <1>2, <1>3, <1>5, <1>6, <1>7

\* Each context that is left to register keeps its one reference, and its place
\* in the stream, until then.
LEMMA StepRegistering ==
  ASSUME IInv, Registering, [Next]_vars
  PROVE  Registering'
<1>0. TypeOK /\ NoDangling /\ FinitelyPointed
  BY DEF IInv
<1>1. CASE UNCHANGED <<ptr, refcount, stack>>
  BY <1>1 DEF Registering, top
<1>3. ASSUME stack' = Tail(stack), stack # <<>> PROVE Registering'
  <2> SUFFICES ASSUME stack' # <<>> PROVE Head(stack').registered = 0
    BY DEF Registering, top
  <2>1. Len(stack) \in Nat /\ 2 \in 1 .. Len(stack) /\ Head(stack') = stack[2]
    BY <1>0, <1>3 DEF TypeOK
  <2>2. RegisteredOK(2)
    BY <2>1 DEF IInv, Calls
  <2> QED BY <2>1, <2>2 DEF RegisteredOK
<1>4. CASE Start
  <2>1. stack' = <<Call(Root, "main", 0)>> /\ Call(Root, "main", 0).registered = 0
    BY <1>4 DEF Start, Call
  <2> DEFINE k == Call(Root, "main", 0)
  <2> HIDE DEF k
  <2>2. Head(stack') = k
    BY <2>1 DEF k
  <2> QED BY <2>1, <2>2 DEF Registering, top, k
<1>5. CASE MakePart
  <2>1. PICK k \in CallType, base \in Seq(CallType) : stack' = <<k>> \o base /\ k.registered = 0
    BY <1>5, MakePartPushes
  <2>2. Head(stack') = k
    BY <2>1
  <2> QED BY <2>1, <2>2 DEF Registering, top
<1>6. CASE Displace
  <2>1. stack # <<>> /\ top.registered = 0
    BY <1>6 DEF Displace, MadeAll, Creating
  <2> DEFINE b == Cardinality(Occupied(PathOf[top.setup])) >= top.made
             q == [stack[1] EXCEPT !.reuse = b]
  <2>2. top = stack[1] /\ top \in CallType /\ stack \in Seq(CallType)
    BY <1>0, <2>1, TopMade DEF TypeOK
  <2>3. stack' = [stack EXCEPT ![1] = q] /\ q.registered = top.registered
    BY <1>6, <2>2 DEF Displace, CallType
  <2> HIDE DEF q
  <2>4. Head(stack') = q
    BY <2>1, <2>2, <2>3
  <2> QED BY <2>1, <2>3, <2>4 DEF Registering, top
<1>7. CASE Register
  <2> DEFINE n == top.registered + 1
             u == Into(top, n)
             r == <<"stream", PathOf[top.setup], n>>
  <2>1. /\ stack # <<>>
        /\ n \in Clone /\ n \in 1 .. top.made /\ n \in Nat
        /\ u \in Slot /\ u[1] # "stream" /\ ptr[u] \in Obj
        /\ \A t \in Slot : ptr[t] = ptr[u] => t = u
        /\ r \in Slot
        /\ ptr' = [ptr EXCEPT ![r] = ptr[u]] /\ refcount' = Referenced(ptr[u])
        /\ stack' = IF n = top.made THEN Tail(stack) ELSE [stack EXCEPT ![1].registered = n]
    BY <1>7, Registers
  <2>2. CASE n = top.made
    BY <1>3, <2>1, <2>2
  <2>3. CASE n # top.made
    <3> DEFINE q == [stack[1] EXCEPT !.registered = n]
    <3>1. top = stack[1] /\ top \in CallType /\ stack \in Seq(CallType) /\ CallOK(1) /\ RegisteredOK(1)
          /\ top.setup \in Setup /\ top.made \in Nat /\ top.registered \in Nat
      BY <1>0, <2>1, TopMade DEF TypeOK
    <3>2. /\ stack' = [stack EXCEPT ![1] = q] /\ q.registered = n /\ q.setup = top.setup
          /\ q.made = top.made /\ q.holder = top.holder /\ q.index = top.index
      BY <2>1, <2>3, <3>1 DEF CallType
    <3> HIDE DEF q
    <3>3. Head(stack') = q
      BY <2>1, <3>1, <3>2
    <3> SUFFICES ASSUME NEW m \in Clone, m > n
                 PROVE  /\ ptr'[<<"stream", PathOf[top.setup], m>>] = None
                        /\ m <= top.made => refcount'[ptr'[Into(top, m)]] = 1
      BY <3>2, <3>3 DEF Registering, top, Into
    <3>a. m # n /\ m > top.registered /\ m \in Nat
      BY <2>1, <3>1 DEF Clone
    <3> HIDE DEF n
    <3> DEFINE v == <<"stream", PathOf[top.setup], m>>
               x == Into(top, m)
    <3>4. v \in Slot /\ v # r /\ v \in Registered(PathOf[top.setup])
      BY <3>1, <3>a, SetupAssumption DEF Slot, Registered
    <3>5. ptr[v] = None
      <4>1. CASE top.registered = 0
        <5>1. Occupied(PathOf[top.setup]) = {}
          BY <1>7, <4>1 DEF Register
        <5> QED BY <3>4, <5>1 DEF Occupied
      <4>2. CASE top.registered # 0
        BY <2>1, <3>a, <4>2 DEF Registering
      <4> QED BY <4>1, <4>2
    <3>6. ASSUME m <= top.made PROVE refcount'[ptr'[x]] = 1
      <4>1. m \in 1 .. top.made
        BY <3>1, <3>6 DEF Clone
      <4>2. x \in Slot /\ ptr[x] \in Obj
        BY <3>1, <4>1 DEF CallOK, MadeOK
      <4>3. x # u /\ x # r
        <5>1. x[3] = m /\ u[3] = n /\ x[1] = u[1] /\ r[1] = "stream"
          BY DEF Into
        <5> HIDE DEF x, u, r
        <5> QED BY <2>1, <3>a, <5>1
      <4>4. refcount[ptr[x]] = 1
        <5>1. CASE top.registered = 0
          BY <3>1, <4>1, <5>1 DEF CallOK, MadeOK
        <5>2. CASE top.registered # 0
          BY <2>1, <3>a, <3>6, <5>2 DEF Registering
        <5> QED BY <5>1, <5>2
      <4> HIDE DEF x, u, r
      <4>5. ptr'[x] = ptr[x]
        BY <1>0, <2>1, <4>2, <4>3 DEF TypeOK
      <4>6. ptr[x] # ptr[u]
        BY <2>1, <4>2, <4>3
      <4>7. refcount'[ptr[x]] = refcount[ptr[x]]
        BY <1>0, <2>1, <4>2, <4>6 DEF TypeOK, Referenced
      <4> QED BY <4>4, <4>5, <4>7
    <3>7. ptr'[v] = None
      <4> HIDE DEF v, r, u
      <4> QED BY <1>0, <2>1, <3>4, <3>5 DEF TypeOK
    <3> QED BY <3>6, <3>7
  <2> QED BY <2>2, <2>3
<1>8. CASE Unwind
  <2>1. stack # <<>> /\ stack' = Tail(stack)
    BY <1>8 DEF IInv, Failing, Unwind
  <2> QED BY <1>3, <2>1
<1>9. ASSUME NEW c \in Obj, New(c) PROVE Registering'
  <2>0. stack # <<>>
    BY <1>9 DEF New, Creating
  <2> DEFINE q == [stack[1] EXCEPT !.made = @ + 1, !.parts = PartsOf(top.setup)]
  <2>1. top = stack[1] /\ top \in CallType /\ stack \in Seq(CallType) /\ CallOK(1) /\ RegisteredOK(1)
        /\ top.setup \in Setup /\ top.made \in Nat
    BY <1>0, <2>0, TopMade DEF TypeOK
  <2>2. top.registered = 0
    BY <1>9, <2>1, ClonesBound, BoundAssumption DEF RegisteredOK, New
  <2>3. stack' = [stack EXCEPT ![1] = q] /\ q.registered = 0
    BY <1>9, <2>1, <2>2 DEF New, CallType
  <2> HIDE DEF q
  <2>4. Head(stack') = q
    BY <2>0, <2>1, <2>3
  <2> QED BY <2>3, <2>4 DEF Registering, top
<1>10. ASSUME NEW c \in Obj, RefFind(c) PROVE Registering'
  <2>1. stack' = <<>>
    BY <1>10 DEF RefFind, Idle, callVars
  <2> QED BY <2>1 DEF Registering
<1>11. ASSUME NEW s \in todo, Unref(s) \/ Destroy(s) PROVE Registering'
  <2> SUFFICES ASSUME stack # <<>>, top.registered # 0, NEW m \in Clone, m > top.registered
               PROVE  /\ ptr'[<<"stream", PathOf[top.setup], m>>] = None
                      /\ m <= top.made => refcount'[ptr'[Into(top, m)]] = 1
    <3>1. UNCHANGED stack
      BY <1>11 DEF Unref, Destroy, callVars
    <3> QED BY <3>1 DEF Registering, top
  <2> DEFINE v == <<"stream", PathOf[top.setup], m>>
             x == Into(top, m)
  <2>1. top = stack[1] /\ top \in CallType /\ CallOK(1) /\ top.setup \in Setup /\ top.made \in Nat
        /\ top.registered \in Nat
    BY <1>0, TopMade
  <2>2. v \in Slot /\ ptr[v] = None
    <3>1. v \in Slot
      BY <2>1, SetupAssumption DEF Slot
    <3> QED BY <3>1 DEF Registering
  <2>3. /\ s \in Slot /\ ptr[s] \in Obj
        /\ ptr' = [ptr EXCEPT ![s] = None]
        /\ refcount' = [refcount EXCEPT ![ptr[s]] = refcount'[ptr[s]]]
        /\ refcount[ptr[s]] > 1 \/ refcount[ptr[s]] = 1
    <3>1. s \in Slot /\ ptr[s] \in Obj
      BY <1>0, <1>11 DEF IInv, TodoHolds, TypeOK
    <3> QED BY <1>0, <1>11, <3>1 DEF Unref, Destroy, TypeOK
  <2>4. ptr'[v] = None
    <3> HIDE DEF v
    <3> QED BY <1>0, <2>2, <2>3 DEF TypeOK
  <2>5. ASSUME m <= top.made PROVE refcount'[ptr'[x]] = 1
    <3>1. m \in 1 .. top.made
      BY <2>1, <2>5 DEF Clone
    <3>2. x \in Slot /\ x \notin todo /\ ptr[x] \in Obj
      BY <2>1, <3>1 DEF CallOK, MadeOK
    <3>3. refcount[ptr[x]] = 1
      BY <2>5 DEF Registering
    <3> HIDE DEF x
    <3>4. ptr[s] # ptr[x]
      BY <1>0, <1>11, <2>3, <3>2, <3>3, PointedTo
    <3>5. ptr'[x] = ptr[x]
      BY <1>0, <1>11, <2>3, <3>2 DEF TypeOK
    <3>6. refcount'[ptr[x]] = refcount[ptr[x]]
      BY <1>0, <2>3, <3>2, <3>4 DEF TypeOK
    <3> QED BY <3>3, <3>5, <3>6
  <2> QED BY <2>4, <2>5
<1>12. CASE Tune
  <2>1. PICK c : stack' = IF ptr[<<c, on, 1>>] = None THEN <<Call(Parts[Rtv][on], c, on)>> \o stack
                                                      ELSE stack
    BY <1>12 DEF Tune
  <2>2. UNCHANGED <<ptr, refcount>>
    BY <1>12 DEF Tune, heapVars
  <2>3. CASE stack' = stack
    BY <1>1, <2>2, <2>3
  <2>4. CASE stack' = <<Call(Parts[Rtv][on], c, on)>> \o stack
    <3> DEFINE k == Call(Parts[Rtv][on], c, on)
    <3>1. k.registered = 0
      BY DEF Call
    <3> HIDE DEF k
    <3>2. stack \in Seq(CallType)
      BY <1>0 DEF TypeOK
    <3>3. Head(stack') = k
      BY <2>4, <3>2 DEF k
    <3> QED BY <3>1, <3>3 DEF Registering, top
  <2> QED BY <2>1, <2>3, <2>4
<1>13. ASSUME AddPre \/ Fail \/ (\E p \in Path : Gc(p)) \/ GcDone \/ Switch \/ Crash \/ Quit
              \/ FreeStream \/ FreedStream \/ Stopped \/ UNCHANGED vars
       PROVE  UNCHANGED <<ptr, refcount, stack>>
  BY <1>13 DEF AddPre, Fail, Gc, GcDone, Switch, Crash, Quit, FreeStream, FreedStream, Stopped,
               vars, heapVars, callVars
<1> QED BY <1>1, <1>4, <1>5, <1>6, <1>7, <1>8, <1>9, <1>10, <1>11, <1>12, <1>13 DEF Next

-----------------------------------------------------------------------------
(* How it begins and ends *)

LEMMA StartPlaced ==
  ASSUME IInv, NothingYet, Start
  PROVE  Placed'
<1> DEFINE k == Call(Root, "main", 0)
<1>1. TypeOK /\ NoDangling /\ FinitelyPointed /\ Allocated /\ phase = "start"
      /\ UNCHANGED ptr /\ stack' = <<k>>
  BY DEF IInv, Start, heapVars
<1>2. k.setup = Root /\ k.holder = "main" /\ k.parts = {}
  BY DEF Call
<1> HIDE DEF k
<1>3. Len(stack') = 1 /\ stack'[1] = k
  BY <1>1
<1>4. \A t \in Slot : ptr[t] = None
  <2> SUFFICES ASSUME NEW t \in Slot, ptr[t] \in Obj PROVE FALSE
    BY <1>1 DEF TypeOK
  <2>1. refcount[ptr[t]] # 0
    BY <1>1, PointedTo
  <2> QED BY <1>1, <2>1 DEF Allocated, NothingYet, Unbegun
<1>5. PartOK(1)' /\ UnfilledOK(1)'
  BY <1>1, <1>2, <1>3, <1>4, HolderAssumption DEF PartOK, UnfilledOK
<1> QED BY <1>3, <1>5 DEF Placed

\* Where the stack's bottom was before a step.
LEMMA BottomKept ==
  ASSUME IInv, Heap, SwitchesMains, stack' # <<>>,
         MakePart \/ Displace \/ Register \/ Unwind \/ Tune
  PROVE  \/ stack # <<>> /\ stack'[Len(stack')].holder = stack[Len(stack)].holder
                         /\ stack'[Len(stack')].made = stack[Len(stack)].made
         \/ stack'[Len(stack')].holder # "main"
<1> DEFINE l == Len(stack)
<1>0. TypeOK /\ stack \in Seq(CallType) /\ l \in Nat /\ (stack # <<>> => l # 0)
  BY DEF IInv, TypeOK
<1>1. ASSUME NEW k \in CallType, NEW base \in Seq(CallType), Len(base) = l, stack # <<>>,
             base[l].holder = stack[l].holder, base[l].made = stack[l].made,
             stack' = <<k>> \o base
      PROVE  /\ stack'[Len(stack')].holder = stack[l].holder
             /\ stack'[Len(stack')].made = stack[l].made
  <2>1. Len(stack') = l + 1 /\ stack'[l + 1] = base[l]
    BY <1>0, <1>1
  <2> QED BY <1>1, <2>1
<1>2. ASSUME stack' = Tail(stack), stack # <<>>
      PROVE  stack'[Len(stack')] = stack[l]
  BY <1>0, <1>2
<1>3. ASSUME NEW q \in CallType, stack # <<>>, stack' = [stack EXCEPT ![1] = q],
             q.holder = stack[1].holder, q.made = stack[1].made
      PROVE  /\ stack'[Len(stack')].holder = stack[l].holder
             /\ stack'[Len(stack')].made = stack[l].made
  <2>1. Len(stack') = l /\ stack'[l] = IF l = 1 THEN q ELSE stack[l]
    BY <1>0, <1>3
  <2> QED BY <1>3, <2>1
<1>4. CASE MakePart
  <2>1. PICK k \in CallType, base \in Seq(CallType) :
          /\ stack' = <<k>> \o base
          /\ Len(base) = Len(stack)
          /\ base[Len(stack)].holder = stack[Len(stack)].holder
          /\ base[Len(stack)].made = stack[Len(stack)].made
    BY <1>4, MakePartPushes
  <2> QED BY <1>1, <1>4, <2>1, MakePartPushes
<1>5. CASE Displace
  <2>1. stack # <<>>
    BY <1>5 DEF Displace, MadeAll, Creating
  <2> DEFINE b == Cardinality(Occupied(PathOf[top.setup])) >= top.made
             q == [stack[1] EXCEPT !.reuse = b]
  <2>2. b \in BOOLEAN
    OBVIOUS
  <2> HIDE DEF b
  <2>3. q \in CallType /\ q.holder = stack[1].holder /\ q.made = stack[1].made
    BY <2>1, <2>2, TopMade DEF CallType
  <2>4. stack' = [stack EXCEPT ![1] = q]
    BY <1>5 DEF Displace, b
  <2> HIDE DEF q
  <2> QED BY <1>3, <2>1, <2>3, <2>4
<1>6. CASE Register
  <2> DEFINE n == top.registered + 1
             q == [stack[1] EXCEPT !.registered = n]
  <2>1. stack # <<>>
    BY <1>6 DEF Register, MadeAll, Creating
  <2>2. top = stack[1] /\ top \in CallType /\ RegisteredOK(1) /\ top.registered \in Nat
        /\ top.made \in 0 .. MaxClones
    BY <2>1, TopMade DEF CallType
  <2>3. CASE n = top.made
    <3>1. stack' = Tail(stack)
      BY <1>6, <2>3 DEF Register
    <3> QED BY <1>2, <2>1, <3>1
  <2>4. CASE n # top.made
    <3>1. stack' = [stack EXCEPT ![1] = q]
      BY <1>6, <2>4 DEF Register
    <3>2. n \in 0 .. MaxClones
      <4>1. top.made = Clones[top.setup] /\ Clones[top.setup] \in 1 .. MaxClones
        BY <1>6, <2>1, TopMade, ClonesBound DEF Register, MadeAll
      <4> QED BY <2>2, <4>1, BoundAssumption DEF RegisteredOK
    <3> HIDE DEF n
    <3>3. q \in CallType /\ q.holder = stack[1].holder /\ q.made = stack[1].made
      BY <2>2, <3>2 DEF CallType
    <3> HIDE DEF q
    <3> QED BY <1>3, <2>1, <3>1, <3>3
  <2> QED BY <2>3, <2>4
<1>7. CASE Unwind
  BY <1>2, <1>7 DEF IInv, Failing, Unwind
<1>8. CASE Tune
  <2> DEFINE c == IF stack = <<>> THEN rtv ELSE Latest
             k == Call(Parts[Rtv][on], c, on)
  <2>1. stack' = IF ptr[<<c, on, 1>>] = None THEN <<k>> \o stack ELSE stack
    BY <1>8 DEF Tune
  <2>2. k.holder = c
    BY DEF Call
  <2>3. CASE stack = <<>>
    <3>1. MainHolds /\ Switching /\ switching
      BY <1>8 DEF IInv, Tune
    <3>2. rtv \in Obj
      BY <1>0, <2>3, <3>1 DEF MainHolds, Switching, TypeOK, Slot, rtv
    <3> HIDE DEF k
    <3>3. stack' = <<k>> \o <<>>
      BY <2>1, <2>3
    <3>4. stack'[Len(stack')] = k
      BY <3>3
    <3> QED BY <2>2, <2>3, <3>2, <3>4, HolderAssumption
  <2>4. CASE stack # <<>>
    <3> HIDE DEF k
    <3>1. CASE stack' = stack
      BY <2>4, <3>1
    <3>2. CASE stack' = <<k>> \o stack
      <4>1. Len(stack') = l + 1 /\ stack'[l + 1] = stack[l]
        BY <1>0, <2>4, <3>2
      <4> QED BY <2>4, <4>1
    <3> QED BY <2>1, <3>1, <3>2
  <2> QED BY <2>3, <2>4
<1> QED BY <1>4, <1>5, <1>6, <1>7, <1>8

LEMMA StepNothingYet ==
  ASSUME IInv, Heap, SwitchesMains, NothingYet, [Next]_vars
  PROVE  NothingYet'
<1>0. TypeOK /\ MainHolds
  BY DEF IInv
<1>1. ASSUME on' = on, \A c \in Obj : setup'[c] \in {setup[c], None}, Unbegun' => Unbegun
      PROVE  NothingYet'
  BY <1>1 DEF NothingYet
<1>2. CASE UNCHANGED <<setup, on, stack>> /\ (phase' = phase \/ phase' # "start")
  BY <1>1, <1>2 DEF Unbegun
<1>3. CASE Start
  BY <1>1, <1>3 DEF Unbegun, Start, heapVars, rtvVars
<1>4. CASE MakePart \/ Displace \/ Register \/ Unwind \/ Tune
  <2>1. UNCHANGED <<setup, on>> /\ (phase' = phase \/ phase' # "start")
    BY <1>4 DEF MakePart, Displace, Register, Unwind, Tune, heapVars, rtvVars
  <2>2. CASE stack' = <<>>
    BY <1>1, <2>1, <2>2 DEF Unbegun
  <2>3. CASE stack' # <<>>
    <3>1. \/ stack # <<>> /\ stack'[Len(stack')].holder = stack[Len(stack)].holder
                          /\ stack'[Len(stack')].made = stack[Len(stack)].made
          \/ stack'[Len(stack')].holder # "main"
      BY <1>4, <2>3, BottomKept
    <3>2. Unbegun' => Unbegun
      BY <2>1, <3>1 DEF Unbegun
    <3> QED BY <1>1, <2>1, <3>2
  <2> QED BY <2>2, <2>3
<1>5. ASSUME NEW c \in Obj, New(c) PROVE NothingYet'
  <2> DEFINE l == Len(stack)
             q == [stack[1] EXCEPT !.made = @ + 1, !.parts = PartsOf(top.setup)]
  <2>1. stack # <<>> /\ phase' = phase /\ phase = "run"
    BY <1>0, <1>5 DEF New, Creating, MainHolds
  <2>2. top = stack[1] /\ top \in CallType /\ l \in Nat \ {0} /\ top.made \in Nat
        /\ stack \in Seq(CallType)
    BY <1>0, <2>1, TopMade DEF TypeOK
  <2>3. stack' = [stack EXCEPT ![1] = q] /\ q.made = top.made + 1
    BY <1>5, <2>2 DEF New, CallType
  <2> HIDE DEF q
  <2>4. Len(stack') = l /\ stack'[l] = IF l = 1 THEN q ELSE stack[l]
    BY <2>2, <2>3
  <2>5. CASE l = 1
    <3>1. stack'[Len(stack')].made # 0
      BY <2>2, <2>3, <2>4, <2>5
    <3> QED BY <2>1, <3>1 DEF NothingYet, Unbegun
  <2>6. CASE l # 1
    <3> DEFINE j == l - 1
    <3>0. l \in Nat \ {0, 1}
      BY <2>2, <2>6
    <3> HIDE DEF l
    <3>a. j \in 1 .. l /\ j < l /\ j + 1 = l
      BY <3>0
    <3> HIDE DEF j
    <3>1. j \in 1 .. Len(stack) /\ j < Len(stack) /\ j + 1 = l
      BY <3>a DEF l
    <3>2. CallOK(j) /\ j # Len(stack)
      BY <3>1 DEF IInv, Calls
    <3>3. stack[l].made > 0
      BY <3>1, <3>2 DEF CallOK, FromMain, Anchored
    <3>4. stack'[Len(stack')].made # 0
      BY <2>4, <2>6, <3>3
    <3> QED BY <2>1, <3>4 DEF NothingYet, Unbegun
  <2> QED BY <2>5, <2>6
<1>6. ASSUME NEW s \in todo, Unref(s) \/ Destroy(s) PROVE NothingYet'
  <2>1. UNCHANGED <<stack, phase, on>>
    BY <1>6 DEF Unref, Destroy, callVars, rtvVars
  <2>2. \A c \in Obj : setup'[c] \in {setup[c], None}
    BY <1>0, <1>6 DEF Unref, Destroy, TypeOK
  <2> QED BY <1>1, <2>1, <2>2 DEF Unbegun
<1>7. CASE Switch
  <2>1. stack' = <<>> /\ phase' # "start"
    BY <1>7 DEF Switch, Idle, callVars
  <2> QED BY <2>1 DEF NothingYet, Unbegun
<1>8. ASSUME \/ AddPre \/ Fail \/ (\E p \in Path : Gc(p)) \/ GcDone \/ Crash \/ Quit \/ FreeStream
             \/ FreedStream \/ Stopped \/ (\E c \in Obj : RefFind(c)) \/ UNCHANGED vars
      PROVE  UNCHANGED <<setup, on, stack>> /\ (phase' = phase \/ phase' # "start")
  BY <1>8 DEF AddPre, Fail, Gc, GcDone, Crash, Quit, FreeStream, FreedStream, Stopped, RefFind,
              vars, heapVars, callVars, rtvVars
<1> QED BY <1>2, <1>3, <1>4, <1>5, <1>6, <1>7, <1>8 DEF Next

LEMMA StepSwitchesMains ==
  ASSUME IInv, SwitchesMains, [Next]_vars
  PROVE  SwitchesMains'
<1>0. TypeOK /\ NoDangling /\ FinitelyPointed /\ MainHolds /\ Switching /\ Failing
  BY DEF IInv
<1>1. CASE UNCHANGED <<ptr, setup, switching, stack>>
  BY <1>1 DEF SwitchesMains
<1>2. ASSUME stack' # <<>> \/ ~switching' PROVE SwitchesMains'
  BY <1>2 DEF SwitchesMains
<1>3. CASE Start \/ MakePart \/ Tune
  <2>1. CASE Start
    BY <1>2, <2>1 DEF Start
  <2>2. CASE MakePart
    <3>1. PICK k \in CallType, base \in Seq(CallType) : stack' = <<k>> \o base
      BY <2>2, MakePartPushes
    <3>2. stack' # <<>>
      BY <3>1
    <3> QED BY <1>2, <3>2
  <2>3. CASE Tune
    BY <1>2, <2>3 DEF Tune
  <2> QED BY <1>3, <2>1, <2>2, <2>3
<1>4. CASE Displace
  <2>1. stack # <<>> /\ \E r : stack' = [stack EXCEPT ![1].reuse = r]
    BY <1>4 DEF Displace, MadeAll, Creating
  <2>2. stack \in Seq(CallType) /\ Len(stack) \in Nat \ {0}
    BY <1>0, <2>1, TopMade DEF TypeOK
  <2>3. DOMAIN stack' # {}
    BY <2>1, <2>2
  <2> QED BY <1>2, <2>3
<1>5. CASE Register
  <2>1. stack # <<>> /\ UNCHANGED switching /\ (top.setup = Rtv => ~switching)
    BY <1>5 DEF Register, MadeAll, Creating, rtvVars
  <2>2. stack \in Seq(CallType) /\ Len(stack) \in Nat \ {0} /\ top = stack[1]
    BY <1>0, <2>1, TopMade DEF TypeOK
  <2>3. CASE Len(stack) = 1
    BY <1>0, <1>2, <2>1, <2>2, <2>3 DEF Switching
  <2>4. CASE Len(stack) # 1
    <3>1. stack' = Tail(stack) \/ \E n : stack' = [stack EXCEPT ![1].registered = n]
      BY <1>5 DEF Register
    <3>2. Len(Tail(stack)) # 0
      BY <2>2, <2>4
    <3>3. \A n : DOMAIN [stack EXCEPT ![1].registered = n] # {}
      BY <2>2
    <3>4. stack' # <<>>
      BY <3>1, <3>2, <3>3
    <3> QED BY <1>2, <3>4
  <2> QED BY <2>3, <2>4
<1>6. CASE Unwind
  <2>1. stack # <<>> /\ UNCHANGED switching /\ stack' = Tail(stack) /\ failing
    BY <1>0, <1>6 DEF Unwind, Failing, rtvVars
  <2>2. stack \in Seq(CallType) /\ Len(stack) \in Nat \ {0}
    BY <1>0, <2>1, TopMade DEF TypeOK
  <2>3. CASE Len(stack) = 1
    <3>1. switching => stack[1].setup = Rtv /\ stack[1].setup # Rtv
      BY <1>0, <2>1, <2>3 DEF Switching, Failing
    <3> QED BY <1>2, <2>1, <3>1
  <2>4. CASE Len(stack) # 1
    <3>1. Len(stack') # 0
      BY <2>1, <2>2, <2>4
    <3> QED BY <1>2, <3>1
  <2> QED BY <2>3, <2>4
<1>7. ASSUME NEW c \in Obj, New(c) PROVE SwitchesMains'
  <2>1. stack # <<>> /\ \E m, p : stack' = [stack EXCEPT ![1].made = m, ![1].parts = p]
    BY <1>7 DEF New, Creating
  <2>2. stack \in Seq(CallType) /\ Len(stack) \in Nat \ {0}
    BY <1>0, <2>1, TopMade DEF TypeOK
  <2>3. DOMAIN stack' # {}
    BY <2>1, <2>2
  <2> QED BY <1>2, <2>3
<1>8. ASSUME NEW c \in Obj, RefFind(c) PROVE SwitchesMains'
  BY <1>2, <1>8 DEF RefFind, Idle, rtvVars
<1>9. CASE Switch
  BY <1>9 DEF Switch, SwitchesMains, rtv
<1>10. ASSUME NEW s \in todo, Unref(s) \/ Destroy(s) PROVE SwitchesMains'
  <2>1. UNCHANGED <<stack, switching>>
    BY <1>10 DEF Unref, Destroy, callVars, rtvVars
  <2> SUFFICES ASSUME switching, stack = <<>> PROVE setup'[ptr'[Main]] = Rtv
    BY <2>1 DEF SwitchesMains
  <2>2. Main \in Slot /\ Main \notin todo /\ ptr[Main] # None /\ setup[ptr[Main]] = Rtv
    BY <1>0 DEF Switching, MainHolds, SwitchesMains, Slot
  <2>3. ptr[Main] \in Obj /\ s \in Slot /\ ptr[s] \in Obj
    BY <1>0, <2>2 DEF IInv, TodoHolds, TypeOK
  <2> HIDE DEF Main
  <2>4. ptr'[Main] = ptr[Main]
    BY <1>0, <1>10, <2>2, <2>3 DEF Unref, Destroy, TypeOK
  <2>5. CASE Unref(s)
    BY <2>2, <2>4, <2>5 DEF Unref
  <2>6. CASE Destroy(s)
    <3>1. refcount[ptr[s]] = 1 /\ setup' = [setup EXCEPT ![ptr[s]] = None]
      BY <2>6 DEF Destroy
    <3>2. ptr[s] # ptr[Main]
      BY <1>0, <2>2, <2>3, <3>1, PointedTo
    <3> QED BY <1>0, <2>2, <2>3, <2>4, <3>1, <3>2 DEF TypeOK
  <2> QED BY <1>10, <2>5, <2>6
<1>11. ASSUME \/ AddPre \/ Fail \/ (\E p \in Path : Gc(p)) \/ GcDone \/ Crash \/ Quit \/ FreeStream
              \/ FreedStream \/ Stopped \/ UNCHANGED vars
       PROVE  UNCHANGED <<ptr, setup, switching, stack>>
  BY <1>11 DEF AddPre, Fail, Gc, GcDone, Crash, Quit, FreeStream, FreedStream, Stopped,
               vars, heapVars, callVars, rtvVars
<1> QED BY <1>1, <1>3, <1>4, <1>5, <1>6, <1>7, <1>8, <1>9, <1>10, <1>11 DEF Next

\* main() frees its context, then the stream, which collects until nothing is
\* left to collect.
AtEnd ==
  /\ phase = "quit" => Main \in todo \/ ptr[Main] = None
  /\ phase \in {"collect", "done"} => ptr[Main] = None /\ (gc \/ (todo = {} /\ Collectable = {}))
  /\ phase = "done" => ~gc

LEMMA StepAtEnd ==
  ASSUME IInv, AtEnd, [Next]_vars
  PROVE  AtEnd'
<1>0. TypeOK /\ MainHolds /\ Switching
  BY DEF IInv
<1>1. ASSUME phase' \notin {"quit", "collect", "done"} PROVE AtEnd'
  BY <1>1 DEF AtEnd
<1>2. CASE UNCHANGED <<phase, ptr, refcount, todo, gc>>
  BY <1>2 DEF AtEnd, Collectable, Occupied, Unused
<1>3. ASSUME stack # <<>> \/ switching \/ Idle, phase' \in {phase, "exited", "crashed"}
      PROVE  AtEnd'
  <2>1. phase = "run"
    BY <1>0, <1>3 DEF MainHolds, Switching, Idle
  <2> QED BY <1>1, <1>3, <2>1
<1>4. CASE Start
  BY <1>1, <1>4 DEF Start
<1>5. CASE MakePart \/ AddPre \/ Displace \/ Register \/ Fail \/ Unwind \/ Tune \/ Switch \/ Crash
  <2>1. stack # <<>> \/ switching \/ Idle
    BY <1>5 DEF IInv, Failing, MakePart, AddPre, Displace, Register, MadeAll, Fail, Creating, Unwind,
                Tune, Switch, Crash
  <2>2. phase' \in {phase, "exited", "crashed"}
    BY <1>5 DEF MakePart, AddPre, Displace, Register, Fail, Unwind, Tune, Switch, Crash
  <2> QED BY <1>3, <2>1, <2>2
<1>6. ASSUME NEW c \in Obj, New(c) \/ RefFind(c) PROVE AtEnd'
  BY <1>3, <1>6 DEF New, Creating, RefFind
<1>7. ASSUME NEW s \in todo, Unref(s) \/ Destroy(s) PROVE AtEnd'
  <2>1. UNCHANGED <<phase, gc>> /\ ptr' = [ptr EXCEPT ![s] = None] /\ todo \ {s} \subseteq todo'
    BY <1>7 DEF Unref, Destroy
  <2>2. Main \in Slot
    BY DEF Slot
  <2> HIDE DEF Main
  <2>3. ptr[Main] = None \/ s = Main => ptr'[Main] = None
    BY <1>0, <2>1, <2>2 DEF TypeOK
  <2>4. phase = "quit" => Main \in todo' \/ ptr'[Main] = None
    BY <2>1, <2>3 DEF AtEnd
  <2> QED BY <2>1, <2>3, <2>4 DEF AtEnd
<1>8. ASSUME NEW p \in Path, Gc(p) PROVE AtEnd'
  BY <1>8 DEF Gc, AtEnd
<1>9. CASE GcDone
  <2>1. UNCHANGED <<phase, ptr, refcount, todo>> /\ todo = {} /\ Collectable = {} /\ ~gc'
    BY <1>9 DEF GcDone, heapVars
  <2>2. Collectable' = {}
    BY <2>1 DEF Collectable, Occupied, Unused
  <2> QED BY <2>1, <2>2 DEF AtEnd
<1>10. CASE Quit
  BY <1>10 DEF Quit, AtEnd
<1>11. CASE FreeStream
  BY <1>11 DEF FreeStream, AtEnd, heapVars
<1>12. CASE FreedStream
  <2>1. UNCHANGED <<ptr, refcount, todo, gc>> /\ phase = "collect" /\ phase' = "done" /\ ~gc
    BY <1>12 DEF FreedStream, heapVars
  <2>2. Collectable' = Collectable
    BY <2>1 DEF Collectable, Occupied, Unused
  <2> QED BY <2>1, <2>2 DEF AtEnd
<1>13. CASE Stopped \/ UNCHANGED vars
  BY <1>2, <1>13 DEF Stopped, vars, heapVars
<1> QED BY <1>4, <1>5, <1>6, <1>7, <1>8, <1>9, <1>10, <1>11, <1>12, <1>13 DEF Next

\* What keeps everything to be found by who is to free it, inductive with IInv.
LInv ==
  ~retains =>
    /\ Heap
    /\ Placed
    /\ Registering
    /\ NothingYet
    /\ SwitchesMains
    /\ AtEnd

LEMMA InitLInv == Init => LInv
<1> SUFFICES ASSUME Init PROVE LInv
  OBVIOUS
<1>1. \A s \in Slot : ptr[s] = None
  BY DEF Init
<1>2. \A c \in Obj : refcount[c] = 0 /\ setup[c] = None
  BY DEF Init
<1>3. Counted
  <2>1. \A c \in Obj : Pointing(c) = {}
    BY <1>1, NoneAssumption DEF Pointing
  <2> QED BY <1>2, <2>1, FS_EmptySet DEF Counted
<1>4. \A c \in Obj : Held(c) \subseteq Slot
  BY DEF Held, Slot
<1>5. HoldersLive /\ StreamOnce /\ Fitting /\ OneChannel /\ OneRtv
  <2>1. Rtv # None
    BY NoneAssumption, SetupAssumption
  <2> QED BY <1>1, <1>2, <1>4, <2>1 DEF HoldersLive, StreamOnce, Fitting, OneChannel, OneRtv
<1>6. stack = <<>> /\ phase = "start" /\ on = 0 /\ ~switching
  BY DEF Init
<1>7. Placed /\ Registering
  BY <1>6 DEF Placed, Registering
<1> QED BY <1>2, <1>3, <1>5, <1>6, <1>7 DEF LInv, Heap, NothingYet, SwitchesMains, AtEnd

LEMMA StepLInv == IInv /\ LInv /\ [Next]_vars => LInv'
<1> SUFFICES ASSUME IInv, LInv, [Next]_vars, ~retains'
             PROVE  Heap' /\ Placed' /\ Registering' /\ NothingYet' /\ SwitchesMains' /\ AtEnd'
  BY DEF LInv
<1>a. retains' = retains
  <2>1. ASSUME \/ Start \/ MakePart \/ AddPre \/ Displace \/ Register \/ Fail \/ Unwind \/ GcDone
               \/ Crash \/ Quit \/ FreeStream \/ FreedStream \/ Stopped \/ UNCHANGED vars
        PROVE  UNCHANGED rtvVars
    BY <2>1 DEF Start, MakePart, AddPre, Displace, Register, Fail, Unwind, GcDone, Crash, Quit,
                FreeStream, FreedStream, Stopped, vars
  <2>2. ASSUME NEW c \in Obj, RefFind(c) PROVE UNCHANGED rtvVars
    BY <2>2 DEF RefFind
  <2>3. ASSUME NEW s \in todo, Unref(s) \/ Destroy(s) PROVE UNCHANGED rtvVars
    BY <2>3 DEF Unref, Destroy
  <2>4. ASSUME NEW p \in Path, Gc(p) PROVE UNCHANGED rtvVars
    BY <2>4 DEF Gc
  <2>5. CASE Switch \/ Tune \/ \E c \in Obj : New(c)
    BY <2>5 DEF Switch, Tune, New
  <2>6. UNCHANGED rtvVars => retains' = retains
    BY DEF rtvVars
  <2> QED BY <2>1, <2>2, <2>3, <2>4, <2>5, <2>6 DEF Next
<1>0. Heap /\ Placed /\ Registering /\ NothingYet /\ SwitchesMains /\ AtEnd
  BY <1>a DEF LInv
<1>b. Registering' /\ NothingYet' /\ SwitchesMains' /\ AtEnd'
  BY <1>0, StepRegistering, StepNothingYet, StepSwitchesMains, StepAtEnd
<1>c. SUFFICES Heap' /\ Placed'
  BY <1>b
<1>1. ASSUME UNCHANGED <<ptr, refcount, setup, on, stack>>, todo \subseteq todo'
      PROVE  Heap' /\ Placed'
  BY <1>0, <1>1, GrowingKeepsHeap, QuietPlaced
<1>2. CASE Start
  <2>1. UNCHANGED <<ptr, refcount, setup, on, todo>>
    BY <1>2 DEF Start, heapVars, rtvVars
  <2> QED BY <1>0, <1>2, <2>1, GrowingKeepsHeap, StartPlaced
<1>3. CASE MakePart
  <2>1. UNCHANGED <<ptr, refcount, setup, on, todo>>
    BY <1>3 DEF MakePart, heapVars, rtvVars
  <2> QED BY <1>0, <1>3, <2>1, GrowingKeepsHeap, MakePartPlaced
<1>4. CASE Displace
  <2>1. UNCHANGED <<ptr, refcount, setup, on>> /\ todo = {}
    BY <1>4 DEF Displace, MadeAll, Creating, rtvVars
  <2> QED BY <1>0, <1>4, <2>1, GrowingKeepsHeap, DisplacePlaced
<1>5. CASE Register
  BY <1>0, <1>5, RegisterKeepsHeap, RegisterPlaced
<1>6. CASE Unwind
  <2>1. UNCHANGED <<ptr, refcount, setup, on>> /\ todo = {}
    BY <1>6 DEF Unwind, rtvVars
  <2> QED BY <1>0, <1>6, <2>1, GrowingKeepsHeap, UnwindPlaced
<1>7. ASSUME NEW c \in Obj, New(c) PROVE Heap' /\ Placed'
  BY <1>0, <1>7, NewKeepsHeap, NewPlaced
<1>8. ASSUME stack' = <<>> PROVE Placed'
  BY <1>8 DEF Placed
<1>9. ASSUME NEW c \in Obj, RefFind(c) PROVE Heap' /\ Placed'
  <2>1. stack' = <<>>
    BY <1>9 DEF RefFind, Idle, callVars
  <2> QED BY <1>0, <1>8, <1>9, <2>1, RefFindKeepsHeap
<1>10. ASSUME NEW s \in todo, Unref(s) \/ Destroy(s) PROVE Heap' /\ Placed'
  BY <1>0, <1>10, FreeKeepsHeap, FreePlaced
<1>11. CASE Switch
  <2>1. stack' = <<>>
    BY <1>11 DEF Switch, Idle, callVars
  <2> QED BY <1>0, <1>8, <1>11, <1>a, <2>1, SwitchKeepsHeap
<1>12. CASE Tune
  <2>1. UNCHANGED <<ptr, refcount, setup, on, todo>>
    BY <1>12 DEF Tune, heapVars
  <2> QED BY <1>0, <1>12, <2>1, GrowingKeepsHeap, TunePlaced
<1>13. CASE Quit
  <2>1. UNCHANGED <<ptr, refcount, setup, on, stack>> /\ todo = {}
    BY <1>13 DEF Quit, Idle, callVars, rtvVars
  <2> QED BY <1>1, <2>1
<1>14. ASSUME NEW p \in Path, Gc(p) PROVE Heap' /\ Placed'
  <2>1. UNCHANGED <<ptr, refcount, setup, on, stack>> /\ todo = {}
    BY <1>14 DEF Gc, callVars, rtvVars
  <2> QED BY <1>1, <2>1
<1>15. ASSUME AddPre \/ Fail \/ GcDone \/ Crash \/ FreeStream \/ FreedStream \/ Stopped \/ UNCHANGED vars
       PROVE  Heap' /\ Placed'
  <2>1. UNCHANGED <<ptr, refcount, setup, on, stack, todo>>
    BY <1>15 DEF AddPre, Fail, GcDone, Crash, FreeStream, FreedStream, Stopped,
                 vars, heapVars, callVars, rtvVars
  <2> QED BY <1>1, <2>1
<1> QED BY <1>2, <1>3, <1>4, <1>5, <1>6, <1>7, <1>9, <1>10, <1>11, <1>12, <1>13, <1>14, <1>15 DEF Next

\* When main() has freed its context and the stream, no context is left
\* allocated: not the contexts that were replaced at their paths, nor those of a
\* creation that failed halfway, those that refs found, or rtv's channels, unless
\* a channel may outlive its turn.  It takes that no context renders itself.
THEOREM NoLeakCorrect ==
  ASSUME Layered
  PROVE  Spec => []NoLeak
<1>1. IInv /\ LInv => NoLeak
  <2> SUFFICES ASSUME IInv, LInv, phase = "done", ~retains PROVE Live = {}
    BY DEF NoLeak
  <2>1. Heap /\ ptr[Main] = None /\ todo = {} /\ Collectable = {}
    BY DEF LInv, AtEnd
  <2> QED BY <2>1, NothingLeft
<1>2. Spec => [](IInv /\ LInv)
  BY Invariance, InitLInv, StepLInv, PTL DEF Spec
<1> QED BY <1>1, <1>2, PTL
=============================================================================
