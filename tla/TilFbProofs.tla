----------------------------- MODULE TilFbProofs -----------------------------
(***************************************************************************)
(* What holds of the page queue for any number of pages and of frames.     *)
(*                                                                         *)
(* The argument: a page is in one place (OneOwner, NoLeak), the screen     *)
(* shows one of the main thread's pages (Screen), and only a queued page,  *)
(* or one being flipped to, can have been submitted since it was last      *)
(* presented (Unpresented).                                                *)
(***************************************************************************)
EXTENDS TilFb, TLAPS, FiniteSetTheorems, SequenceTheorems

\* The pages each of the places holds, as one assertion per pair.
Disjoint ==
  /\ ToSet(ready) \intersect ToSet(inactive) = {}
  /\ (ToSet(ready) \union ToSet(inactive)) \intersect (Flipping \union Held) = {}
  /\ Flipping \intersect Held = {}
  /\ (snapshots \union lost)
       \intersect (ToSet(ready) \union ToSet(inactive) \union Flipping \union Held) = {}
  /\ snapshots \intersect lost = {}

\* Which pages the main thread has at each point, and which one is shown.
Screen ==
  /\ mainPc \in {"flip", "retire", "activate"} <=> next # NoPage
  /\ mainPc \in {"flip", "retire"} => active # next
  /\ mainPc = "done" <=> active = NoPage
  /\ visible = IF mainPc \in {"retire", "activate"} THEN next ELSE active

\* The renderer has a page from the time it gets one till it submits it, and
\* is gone before anything it uses is freed.
RendererPage ==
  /\ rendPc \in {"render", "drawn"} => page # NoPage
  /\ mainPc \in {"free", "done"} => rendPc = "end" /\ snapshots = {}

Unpresented ==
  unpresented \subseteq
    ToSet(ready) \union lost \union (IF mainPc = "flip" THEN {next} ELSE {})

\* Each snapshot took one more page than til_fb_new() made.
PageCount ==
  mainPc # "done" =>
    /\ IsFiniteSet(snapshots)
    /\ IsFiniteSet(all)
    /\ Cardinality(all) = NPages + Cardinality(snapshots)

\* The inductive invariant.
IInv ==
  /\ TypeOK
  /\ IsInjective(ready)
  /\ IsInjective(inactive)
  /\ Disjoint
  /\ NoLeak
  /\ Screen
  /\ RendererPage
  /\ Unpresented

-----------------------------------------------------------------------------
(* What the list operations do to the pages in a list. *)

\* Appending a page to a list.
LEMMA AppendPage ==
  ASSUME NEW s \in Seq(Page), NEW p \in Page
  PROVE  /\ Append(s, p) \in Seq(Page)
         /\ ToSet(Append(s, p)) = ToSet(s) \union {p}
         /\ IsInjective(s) /\ p \notin ToSet(s) => IsInjective(Append(s, p))
<1>1. Append(s, p) \in Seq(Page)
  OBVIOUS
<1>2. /\ Len(Append(s, p)) = Len(s) + 1
      /\ \A i \in 1 .. Len(s) : Append(s, p)[i] = s[i]
      /\ Append(s, p)[Len(s) + 1] = p
      /\ DOMAIN s = 1 .. Len(s)
      /\ DOMAIN Append(s, p) = 1 .. Len(s) + 1
      /\ Len(s) \in Nat
  OBVIOUS
<1>3. ToSet(Append(s, p)) = ToSet(s) \union {p}
  BY <1>2, SMT DEF ToSet
<1>4. IsInjective(s) /\ p \notin ToSet(s) => IsInjective(Append(s, p))
  BY <1>2, SMT DEF ToSet, IsInjective
<1> QED
  BY <1>1, <1>3, <1>4

\* Putting a page at the head of a list.
LEMMA ConsPage ==
  ASSUME NEW s \in Seq(Page), NEW p \in Page
  PROVE  /\ Cons(p, s) \in Seq(Page)
         /\ ToSet(Cons(p, s)) = ToSet(s) \union {p}
         /\ IsInjective(s) /\ p \notin ToSet(s) => IsInjective(Cons(p, s))
<1> DEFINE c == Cons(p, s)
<1>1. c \in Seq(Page)
  BY DEF Cons
<1>2. /\ Len(c) = Len(s) + 1
      /\ c[1] = p
      /\ \A i \in 2 .. Len(s) + 1 : c[i] = s[i - 1]
      /\ DOMAIN s = 1 .. Len(s)
      /\ DOMAIN c = 1 .. Len(s) + 1
      /\ Len(s) \in Nat
  BY DEF Cons
<1> HIDE DEF c
<1>3. \A i \in 1 .. Len(s) : s[i] = c[i + 1]
  BY <1>2
<1>4. ToSet(c) = ToSet(s) \union {p}
  <2>1. ToSet(s) \union {p} \subseteq ToSet(c)
    <3>1. \A i \in 1 .. Len(s) : i + 1 \in DOMAIN c /\ s[i] = c[i + 1]
      BY <1>2, <1>3
    <3>2. 1 \in DOMAIN c /\ c[1] = p
      BY <1>2
    <3> QED
      BY <1>2, <3>1, <3>2 DEF ToSet
  <2>2. ToSet(c) \subseteq ToSet(s) \union {p}
    <3> SUFFICES ASSUME NEW i \in DOMAIN c PROVE c[i] \in ToSet(s) \union {p}
      BY DEF ToSet
    <3>1. CASE i = 1
      BY <1>2, <3>1
    <3>2. CASE i # 1
      <4>1. i - 1 \in DOMAIN s /\ c[i] = s[i - 1]
        BY <1>2, <3>2
      <4> QED
        BY <4>1 DEF ToSet
    <3> QED
      BY <3>1, <3>2
  <2> QED
    BY <2>1, <2>2
<1>5. ASSUME IsInjective(s), p \notin ToSet(s) PROVE IsInjective(c)
  <2> SUFFICES ASSUME NEW i \in DOMAIN c, NEW j \in DOMAIN c, c[i] = c[j]
               PROVE  i = j
    BY DEF IsInjective
  <2>1. \A k \in 2 .. Len(s) + 1 : c[k] \in ToSet(s) /\ c[k] # p
    BY <1>2, <1>5 DEF ToSet
  <2>2. CASE i = 1 \/ j = 1
    BY <1>2, <2>1, <2>2
  <2>3. CASE i # 1 /\ j # 1
    <3>1. i \in 2 .. Len(s) + 1 /\ j \in 2 .. Len(s) + 1
      BY <1>2, <2>3
    <3>2. c[i] = s[i - 1] /\ c[j] = s[j - 1]
      BY <1>2, <3>1
    <3>3. i - 1 \in DOMAIN s /\ j - 1 \in DOMAIN s
      BY <1>2, <3>1
    <3>4. i - 1 = j - 1
      BY <1>5, <3>2, <3>3 DEF IsInjective
    <3> QED
      BY <1>2, <3>1, <3>4
  <2> QED
    BY <2>2, <2>3
<1> QED
  BY <1>1, <1>4, <1>5 DEF c

\* Taking the page at the head of a list.
LEMMA TakeHead ==
  ASSUME NEW s \in Seq(Page), s # <<>>
  PROVE  /\ Head(s) \in Page
         /\ Tail(s) \in Seq(Page)
         /\ ToSet(s) = ToSet(Tail(s)) \union {Head(s)}
         /\ IsInjective(s) => IsInjective(Tail(s)) /\ Head(s) \notin ToSet(Tail(s))
<1>1. /\ Tail(s) \in Seq(Page)
      /\ Len(s) \in Nat \ {0}
      /\ Len(Tail(s)) = Len(s) - 1
      /\ Head(s) = s[1]
      /\ Head(s) \in Page
      /\ \A i \in 1 .. Len(s) - 1 : Tail(s)[i] = s[i + 1]
      /\ DOMAIN s = 1 .. Len(s)
      /\ DOMAIN Tail(s) = 1 .. Len(s) - 1
  OBVIOUS
<1>2. \A i \in 2 .. Len(s) : i - 1 \in DOMAIN Tail(s) /\ s[i] = Tail(s)[i - 1]
  BY <1>1
<1>3. ToSet(s) = ToSet(Tail(s)) \union {Head(s)}
  <2>1. ASSUME NEW i \in DOMAIN s PROVE s[i] \in ToSet(Tail(s)) \union {Head(s)}
    <3>1. CASE i = 1
      BY <1>1, <3>1
    <3>2. CASE i # 1
      <4>1. i \in 2 .. Len(s)
        BY <1>1, <3>2
      <4> QED
        BY <1>2, <4>1 DEF ToSet
    <3> QED
      BY <3>1, <3>2
  <2>2. Head(s) \in ToSet(s)
    BY <1>1 DEF ToSet
  <2>3. ASSUME NEW i \in DOMAIN Tail(s) PROVE Tail(s)[i] \in ToSet(s)
    <3>1. i + 1 \in DOMAIN s /\ Tail(s)[i] = s[i + 1]
      BY <1>1
    <3> QED
      BY <3>1 DEF ToSet
  <2> QED
    BY <2>1, <2>2, <2>3 DEF ToSet
<1>4. ASSUME IsInjective(s) PROVE IsInjective(Tail(s)) /\ Head(s) \notin ToSet(Tail(s))
  BY <1>1, <1>4, SMT DEF ToSet, IsInjective
<1> QED
  BY <1>1, <1>3, <1>4

\* Taking the page at the tail of a list.
LEMMA TakeLast ==
  ASSUME NEW s \in Seq(Page), s # <<>>
  PROVE  /\ Last(s) \in Page
         /\ Front(s) \in Seq(Page)
         /\ ToSet(s) = ToSet(Front(s)) \union {Last(s)}
         /\ IsInjective(s) => IsInjective(Front(s)) /\ Last(s) \notin ToSet(Front(s))
<1> DEFINE f == SubSeq(s, 1, Len(s) - 1)
<1>0. /\ Len(s) \in Nat \ {0}
      /\ s[Len(s)] \in Page
      /\ DOMAIN s = 1 .. Len(s)
      /\ s \in [1 .. Len(s) -> Page]
  OBVIOUS
<1>a. /\ f = [i \in 1 .. Len(s) - 1 |-> s[i]]
      /\ f \in Seq(Page)
      /\ Len(f) = Len(s) - 1
  BY <1>0
<1>1. /\ Front(s) \in Seq(Page)
      /\ Len(s) \in Nat \ {0}
      /\ Len(Front(s)) = Len(s) - 1
      /\ Last(s) = s[Len(s)]
      /\ Last(s) \in Page
      /\ \A i \in 1 .. Len(s) - 1 : Front(s)[i] = s[i]
      /\ DOMAIN s = 1 .. Len(s)
      /\ DOMAIN Front(s) = 1 .. Len(s) - 1
  BY <1>0, <1>a DEF Front, Last
<1>3. ToSet(s) = ToSet(Front(s)) \union {Last(s)}
  BY <1>1, SMT DEF ToSet
<1>4. ASSUME IsInjective(s) PROVE IsInjective(Front(s)) /\ Last(s) \notin ToSet(Front(s))
  BY <1>1, <1>4, SMT DEF ToSet, IsInjective
<1> QED
  BY <1>1, <1>3, <1>4

\* The pages rebuilt by a flip are inactive ones.
LEMMA RebuiltInactive ==
  ASSUME NEW s
  PROVE  Rebuilt(s) \subseteq ToSet(s)
BY DEF Rebuilt, ToSet

-----------------------------------------------------------------------------
LEMMA InitIInv == Init => IInv
<1> SUFFICES ASSUME Init PROVE IInv
  OBVIOUS
<1> USE PageAssumption, NPagesAssumption, NFramesAssumption
<1>1. PICK s \in [1 .. NPages - 1 -> Page], p \in Page :
        /\ IsInjective(s)
        /\ p \notin ToSet(s)
        /\ inactive = s
        /\ active = p
        /\ all = ToSet(s) \union {p}
  BY DEF Init
<1>2. inactive \in Seq(Page)
  BY <1>1
<1>3. ToSet(inactive) \subseteq Page
  BY <1>1 DEF ToSet
<1>4. ToSet(<<>>) = {} /\ IsInjective(<<>>)
  BY DEF ToSet, IsInjective
<1>5. Flipping = {active} /\ Held = {}
  BY DEF Init, Flipping, Held
<1>6. TypeOK
  <2>1. NFrames - 1 \in Frame /\ 0 \in Frame
    BY DEF Frame
  <2>2. content \in [Page -> Frame]
    BY <2>1 DEF Init
  <2>3. active \in Page /\ all \subseteq Page /\ visible = active
    BY <1>1, <1>3 DEF Init
  <2>4. ready \in Seq(Page) /\ halted \in BOOLEAN /\ ended \in BOOLEAN
    <3>1. <<>> \in Seq(Page)
      OBVIOUS
    <3>2. ready = <<>>
      BY DEF Init
    <3>3. halted \in BOOLEAN /\ ended \in BOOLEAN
      BY Zenon DEF Init
    <3> QED
      BY <3>1, <3>2, <3>3
  <2>5. /\ rebuildPages \in 0 .. NPages /\ frame \in Frame
        /\ next = NoPage /\ page = NoPage /\ mainPc = "check" /\ rendPc = "check"
        /\ snapshots = {} /\ unpresented = {} /\ stale = {} /\ lost = {}
    BY <2>1 DEF Init
  <2> QED
    BY <1>2, <2>2, <2>3, <2>4, <2>5 DEF TypeOK
<1>7. Disjoint /\ NoLeak
  BY <1>1, <1>4, <1>5 DEF Init, Disjoint, NoLeak
<1>8. Screen /\ RendererPage /\ Unpresented
  BY <1>1 DEF Init, Screen, RendererPage, Unpresented
<1> QED
  BY <1>1, <1>4, <1>6, <1>7, <1>8 DEF Init, IInv

-----------------------------------------------------------------------------
(* Steps that move no page. *)

LEMMA QuietKeepsType ==
  ASSUME TypeOK,
         \/ MainCheck \/ FlipWait \/ Halt \/ RendCheck \/ GetNothing \/ GetTest
         \/ GetWait \/ Draw \/ FbRebuild \/ SpuriousWakeup \/ UNCHANGED vars
  PROVE  TypeOK'
<1> USE NPagesAssumption DEF TypeOK
<1>1. CASE MainCheck \/ FlipWait \/ GetTest \/ GetWait \/ RendCheck
  BY <1>1 DEF MainCheck, FlipWait, GetTest, GetWait, RendCheck, fbVars, mainVars,
              rendVars, ghostVars
<1>2. CASE Halt
  BY <1>2 DEF Halt, RendSignalled, ghostVars
<1>3. CASE GetNothing
  BY <1>3 DEF GetNothing, fbVars, mainVars, ghostVars
<1>4. CASE Draw
  <2>1. content' \in [Page -> Frame] /\ ended' \in BOOLEAN
    BY <1>4 DEF Draw
  <2> QED
    BY <1>4, <2>1 DEF Draw, fbVars, mainVars, ghostVars
<1>5. CASE FbRebuild
  BY <1>5 DEF FbRebuild, mainVars, rendVars
<1>6. CASE SpuriousWakeup
  BY <1>6 DEF SpuriousWakeup, fbVars, ghostVars
<1>7. CASE UNCHANGED vars
  BY <1>7 DEF vars, fbVars, mainVars, rendVars, ghostVars
<1> QED
  BY <1>1, <1>2, <1>3, <1>4, <1>5, <1>6, <1>7

LEMMA QuietIInv ==
  ASSUME IInv,
         \/ MainCheck \/ FlipWait \/ Halt \/ RendCheck \/ GetNothing \/ GetTest
         \/ GetWait \/ Draw \/ FbRebuild \/ SpuriousWakeup \/ UNCHANGED vars
  PROVE  IInv'
<1> USE DEF IInv
<1>1. TypeOK'
  BY QuietKeepsType
<1>2. /\ UNCHANGED <<ready, inactive, active, all, next, page, snapshots, lost,
                     unpresented, visible>>
      /\ mainPc' = mainPc \/ <<mainPc, mainPc'>> \in
           ({"check", "take", "wait"} \X {"check", "take", "wait", "halt"})
             \union {<<"halt", "join">>}
      /\ rendPc' = rendPc \/ <<rendPc, rendPc'>> \in
           ({"check", "take", "block", "wait"}
              \X {"check", "take", "block", "wait", "end"})
             \union {<<"render", "drawn">>}
  BY DEF MainCheck, FlipWait, Halt, RendCheck, GetNothing, GetTest, GetWait, Draw,
         FbRebuild, SpuriousWakeup, RendSignalled, vars, fbVars, mainVars,
         rendVars, ghostVars
<1>3. Flipping' = Flipping /\ Held' = Held
  BY <1>2 DEF Flipping, Held
<1>4. Disjoint' /\ NoLeak' /\ IsInjective(ready)' /\ IsInjective(inactive)'
  BY <1>2, <1>3 DEF Disjoint, NoLeak, ToSet, IsInjective
<1>5. Screen'
  BY <1>2 DEF Screen
<1>6. RendererPage'
  BY <1>2 DEF RendererPage
<1>7. Unpresented'
  BY <1>2 DEF Unpresented, ToSet
<1> QED
  BY <1>1, <1>4, <1>5, <1>6, <1>7

-----------------------------------------------------------------------------
(* Steps that move a page: each lemma says what becomes of the lists, of the *)
(* main thread's pages and of the renderer's, and the conjuncts follow.      *)

LEMMA FlipTakeIInv ==
  ASSUME IInv, FlipTake
  PROVE  IInv'
<1> USE PageAssumption DEF IInv
<1>1. /\ Head(ready) \in Page
      /\ Tail(ready) \in Seq(Page)
      /\ ToSet(ready) = ToSet(Tail(ready)) \union {Head(ready)}
      /\ IsInjective(Tail(ready)) /\ Head(ready) \notin ToSet(Tail(ready))
  BY TakeHead DEF FlipTake, TypeOK
<1>2. /\ ready' = Tail(ready) /\ next' = Head(ready)
      /\ mainPc = "take" /\ mainPc' = "flip"
      /\ UNCHANGED <<inactive, active, all, rebuildPages, halted, rendVars,
                     ghostVars, ended, visible>>
  BY DEF FlipTake
<1>3. TypeOK'
  BY <1>1, <1>2 DEF TypeOK, rendVars, ghostVars
<1>4. /\ Flipping = {active} /\ Flipping' = {active, Head(ready)}
      /\ Held' = Held /\ ToSet(inactive)' = ToSet(inactive)
      /\ ToSet(ready)' = ToSet(Tail(ready))
  BY <1>2 DEF Flipping, Held, rendVars, ToSet
<1>5. Disjoint' /\ NoLeak'
  BY <1>1, <1>2, <1>4 DEF Disjoint, NoLeak, ghostVars, rendVars
<1>6. IsInjective(ready)' /\ IsInjective(inactive)'
  BY <1>1, <1>2 DEF IsInjective
<1>7. Screen' /\ RendererPage' /\ Unpresented'
  BY <1>1, <1>2, <1>4
  DEF Screen, RendererPage, Unpresented, Disjoint, rendVars, ghostVars
<1> QED
  BY <1>3, <1>5, <1>6, <1>7

LEMMA PageFlipIInv ==
  ASSUME IInv, PageFlip \/ PageFlipFails
  PROVE  IInv'
<1> USE DEF IInv
<1>1. /\ UNCHANGED <<fbVars, rendVars, stale, ended>>
      /\ mainPc = "flip"
      /\ next # NoPage /\ next \in Page /\ active # next
  BY DEF PageFlip, PageFlipFails, Screen, TypeOK
<1>2. /\ Flipping = {active, next}
      /\ Held' = Held
      /\ ToSet(inactive)' = ToSet(inactive) /\ ToSet(ready)' = ToSet(ready)
  BY <1>1 DEF Flipping, Held, fbVars, rendVars, ToSet
<1>3. IsInjective(ready)' /\ IsInjective(inactive)'
  BY <1>1 DEF IsInjective, fbVars
<1>4. CASE PageFlip
  <2>1. Flipping' = {active, next}
    BY <1>1, <1>4 DEF PageFlip, Flipping, fbVars
  <2>2. TypeOK'
    BY <1>1, <1>4 DEF PageFlip, Presented, TypeOK, fbVars, rendVars
  <2>3. Disjoint' /\ NoLeak'
    BY <1>1, <1>2, <1>4, <2>1 DEF PageFlip, Disjoint, NoLeak, fbVars, rendVars
  <2>4. Screen' /\ RendererPage' /\ Unpresented'
    BY <1>1, <1>2, <1>4
    DEF PageFlip, Presented, Screen, RendererPage, Unpresented, fbVars, rendVars
  <2> QED
    BY <1>3, <2>2, <2>3, <2>4
<1>5. CASE PageFlipFails
  <2>1. Flipping' = {active}
    BY <1>1, <1>5 DEF PageFlipFails, Flipping, fbVars
  <2>2. TypeOK'
    BY <1>1, <1>5 DEF PageFlipFails, TypeOK, fbVars, rendVars
  <2>3. Disjoint' /\ NoLeak'
    BY <1>1, <1>2, <1>5, <2>1 DEF PageFlipFails, Disjoint, NoLeak, fbVars, rendVars
  <2>4. Screen' /\ RendererPage' /\ Unpresented'
    BY <1>1, <1>2, <1>5
    DEF PageFlipFails, Screen, RendererPage, Unpresented, fbVars, rendVars
  <2> QED
    BY <1>3, <2>2, <2>3, <2>4
<1> QED
  BY <1>4, <1>5

LEMMA FlipRetireIInv ==
  ASSUME IInv, FlipRetire
  PROVE  IInv'
<1> USE PageAssumption, NPagesAssumption DEF IInv
<1>1. /\ mainPc = "retire" /\ mainPc' = "activate"
      /\ rendPc # "block" /\ rendPc' \in {rendPc, "take"}
      /\ rendPc' # rendPc => rendPc = "wait"
      /\ inactive' = Cons(active, inactive)
      /\ UNCHANGED <<ready, active, all, halted, next, page, frame, snapshots,
                     content, unpresented, lost, ended, visible>>
      /\ active # NoPage /\ active \in Page
  BY DEF FlipRetire, Retired, RendSignalled, Screen, TypeOK
<1>2. /\ Flipping = {active, next} /\ Flipping' = {next}
      /\ active # next
      /\ Held' = Held
      /\ ToSet(ready)' = ToSet(ready)
  BY <1>1 DEF Flipping, Held, Screen, ToSet
<1>3. /\ inactive' \in Seq(Page)
      /\ ToSet(inactive)' = ToSet(inactive) \union {active}
      /\ IsInjective(inactive)'
  <2>1. active \notin ToSet(inactive)
    BY <1>2 DEF Disjoint
  <2>2. /\ Cons(active, inactive) \in Seq(Page)
        /\ ToSet(Cons(active, inactive)) = ToSet(inactive) \union {active}
        /\ IsInjective(Cons(active, inactive))
    BY <1>1, <2>1, ConsPage DEF TypeOK
  <2> QED
    BY <1>1, <2>2 DEF ToSet, IsInjective
<1>4. TypeOK'
  <2>1. rebuildPages' \in 0 .. NPages
    <3>1. rebuildPages' = RebuildsLeft(Retired)
      BY DEF FlipRetire
    <3>2. Len(Retired) \in Nat
      BY <1>1, <1>3 DEF Retired
    <3> QED
      BY <3>1, <3>2 DEF RebuildsLeft, TypeOK
  <2>2. stale' \subseteq Page
    BY DEF FlipRetire, TypeOK
  <2> QED
    BY <1>1, <1>3, <2>1, <2>2 DEF TypeOK
<1>5. Disjoint' /\ NoLeak'
  BY <1>1, <1>2, <1>3 DEF Disjoint, NoLeak
<1>6. IsInjective(ready)'
  BY <1>1 DEF IsInjective
<1>7. Screen' /\ RendererPage' /\ Unpresented'
  BY <1>1, <1>2 DEF Screen, RendererPage, Unpresented
<1> QED
  BY <1>3, <1>4, <1>5, <1>6, <1>7

LEMMA FlipActivateIInv ==
  ASSUME IInv, FlipActivate
  PROVE  IInv'
<1> USE PageAssumption DEF IInv
<1>1. /\ mainPc = "activate" /\ mainPc' = "check" /\ active' = next /\ next' = NoPage
      /\ UNCHANGED <<ready, inactive, all, rebuildPages, halted, rendVars,
                     ghostVars, ended, visible>>
      /\ next # NoPage /\ next \in Page
  BY DEF FlipActivate, Screen, TypeOK
<1>2. /\ Flipping = {next} /\ Flipping' = {next}
      /\ Held' = Held
      /\ ToSet(ready)' = ToSet(ready) /\ ToSet(inactive)' = ToSet(inactive)
  BY <1>1 DEF Flipping, Held, rendVars, ToSet
<1>3. TypeOK'
  BY <1>1 DEF TypeOK, rendVars, ghostVars
<1>4. Disjoint' /\ NoLeak' /\ IsInjective(ready)' /\ IsInjective(inactive)'
  BY <1>1, <1>2 DEF Disjoint, NoLeak, IsInjective, rendVars, ghostVars
<1>5. Screen' /\ RendererPage' /\ Unpresented'
  BY <1>1, <1>2 DEF Screen, RendererPage, Unpresented, rendVars, ghostVars
<1> QED
  BY <1>3, <1>4, <1>5

LEMMA JoinIInv ==
  ASSUME IInv, Join
  PROVE  IInv'
<1> USE DEF IInv
<1>1. /\ mainPc = "join" /\ mainPc' = "free" /\ rendPc = "end"
      /\ snapshots' = {} /\ all' = all \ snapshots
      /\ UNCHANGED <<ready, inactive, active, rebuildPages, halted, next, rendPc,
                     page, frame, content, unpresented, lost, ended, visible>>
  BY DEF Join, Freed
<1>2. /\ Flipping = {active} /\ Flipping' = {active}
      /\ Held' = Held
      /\ ToSet(ready)' = ToSet(ready) /\ ToSet(inactive)' = ToSet(inactive)
  BY <1>1 DEF Flipping, Held, ToSet
<1>3. TypeOK'
  BY <1>1 DEF TypeOK, Join
<1>4. Disjoint' /\ NoLeak' /\ IsInjective(ready)' /\ IsInjective(inactive)'
  BY <1>1, <1>2 DEF Disjoint, NoLeak, IsInjective
<1>5. Screen' /\ RendererPage' /\ Unpresented'
  BY <1>1, <1>2 DEF Screen, RendererPage, Unpresented
<1> QED
  BY <1>3, <1>4, <1>5

LEMMA FbFreeIInv ==
  ASSUME IInv, FbFree
  PROVE  IInv'
<1> USE DEF IInv
<1>1. /\ mainPc = "free" /\ mainPc' = "done"
      /\ all' = {} /\ ready' = <<>> /\ inactive' = <<>> /\ active' = NoPage
      /\ visible' = NoPage /\ unpresented' = {} /\ stale' = {} /\ lost' = {}
      /\ UNCHANGED <<rebuildPages, halted, next, rendVars, ended>>
  BY DEF FbFree
<1>2. /\ <<>> \in Seq(Page)
      /\ ToSet(<<>>) = {}
      /\ IsInjective(<<>>)
  BY DEF ToSet, IsInjective
<1>3. ToSet(ready)' = {} /\ ToSet(inactive)' = {}
  BY <1>1, <1>2 DEF ToSet
<1>4. Flipping' = {} /\ Held' = {} /\ snapshots' = {} /\ next' = NoPage
  BY <1>1 DEF Flipping, Held, RendererPage, Screen, rendVars
<1>5. TypeOK'
  BY <1>1, <1>2 DEF TypeOK, rendVars
<1>6. Disjoint' /\ NoLeak' /\ IsInjective(ready)' /\ IsInjective(inactive)'
  BY <1>1, <1>2, <1>3, <1>4 DEF Disjoint, NoLeak, IsInjective
<1>7. Screen' /\ RendererPage' /\ Unpresented'
  BY <1>1, <1>4 DEF Screen, RendererPage, Unpresented, rendVars
<1> QED
  BY <1>5, <1>6, <1>7

LEMMA GetPageIInv ==
  ASSUME IInv, GetPage
  PROVE  IInv'
<1> USE PageAssumption DEF IInv
<1>1. /\ Last(inactive) \in Page
      /\ Front(inactive) \in Seq(Page)
      /\ ToSet(inactive) = ToSet(Front(inactive)) \union {Last(inactive)}
      /\ IsInjective(Front(inactive)) /\ Last(inactive) \notin ToSet(Front(inactive))
  BY TakeLast DEF GetPage, TypeOK
<1>2. /\ rendPc = "take" /\ rendPc' = "render"
      /\ page' = Last(inactive) /\ inactive' = Front(inactive)
      /\ UNCHANGED <<ready, active, all, rebuildPages, halted, mainVars, frame,
                     snapshots, content, ghostVars, ended, visible>>
  BY DEF GetPage
<1>3. TypeOK'
  BY <1>1, <1>2 DEF TypeOK, mainVars, ghostVars
<1>4. /\ Held = {} /\ Held' = {Last(inactive)}
      /\ Flipping' = Flipping
      /\ ToSet(ready)' = ToSet(ready) /\ ToSet(inactive)' = ToSet(Front(inactive))
  BY <1>2 DEF Flipping, Held, mainVars, ToSet
<1>5. Disjoint' /\ NoLeak'
  BY <1>1, <1>2, <1>4 DEF Disjoint, NoLeak, ghostVars, mainVars
<1>6. IsInjective(ready)' /\ IsInjective(inactive)'
  BY <1>1, <1>2 DEF IsInjective
<1>7. Screen' /\ RendererPage' /\ Unpresented'
  BY <1>1, <1>2, <1>4 DEF Screen, RendererPage, Unpresented, mainVars, ghostVars
<1> QED
  BY <1>3, <1>5, <1>6, <1>7

LEMMA SnapshotIInv ==
  ASSUME IInv, Snapshot
  PROVE  IInv'
<1> USE PageAssumption DEF IInv
<1>1. PICK new \in Page \ all :
        /\ all' = all \union {new}
        /\ page' = new
        /\ content' = IF rendPc = "drawn"
                        THEN [content EXCEPT ![new] = content[page]]
                        ELSE content
        /\ unpresented' = unpresented \ {new}
        /\ stale' = stale \ {new}
  BY DEF Snapshot
<1>2. /\ rendPc \in {"render", "drawn"}
      /\ snapshots' = snapshots \union {page}
      /\ UNCHANGED <<ready, inactive, active, rebuildPages, halted, mainVars,
                     rendPc, frame, lost, ended, visible>>
      /\ page # NoPage /\ page \in Page
  BY DEF Snapshot, RendererPage, TypeOK
<1>3. content' \in [Page -> Frame]
  BY <1>1, <1>2 DEF TypeOK
<1>4. TypeOK'
  BY <1>1, <1>2, <1>3 DEF TypeOK, mainVars
<1>5. /\ Held = {page} /\ Held' = {new}
      /\ Flipping' = Flipping
      /\ ToSet(ready)' = ToSet(ready) /\ ToSet(inactive)' = ToSet(inactive)
  BY <1>1, <1>2 DEF Flipping, Held, mainVars, ToSet
<1>6. Disjoint' /\ NoLeak'
  BY <1>1, <1>2, <1>5 DEF Disjoint, NoLeak
<1>7. IsInjective(ready)' /\ IsInjective(inactive)'
  BY <1>2 DEF IsInjective
<1>8. Screen' /\ RendererPage' /\ Unpresented'
  BY <1>1, <1>2, <1>5 DEF Screen, RendererPage, Unpresented, mainVars
<1> QED
  BY <1>4, <1>6, <1>7, <1>8

LEMMA ReclaimIInv ==
  ASSUME IInv, Reclaim
  PROVE  IInv'
<1> USE PageAssumption DEF IInv
<1>1. PICK p \in snapshots :
        snapshots' = snapshots \ {p} /\ all' = all \ {p} /\ stale' = stale \ {p}
  BY DEF Reclaim, Freed
<1>2. /\ rendPc \in {"render", "drawn"}
      /\ UNCHANGED <<ready, inactive, active, rebuildPages, halted, mainVars,
                     rendPc, page, frame, content, unpresented, lost, ended, visible>>
  BY DEF Reclaim
<1>3. TypeOK'
  BY <1>1, <1>2 DEF TypeOK, mainVars
<1>4. /\ Held' = Held /\ Flipping' = Flipping
      /\ ToSet(ready)' = ToSet(ready) /\ ToSet(inactive)' = ToSet(inactive)
  BY <1>2 DEF Flipping, Held, mainVars, ToSet
<1>5. Disjoint' /\ NoLeak' /\ IsInjective(ready)' /\ IsInjective(inactive)'
  BY <1>1, <1>2, <1>4 DEF Disjoint, NoLeak, IsInjective
<1>6. Screen' /\ RendererPage' /\ Unpresented'
  BY <1>1, <1>2, <1>4 DEF Screen, RendererPage, Unpresented, mainVars
<1> QED
  BY <1>3, <1>5, <1>6

LEMMA SubmitIInv ==
  ASSUME IInv, Submit
  PROVE  IInv'
<1> USE PageAssumption, NFramesAssumption DEF IInv
<1>1. /\ rendPc = "drawn" /\ rendPc' = "check"
      /\ ready' = Append(ready, page)
      /\ unpresented' = unpresented \union {page}
      /\ page' = NoPage
      /\ mainPc' \in {mainPc, "take"}
      /\ mainPc' # mainPc => mainPc = "wait"
      /\ UNCHANGED <<inactive, active, all, rebuildPages, halted, next, snapshots,
                     content, stale, lost, ended, visible>>
      /\ page # NoPage /\ page \in Page
  BY DEF Submit, Queued, MainSignalled, RendererPage, TypeOK
<1>2. /\ Held = {page} /\ Held' = {}
      /\ Flipping' = Flipping
      /\ ToSet(inactive)' = ToSet(inactive)
  BY <1>1 DEF Flipping, Held, ToSet
<1>3. /\ ready' \in Seq(Page)
      /\ ToSet(ready)' = ToSet(ready) \union {page}
      /\ IsInjective(ready)'
  <2>1. page \notin ToSet(ready)
    BY <1>2 DEF Disjoint
  <2>2. /\ Append(ready, page) \in Seq(Page)
        /\ ToSet(Append(ready, page)) = ToSet(ready) \union {page}
        /\ IsInjective(Append(ready, page))
    BY <1>1, <2>1, AppendPage DEF TypeOK
  <2> QED
    BY <1>1, <2>2 DEF ToSet, IsInjective
<1>4. frame' \in Frame
  <2>1. frame' = (frame + 1) % NFrames /\ frame + 1 \in Int
    BY DEF Submit, TypeOK, Frame
  <2> QED
    BY <2>1 DEF Frame
<1>5. TypeOK'
  BY <1>1, <1>3, <1>4 DEF TypeOK
<1>6. Disjoint' /\ NoLeak' /\ IsInjective(inactive)'
  BY <1>1, <1>2, <1>3 DEF Disjoint, NoLeak, IsInjective
<1>7. Screen' /\ RendererPage' /\ Unpresented'
  BY <1>1, <1>2, <1>3 DEF Screen, RendererPage, Unpresented
<1> QED
  BY <1>3, <1>5, <1>6, <1>7

LEMMA StepIInv == IInv /\ [Next]_vars => IInv'
<1> SUFFICES ASSUME IInv, [Next]_vars PROVE IInv'
  OBVIOUS
<1>1. CASE Main
  BY <1>1, QuietIInv, FlipTakeIInv, PageFlipIInv, FlipRetireIInv,
     FlipActivateIInv, JoinIInv, FbFreeIInv DEF Main
<1>2. CASE Renderer
  BY <1>2, QuietIInv, GetPageIInv, SnapshotIInv, ReclaimIInv, SubmitIInv DEF Renderer
<1>3. CASE FbRebuild \/ SpuriousWakeup \/ Exited \/ UNCHANGED vars
  BY <1>3, QuietIInv DEF Exited
<1> QED
  BY <1>1, <1>2, <1>3 DEF Next

THEOREM Invariance == Spec => []IInv
BY InitIInv, StepIInv, PTL DEF Spec

-----------------------------------------------------------------------------
(* The number of pages. *)

\* til_fb_new() made NPages pages.
LEMMA InitPageCount == Init => PageCount
<1> SUFFICES ASSUME Init PROVE PageCount
  OBVIOUS
<1> USE NPagesAssumption
<1>1. PICK s \in [1 .. NPages - 1 -> Page], p \in Page :
        IsInjective(s) /\ p \notin ToSet(s) /\ all = ToSet(s) \union {p}
  BY DEF Init
<1>2. s \in Bijection(1 .. NPages - 1, ToSet(s))
  BY <1>1 DEF Bijection, Injection, Surjection, IsInjective, ToSet
<1>3. IsFiniteSet(1 .. NPages - 1) /\ Cardinality(1 .. NPages - 1) = NPages - 1
  BY FS_Interval
<1>4. IsFiniteSet(ToSet(s)) /\ Cardinality(ToSet(s)) = NPages - 1
  BY <1>2, <1>3, FS_Bijection DEF ExistsBijection
<1>5. IsFiniteSet(all) /\ Cardinality(all) = NPages
  BY <1>1, <1>4, FS_AddElement
<1> QED
  BY <1>5, FS_EmptySet DEF Init, PageCount

LEMMA StepPageCount == IInv /\ PageCount /\ [Next]_vars => PageCount'
<1> SUFFICES ASSUME IInv, PageCount, [Next]_vars, mainPc' # "done"
             PROVE  PageCount'
  BY DEF PageCount
<1>1. mainPc # "done"
  <2> SUFFICES ASSUME mainPc = "done" PROVE FALSE
    OBVIOUS
  <2>1. rendPc = "end"
    BY DEF IInv, RendererPage
  <2> QED
    BY <2>1 DEF Next, Main, Renderer, MainCheck, FlipWait, FlipTake, PageFlip,
       PageFlipFails, FlipRetire, FlipActivate, Halt, Join, FbFree, RendCheck,
       GetPage, GetNothing, GetTest, GetWait, Draw, Snapshot, Reclaim, Submit,
       FbRebuild, SpuriousWakeup, Exited, vars, mainVars
<1>2. /\ IsFiniteSet(snapshots) /\ IsFiniteSet(all)
      /\ Cardinality(all) = NPages + Cardinality(snapshots)
      /\ Cardinality(snapshots) \in Nat
  BY <1>1, FS_CardinalityType DEF PageCount
<1>3. snapshots \subseteq all
  BY DEF IInv, NoLeak
<1> USE NPagesAssumption
<1>4. CASE Snapshot
  <2>1. PICK new \in Page \ all : all' = all \union {new}
    BY <1>4 DEF Snapshot
  <2>2. snapshots' = snapshots \union {page} /\ page \notin snapshots
    BY <1>4 DEF Snapshot, IInv, Disjoint, Held
  <2>3. IsFiniteSet(all') /\ Cardinality(all') = Cardinality(all) + 1
    BY <1>2, <2>1, FS_AddElement
  <2>4. IsFiniteSet(snapshots') /\ Cardinality(snapshots') = Cardinality(snapshots) + 1
    BY <1>2, <2>2, FS_AddElement
  <2> QED
    BY <1>2, <2>3, <2>4 DEF PageCount
<1>5. CASE Reclaim
  <2>1. PICK p \in snapshots : snapshots' = snapshots \ {p} /\ all' = all \ {p}
    BY <1>5 DEF Reclaim, Freed
  <2>2. IsFiniteSet(all') /\ Cardinality(all') = Cardinality(all) - 1
    BY <1>2, <1>3, <2>1, FS_RemoveElement
  <2>3. IsFiniteSet(snapshots') /\ Cardinality(snapshots') = Cardinality(snapshots) - 1
    BY <1>2, <2>1, FS_RemoveElement
  <2> QED
    BY <1>2, <2>2, <2>3 DEF PageCount
<1>6. CASE Join
  <2>1. snapshots' = {} /\ all' = all \ snapshots /\ all \intersect snapshots = snapshots
    BY <1>3, <1>6 DEF Join, Freed
  <2>2. /\ IsFiniteSet(all \ snapshots)
        /\ Cardinality(all \ snapshots)
             = Cardinality(all) - Cardinality(all \intersect snapshots)
    BY <1>2, FS_Difference
  <2>3. IsFiniteSet(all') /\ Cardinality(all') = Cardinality(all) - Cardinality(snapshots)
    BY <2>1, <2>2
  <2> QED
    BY <1>2, <2>1, <2>3, FS_EmptySet DEF PageCount
<1>7. CASE ~(Snapshot \/ Reclaim \/ Join)
  <2>1. all' = all /\ snapshots' = snapshots
    BY <1>7 DEF Next, Main, Renderer, MainCheck, FlipWait, FlipTake, PageFlip,
       PageFlipFails, FlipRetire, FlipActivate, Halt, FbFree, RendCheck,
       GetPage, GetNothing, GetTest, GetWait, Draw, Submit, FbRebuild,
       SpuriousWakeup, Exited, vars, fbVars, mainVars, rendVars
  <2> QED
    BY <1>2, <2>1 DEF PageCount
<1> QED
  BY <1>4, <1>5, <1>6, <1>7

-----------------------------------------------------------------------------
\* Types, for any number of pages and of frames.
THEOREM TypeCorrect == Spec => []TypeOK
BY Invariance, PTL DEF IInv

\* A page is in one place at a time, whatever the two threads, the modules'
\* snapshots and failing flips do.
THEOREM OneOwnerCorrect == Spec => []OneOwner
<1>1. IInv => OneOwner
  <2> SUFFICES ASSUME IInv PROVE OneOwner
    OBVIOUS
  <2> DEFINE Place == <<ToSet(ready), ToSet(inactive), Flipping, Held, snapshots, lost>>
  <2>1. \A i, j \in 1 .. 6 : i # j => Place[i] \intersect Place[j] = {}
    <3>1. \A i, j \in 1 .. 6 : i < j => Place[i] \intersect Place[j] = {}
      <4> SUFFICES ASSUME NEW i \in 1 .. 6, NEW j \in 1 .. 6, i < j
                   PROVE  Place[i] \intersect Place[j] = {}
        OBVIOUS
      <4>1. CASE i = 1
        BY <4>1 DEF IInv, Disjoint
      <4>2. CASE i = 2
        BY <4>2 DEF IInv, Disjoint
      <4>3. CASE i \in {3, 4}
        BY <4>3 DEF IInv, Disjoint
      <4>4. CASE i = 5
        BY <4>4 DEF IInv, Disjoint
      <4> QED
        BY <4>1, <4>2, <4>3, <4>4
    <3> QED
      BY <3>1
  <2>2. DOMAIN Place = 1 .. 6
    OBVIOUS
  <2> QED
    BY <2>1, <2>2 DEF IInv, OneOwner
<1> QED
  BY <1>1, Invariance, PTL

\* No page leaks.
THEOREM NoLeakCorrect == Spec => []NoLeak
BY Invariance, PTL DEF IInv

\* The renderer never draws on the page that is, or is about to be, shown.
THEOREM NoTearingCorrect == Spec => []NoTearing
<1>1. IInv => NoTearing
  <2> SUFFICES ASSUME IInv, NEW p \in Held PROVE p \notin {visible, next}
    BY DEF NoTearing
  <2>1. p \notin Flipping /\ p # NoPage
    BY DEF IInv, Disjoint, RendererPage, Held
  <2> QED
    BY <2>1 DEF IInv, TypeOK, Screen, Flipping
<1> QED
  BY <1>1, Invariance, PTL

\* A page the renderer can be given was presented since it was last submitted,
\* so til_fb_page_get() never aborts on its assertion.
THEOREM DelayDefinedCorrect == Spec => []DelayDefined
<1>1. IInv => DelayDefined
  BY DEF IInv, DelayDefined, Unpresented, Disjoint, Flipping
<1> QED
  BY <1>1, Invariance, PTL

\* til_fb_free() finds as many pages as til_fb_new() made.
THEOREM FreesAllPagesCorrect == Spec => []FreesAllPages
<1>1. IInv /\ PageCount => FreesAllPages
  BY FS_EmptySet, NPagesAssumption DEF IInv, RendererPage, PageCount, FreesAllPages
<1> QED
  BY <1>1, Invariance, InitPageCount, StepPageCount, PTL DEF Spec

\* A page is rebuilt only while neither the renderer, nor the ready queue, nor
\* the screen has it.
THEOREM RebuildsOnlyIdleCorrect == Spec => RebuildsOnlyIdle
<1> DEFINE Idle(p) == p \notin Held \union {visible, next} \union ToSet(ready)
                                 \union snapshots
           A == \A p \in (stale \ stale') \intersect all' : Idle(p)
<1>1. IInv /\ [Next]_vars => [A]_vars
  <2> SUFFICES ASSUME IInv, Next, NEW p \in stale \ stale', p \in all'
               PROVE  Idle(p)
    OBVIOUS
  <2>1. CASE FlipRetire
    <3>1. p \in Rebuilt(Retired)
      BY <2>1 DEF FlipRetire
    <3>2. active \in Page /\ mainPc = "retire"
      BY <2>1 DEF FlipRetire, IInv, Screen, TypeOK
    <3>3. p \in ToSet(inactive) \union {active}
      BY <3>1, <3>2, ConsPage, RebuiltInactive DEF Retired, IInv, TypeOK
    <3>4. Flipping = {active, next} /\ visible = next /\ active # next
      BY <3>2 DEF Flipping, IInv, Screen
    <3> QED
      BY <3>3, <3>4 DEF IInv, Disjoint
  <2>2. CASE Snapshot
    <3>1. p \notin all
      BY <2>2 DEF Snapshot
    <3>2. visible \in Flipping /\ next \in Flipping \union {NoPage}
      BY <2>2, PageAssumption
      DEF Snapshot, IInv, Screen, RendererPage, TypeOK, Flipping
    <3> QED
      BY <3>1, <3>2, PageAssumption DEF IInv, NoLeak, TypeOK
  <2>3. CASE ~(FlipRetire \/ Snapshot)
    <3>1. stale \ stale' = {} \/ Reclaim \/ Join \/ FbFree \/ FbRebuild
      BY <2>3 DEF Next, Main, Renderer, MainCheck, FlipWait, FlipTake, PageFlip,
         PageFlipFails, FlipActivate, Halt, RendCheck, GetPage, GetNothing,
         GetTest, GetWait, Draw, Submit, SpuriousWakeup, Exited, vars, ghostVars
    <3> QED
      BY <3>1 DEF Reclaim, Join, FbFree, FbRebuild, Freed
  <2> QED
    BY <2>1, <2>2, <2>3
<1> QED
  BY <1>1, Invariance, PTL DEF Spec, RebuildsOnlyIdle

-----------------------------------------------------------------------------
(***************************************************************************)
(* The page queue implements the frame queue, for any number of pages and  *)
(* frames: pages move between the lists and the threads, and are drawn on, *)
(* without a frame that waits to be shown, or is shown, ever changing.     *)
(***************************************************************************)

\* The page the renderer is about to submit holds the frame it is at.
DrawnFrame == rendPc = "drawn" => content[page] = frame

ReadyFrames == [i \in DOMAIN ready |-> content[ready[i]]]

-----------------------------------------------------------------------------
LEMMA InitDrawnFrame == Init => DrawnFrame
BY DEF Init, DrawnFrame

LEMMA StepDrawnFrame == IInv /\ DrawnFrame /\ [Next]_vars => DrawnFrame'
<1> SUFFICES ASSUME IInv, DrawnFrame, [Next]_vars, rendPc' = "drawn"
             PROVE  content'[page'] = frame'
  BY DEF DrawnFrame
<1>1. CASE Draw
  <2>1. page \in Page
    BY <1>1, PageAssumption DEF Draw, IInv, TypeOK, RendererPage
  <2> QED
    BY <1>1, <2>1 DEF Draw, IInv, TypeOK
<1>2. CASE Snapshot
  BY <1>2 DEF Snapshot, DrawnFrame, IInv, TypeOK
<1>3. CASE ~(Draw \/ Snapshot)
  <2>1. rendPc = "drawn" /\ UNCHANGED <<content, page, frame>>
    BY <1>3 DEF Next, Main, Renderer, MainCheck, FlipWait, FlipTake, PageFlip,
       PageFlipFails, FlipRetire, FlipActivate, Halt, Join, FbFree, RendCheck,
       GetPage, GetNothing, GetTest, GetWait, Reclaim, Submit, FbRebuild,
       SpuriousWakeup, Exited, RendSignalled, vars, fbVars, mainVars, rendVars
  <2> QED
    BY <2>1 DEF DrawnFrame
<1> QED
  BY <1>1, <1>2, <1>3

\* Two sequences as long as each other, and equal at every index, are equal.
LEMMA SameSequence ==
  ASSUME NEW S, NEW s \in Seq(S), NEW t \in Seq(S), Len(s) = Len(t),
         \A i \in 1 .. Len(s) : s[i] = t[i]
  PROVE  s = t
OBVIOUS

\* Appending to the second of two sequences is appending to both.
LEMMA ConcatAppend ==
  ASSUME NEW S, NEW s \in Seq(S), NEW t \in Seq(S), NEW e \in S
  PROVE  s \o Append(t, e) = Append(s \o t, e)
<1> DEFINE a == s \o Append(t, e)
           b == Append(s \o t, e)
           n == Len(s) + Len(t) + 1
<1>1. /\ a \in Seq(S) /\ b \in Seq(S)
      /\ Len(a) = n /\ Len(b) = n
      /\ Len(s) \in Nat /\ Len(t) \in Nat
  OBVIOUS
<1>2. ASSUME NEW i \in 1 .. n
      PROVE  a[i] = b[i]
  <2>1. CASE i <= Len(s)
    BY <1>1, <2>1
  <2>2. CASE i > Len(s) /\ i < n
    <3>1. a[i] = Append(t, e)[i - Len(s)]
      BY <1>1, <2>2
    <3>2. Append(t, e)[i - Len(s)] = t[i - Len(s)]
      BY <1>1, <2>2
    <3>3. b[i] = (s \o t)[i]
      BY <1>1, <2>2
    <3>4. (s \o t)[i] = t[i - Len(s)]
      BY <1>1, <2>2
    <3> QED
      BY <3>1, <3>2, <3>3, <3>4
  <2>3. CASE i = n
    <3>1. a[i] = Append(t, e)[Len(t) + 1]
      BY <1>1, <2>3
    <3>2. Append(t, e)[Len(t) + 1] = e
      BY <1>1
    <3>3. b[i] = e
      BY <1>1, <2>3
    <3> QED
      BY <3>1, <3>2, <3>3
  <2> QED
    BY <1>1, <2>1, <2>2, <2>3
<1> HIDE DEF a, b
<1>3. a = b
  BY <1>1, <1>2, SameSequence
<1> QED
  BY <1>3 DEF a, b

\* The frames of the ready pages are a sequence of frames.
LEMMA ReadyFramesType ==
  ASSUME TypeOK
  PROVE  /\ ReadyFrames \in Seq(Frame)
         /\ Len(ReadyFrames) = Len(ready)
         /\ DOMAIN ready = 1 .. Len(ready)
         /\ Len(ready) \in Nat
         /\ \A i \in 1 .. Len(ready) : ReadyFrames[i] = content[ready[i]]
BY DEF TypeOK, ReadyFrames

LEMMA QueueType ==
  ASSUME IInv
  PROVE  /\ FlippedTo \in Seq(Frame)
         /\ Queue = FlippedTo \o ReadyFrames
         /\ Queue \in Seq(Frame)
         /\ Len(Queue) = Len(FlippedTo) + Len(ready)
<1> USE PageAssumption
<1>1. FlippedTo \in Seq(Frame)
  <2>1. CASE mainPc = "flip"
    <3>1. content[next] \in Frame
      BY <2>1 DEF IInv, TypeOK, Screen
    <3> QED
      BY <2>1, <3>1 DEF FlippedTo
  <2>2. CASE mainPc # "flip"
    <3>1. <<>> \in Seq(Frame)
      OBVIOUS
    <3> QED
      BY <2>2, <3>1 DEF FlippedTo
  <2> QED
    BY <2>1, <2>2
<1>2. Queue = FlippedTo \o ReadyFrames
  BY DEF Queue, ReadyFrames
<1>3. ReadyFrames \in Seq(Frame) /\ Len(ReadyFrames) = Len(ready)
  BY ReadyFramesType DEF IInv
<1>4. /\ FlippedTo \o ReadyFrames \in Seq(Frame)
      /\ Len(FlippedTo \o ReadyFrames) = Len(FlippedTo) + Len(ReadyFrames)
  BY <1>1, <1>3
<1> QED
  BY <1>1, <1>2, <1>3, <1>4

\* A list holds as many pages as it is long.
LEMMA ListLength ==
  ASSUME NEW s \in Seq(Page), IsInjective(s)
  PROVE  IsFiniteSet(ToSet(s)) /\ Cardinality(ToSet(s)) = Len(s)
<1>1. s \in [1 .. Len(s) -> ToSet(s)] /\ Len(s) \in Nat
  BY DEF ToSet
<1>4. /\ DOMAIN s = 1 .. Len(s)
      /\ \A i, j \in 1 .. Len(s) : s[i] = s[j] => i = j
      /\ \A p \in ToSet(s) : \E i \in 1 .. Len(s) : s[i] = p
  BY DEF IsInjective, ToSet
<1>5. s \in Injection(1 .. Len(s), ToSet(s))
  BY <1>1, <1>4 DEF Injection, IsInjective
<1>6. s \in Surjection(1 .. Len(s), ToSet(s))
  BY <1>1, <1>4 DEF Surjection
<1>2. s \in Bijection(1 .. Len(s), ToSet(s))
  BY <1>5, <1>6 DEF Bijection
<1>3. IsFiniteSet(1 .. Len(s)) /\ Cardinality(1 .. Len(s)) = Len(s)
  <2> DEFINE n == Len(s)
  <2>1. n \in Nat
    OBVIOUS
  <2> HIDE DEF n
  <2>2. IsFiniteSet(1 .. n) /\ Cardinality(1 .. n) = n
    BY <2>1, FS_Interval
  <2> QED
    BY <2>2 DEF n
<1> QED
  BY <1>2, <1>3, FS_Bijection DEF ExistsBijection

\* With a page on the screen and one with the renderer, the queue has room.
LEMMA QueueRoom ==
  ASSUME IInv, PageCount, rendPc \in {"render", "drawn"}
  PROVE  Len(Queue) < NPages - 1
<1> USE NPagesAssumption
<1>1. mainPc \notin {"free", "done"} /\ active # NoPage /\ page \in Held
  BY DEF IInv, Screen, RendererPage, Held
<1> DEFINE S == ToSet(ready)
           Mine == all \ snapshots
<1>2. /\ IsFiniteSet(S) /\ Cardinality(S) = Len(ready) /\ Len(ready) \in Nat
  BY ListLength DEF IInv, TypeOK
<1>3. /\ IsFiniteSet(Mine)
      /\ Cardinality(Mine) = NPages
  <2>1. snapshots \subseteq all
    BY DEF IInv, NoLeak
  <2>2. all \intersect snapshots = snapshots
    BY <2>1
  <2>3. /\ IsFiniteSet(all \ snapshots)
        /\ Cardinality(all \ snapshots)
             = Cardinality(all) - Cardinality(all \intersect snapshots)
    BY <1>1, FS_Difference DEF PageCount
  <2>4. Cardinality(snapshots) \in Nat
    BY <1>1, FS_CardinalityType DEF PageCount
  <2>5. Cardinality(all \ snapshots) = Cardinality(all) - Cardinality(snapshots)
    BY <2>2, <2>3
  <2>6. Cardinality(all) = NPages + Cardinality(snapshots)
    BY <1>1 DEF PageCount
  <2> QED
    BY <2>3, <2>4, <2>5, <2>6
<1>4. S \union Flipping \union Held \subseteq Mine
  BY DEF IInv, NoLeak, Disjoint
<1>5. CASE mainPc = "flip"
  <2>1. /\ active \in Flipping /\ next \in Flipping /\ active # next
        /\ active \notin S /\ next \notin S \union {active}
        /\ page \notin S \union {active} \union {next}
    BY <1>1, <1>5 DEF IInv, Screen, Disjoint, Flipping
  <2> DEFINE S1 == S \union {active}
             S2 == S1 \union {next}
             S3 == S2 \union {page}
  <2>2. IsFiniteSet(S1) /\ Cardinality(S1) = Len(ready) + 1
    BY <1>2, <2>1, FS_AddElement
  <2>7. S3 \in SUBSET Mine
    BY <1>1, <1>4, <2>1
  <2>8. next \notin S1
    BY <2>1
  <2>9. page \notin S2
    BY <2>1
  <2> HIDE DEF S1
  <2>3. IsFiniteSet(S2) /\ Cardinality(S2) = Cardinality(S1) + 1
    BY <2>2, <2>8, FS_AddElement
  <2> HIDE DEF S2
  <2>4. IsFiniteSet(S3) /\ Cardinality(S3) = Cardinality(S2) + 1
    BY <2>3, <2>9, FS_AddElement
  <2> HIDE DEF S3
  <2>5. Cardinality(S3) <= NPages
    BY <1>3, <2>7, FS_Subset
  <2>6. Len(ready) + 3 <= NPages
    BY <1>2, <2>2, <2>3, <2>4, <2>5
  <2>10. Len(Queue) = Len(ready) + 1
    <3>1. Len(FlippedTo) = 1
      BY <1>5 DEF FlippedTo
    <3> QED
      BY <1>2, <3>1, QueueType
  <2> QED
    BY <1>2, <2>6, <2>10
<1>6. CASE mainPc # "flip"
  <2>1. PICK p \in Flipping : p \notin S /\ page \notin S \union {p}
    BY <1>1, <1>6 DEF IInv, Disjoint, Flipping
  <2> DEFINE S1 == S \union {p}
             S2 == S1 \union {page}
  <2>2. IsFiniteSet(S1) /\ Cardinality(S1) = Len(ready) + 1
    BY <1>2, <2>1, FS_AddElement
  <2>7. S2 \in SUBSET Mine
    BY <1>1, <1>4, <2>1
  <2>8. page \notin S1
    BY <2>1
  <2> HIDE DEF S1
  <2>3. IsFiniteSet(S2) /\ Cardinality(S2) = Cardinality(S1) + 1
    BY <2>2, <2>8, FS_AddElement
  <2> HIDE DEF S2
  <2>4. Cardinality(S2) <= NPages
    BY <1>3, <2>7, FS_Subset
  <2>5. Len(ready) + 2 <= NPages
    BY <1>2, <2>2, <2>3, <2>4
  <2>6. Len(Queue) = Len(ready)
    <3>1. Len(FlippedTo) = 0
      BY <1>6 DEF FlippedTo
    <3> QED
      BY <1>2, <3>1, QueueType
  <2> QED
    BY <1>2, <2>5, <2>6
<1> QED
  BY <1>5, <1>6

-----------------------------------------------------------------------------
(* The steps, as steps of the frame queue. *)

\* A step that leaves the ready list alone, and the contents of its pages,
\* leaves their frames alone.
LEMMA SameReadyFrames ==
  ASSUME IInv, ready' = ready,
         \A p \in ToSet(ready) : content'[p] = content[p]
  PROVE  ReadyFrames' = ReadyFrames
BY DEF ReadyFrames, ToSet, IInv, TypeOK

\* Which steps those are: all but FlipTake, Submit and FbFree.  Only pages
\* that are with the renderer, or nowhere, are drawn on.
LEMMA OnlyOwnPagesDrawn ==
  ASSUME IInv, [Next]_vars
  PROVE  \A p \in ToSet(ready) \union Flipping \union {visible} :
            p # NoPage => content'[p] = content[p]
<1> SUFFICES ASSUME NEW p \in ToSet(ready) \union Flipping \union {visible},
                    p # NoPage
             PROVE  content'[p] = content[p]
  OBVIOUS
<1> USE PageAssumption
<1>1. /\ p \in Page
      /\ p \in all
      /\ p \notin Held
  <2>1. p \in ToSet(ready) \union Flipping
    BY DEF IInv, Screen, Flipping, TypeOK
  <2>2. Flipping \union ToSet(ready) \subseteq all /\ all \subseteq Page
    BY DEF IInv, NoLeak, TypeOK
  <2> QED
    BY <2>1, <2>2 DEF IInv, Disjoint
<1>2. CASE Draw
  <2>1. p # page
    BY <1>1, <1>2 DEF Draw, Held
  <2> QED
    BY <1>1, <1>2, <2>1 DEF Draw, IInv, TypeOK
<1>3. CASE Snapshot
  BY <1>1, <1>3 DEF Snapshot, IInv, TypeOK
<1>4. CASE ~(Draw \/ Snapshot)
  BY <1>4 DEF Next, Main, Renderer, MainCheck, FlipWait, FlipTake, PageFlip,
     PageFlipFails, FlipRetire, FlipActivate, Halt, Join, FbFree, RendCheck,
     GetPage, GetNothing, GetTest, GetWait, Reclaim, Submit, FbRebuild,
     SpuriousWakeup, Exited, vars, fbVars, mainVars, rendVars
<1> QED
  BY <1>2, <1>3, <1>4

LEMMA InitQueue == Init => FQ!Init
<1> SUFFICES ASSUME Init PROVE FQ!Init
  OBVIOUS
<1> USE PageAssumption, NFramesAssumption
<1>1. ready = <<>> /\ mainPc = "check" /\ visible = active /\ active \in Page
      /\ frame = 0 /\ content = [p \in Page |-> NFrames - 1]
  BY DEF Init
<1>2. Queue = <<>>
  <2>1. FlippedTo = <<>>
    BY <1>1 DEF FlippedTo
  <2>2. [i \in DOMAIN ready |-> content[ready[i]]] = <<>>
    BY <1>1
  <2> QED
    BY <2>1, <2>2 DEF Queue
<1>3. Shown = NFrames - 1 /\ Open
  BY <1>1 DEF Shown, Open
<1> QED
  BY <1>1, <1>2, <1>3 DEF FQ!Init

LEMMA StepQueue ==
  ASSUME IInv, PageCount, DrawnFrame, [Next]_vars
  PROVE  [FQ!Next]_(FQ!vars)
<1> USE PageAssumption, NFramesAssumption
<1>1. /\ FlippedTo \in Seq(Frame)
      /\ ReadyFrames \in Seq(Frame)
      /\ Queue = FlippedTo \o ReadyFrames
      /\ IInv'
      /\ Queue' = FlippedTo' \o ReadyFrames'
  <2>1. IInv'
    BY StepIInv
  <2>2. Queue' = FlippedTo' \o ReadyFrames'
    BY DEF Queue, ReadyFrames
  <2> QED
    BY <2>1, <2>2, QueueType, ReadyFramesType DEF IInv
<1>2. CASE Submit
  <2>1. /\ rendPc = "drawn" /\ page \in Page /\ content[page] = frame
        /\ ready' = Append(ready, page)
        /\ frame' = (frame + 1) % NFrames
        /\ UNCHANGED <<content, next, visible>>
        /\ mainPc' = mainPc \/ (mainPc = "wait" /\ mainPc' = "take")
    BY <1>2 DEF Submit, Queued, MainSignalled, IInv, RendererPage, TypeOK, DrawnFrame
  <2>2. ReadyFrames' = Append(ReadyFrames, frame)
    <3>1. /\ DOMAIN ready' = 1 .. Len(ready) + 1
          /\ Len(ready) \in Nat
          /\ \A i \in 1 .. Len(ready) : ready'[i] = ready[i]
          /\ ready'[Len(ready) + 1] = page
      BY <2>1 DEF IInv, TypeOK
    <3>2. /\ Append(ReadyFrames, frame) \in Seq(Frame)
          /\ Len(Append(ReadyFrames, frame)) = Len(ready) + 1
          /\ \A i \in 1 .. Len(ready) : Append(ReadyFrames, frame)[i] = content[ready[i]]
          /\ Append(ReadyFrames, frame)[Len(ready) + 1] = frame
      BY ReadyFramesType DEF IInv, TypeOK
    <3>3. \A i \in 1 .. Len(ready) + 1 :
             Append(ReadyFrames, frame)[i] = content'[ready'[i]]
      BY <2>1, <3>1, <3>2
    <3> QED
      BY <3>1, <3>2, <3>3 DEF ReadyFrames
  <2>3. FlippedTo' = FlippedTo /\ Shown' = Shown /\ Open' = Open
    BY <2>1 DEF FlippedTo, Shown, Open
  <2>4. Queue' = Append(Queue, frame)
    <3>1. frame \in Frame
      BY DEF IInv, TypeOK
    <3>2. FlippedTo \o Append(ReadyFrames, frame)
            = Append(FlippedTo \o ReadyFrames, frame)
      BY <1>1, <3>1, ConcatAppend
    <3> QED
      BY <1>1, <2>2, <2>3, <3>2
  <2>5. Len(Queue) < NPages - 1
    BY <2>1, QueueRoom
  <2> QED
    BY <2>1, <2>3, <2>4, <2>5 DEF FQ!Next, FQ!Submit
<1>3. CASE FlipTake
  <2>1. /\ mainPc = "take" /\ mainPc' = "flip" /\ ready # <<>>
        /\ next' = Head(ready) /\ ready' = Tail(ready)
        /\ UNCHANGED <<content, frame, visible>>
    BY <1>3 DEF FlipTake, rendVars
  <2>2. FlippedTo = <<>> /\ FlippedTo' = <<content[ready[1]]>>
    BY <2>1 DEF FlippedTo
  <2>3. /\ Len(ReadyFrames) \in Nat \ {0}
        /\ ReadyFrames[1] = content[ready[1]]
    <3>1. Len(ready) \in Nat \ {0}
      BY <2>1 DEF IInv, TypeOK
    <3> QED
      BY <3>1, ReadyFramesType DEF IInv
  <2>4. ReadyFrames' = Tail(ReadyFrames)
    <3>1. /\ DOMAIN ready' = 1 .. Len(ready) - 1
          /\ Len(ready) \in Nat \ {0}
          /\ \A i \in 1 .. Len(ready) - 1 : ready'[i] = ready[i + 1]
      BY <2>1 DEF IInv, TypeOK
    <3>2. /\ Tail(ReadyFrames) \in Seq(Frame)
          /\ Len(Tail(ReadyFrames)) = Len(ready) - 1
          /\ \A i \in 1 .. Len(ready) - 1 : Tail(ReadyFrames)[i] = ReadyFrames[i + 1]
      BY <1>1, <2>3, ReadyFramesType DEF IInv
    <3>3. \A i \in 1 .. Len(ready) - 1 : ReadyFrames[i + 1] = content[ready[i + 1]]
      BY <3>1, ReadyFramesType DEF IInv
    <3>4. \A i \in 1 .. Len(ready) - 1 : Tail(ReadyFrames)[i] = content'[ready'[i]]
      BY <2>1, <3>1, <3>2, <3>3
    <3>5. /\ ReadyFrames' \in Seq(Frame)
          /\ Len(ReadyFrames') = Len(ready) - 1
          /\ \A i \in 1 .. Len(ready) - 1 : ReadyFrames'[i] = content'[ready'[i]]
      <4>1. ReadyFrames' = [i \in 1 .. Len(ready) - 1 |-> content'[ready'[i]]]
        BY <3>1 DEF ReadyFrames
      <4>2. \A i \in 1 .. Len(ready) - 1 : content'[ready'[i]] \in Frame
        BY <3>2, <3>4
      <4>3. Len(ready) - 1 \in Nat
        BY <3>1
      <4> QED
        BY <4>1, <4>2, <4>3
    <3> HIDE DEF ReadyFrames
    <3> QED
      BY <3>2, <3>4, <3>5, SameSequence
  <2>5. Queue' = Queue
    <3>1. ReadyFrames = <<ReadyFrames[1]>> \o Tail(ReadyFrames)
      BY <1>1, <2>3
    <3>2. <<>> \o ReadyFrames = ReadyFrames
      BY <1>1
    <3> QED
      BY <1>1, <2>2, <2>3, <2>4, <3>1, <3>2
  <2>6. Shown' = Shown /\ Open' = Open
    BY <2>1 DEF Shown, Open
  <2> QED
    BY <2>1, <2>5, <2>6 DEF FQ!vars
<1>4. CASE FbFree
  <2>1. /\ mainPc = "free" /\ mainPc' = "done" /\ ready' = <<>> /\ visible' = NoPage
        /\ UNCHANGED frame
    BY <1>4 DEF FbFree, rendVars
  <2>2. ReadyFrames' = <<>>
    BY <2>1 DEF ReadyFrames
  <2>3. FlippedTo' = <<>> /\ Shown' = NFrames /\ ~Open /\ Open' = Open
    BY <2>1 DEF FlippedTo, Shown, Open
  <2> QED
    BY <1>1, <2>1, <2>2, <2>3 DEF FQ!Next, FQ!Free
<1>5. CASE ~(Submit \/ FlipTake \/ FbFree)
  <2>1. /\ ready' = ready /\ frame' = frame
        /\ ReadyFrames' = ReadyFrames
    <3>1. ready' = ready /\ frame' = frame
      BY <1>5 DEF Next, Main, Renderer, MainCheck, FlipWait, PageFlip,
         PageFlipFails, FlipRetire, FlipActivate, Halt, Join, RendCheck,
         GetPage, GetNothing, GetTest, GetWait, Draw, Snapshot, Reclaim,
         FbRebuild, SpuriousWakeup, Exited, vars, fbVars, mainVars, rendVars
    <3>2. \A p \in ToSet(ready) : content'[p] = content[p]
      BY OnlyOwnPagesDrawn DEF ToSet, IInv, TypeOK
    <3> QED
      BY <3>1, <3>2, SameReadyFrames
  <2>2. CASE PageFlip \/ PageFlipFails
    <3>1. /\ FlippedTo = <<content[next]>> /\ FlippedTo' = <<>>
          /\ Open /\ next \in Page /\ content' = content
          /\ content[next] \in Frame
      BY <2>2 DEF PageFlip, PageFlipFails, FlippedTo, Open, IInv, Screen, TypeOK, rendVars
    <3>2. Queue' = ReadyFrames
      BY <1>1, <2>1, <3>1
    <3>3. Queue # <<>> /\ Head(Queue) = content[next] /\ Tail(Queue) = ReadyFrames
      BY <1>1, <3>1
    <3>4. CASE PageFlip
      <4>1. visible' = next /\ mainPc' = "retire"
        BY <3>4 DEF PageFlip
      <4>2. Shown' = content[next] /\ Open' = Open
        BY <3>1, <4>1 DEF Shown, Open
      <4> QED
        BY <2>1, <3>1, <3>2, <3>3, <4>2 DEF FQ!Next, FQ!Show
    <3>5. CASE PageFlipFails
      <4>1. visible' = visible /\ mainPc' = "halt"
        BY <3>5 DEF PageFlipFails
      <4>2. Shown' = Shown /\ Open' = FALSE
        BY <3>1, <4>1 DEF Shown, Open
      <4> QED
        BY <2>1, <3>1, <3>2, <3>3, <4>2 DEF FQ!Next, FQ!Close
    <3> QED
      BY <2>2, <3>4, <3>5
  <2>3. CASE ~(PageFlip \/ PageFlipFails)
    <3>1. /\ visible' = visible
          /\ mainPc = "flip" <=> mainPc' = "flip"
          /\ mainPc = "flip" => next' = next
          /\ Open' = Open \/ (Open /\ Open' = FALSE)
      <4>1. CASE MainCheck \/ FlipWait \/ FlipRetire \/ FlipActivate \/ Halt \/ Join
        <5>1. visible' = visible /\ mainPc # "flip" /\ mainPc' # "flip"
          BY <4>1 DEF MainCheck, FlipWait, FlipRetire, FlipActivate, Halt, Join,
             rendVars
        <5>2. Open' = Open \/ (Open /\ Open' = FALSE)
          <6>1. CASE Open
            BY <6>1 DEF Open
          <6>2. CASE ~Open
            BY <4>1, <6>2 DEF Open, MainCheck, FlipWait, FlipRetire, FlipActivate,
               Halt, Join
          <6> QED
            BY <6>1, <6>2
        <5> QED
          BY <5>1, <5>2
      <4>2. CASE SpuriousWakeup
        BY <4>2 DEF SpuriousWakeup, Open
      <4>3. CASE Renderer \/ FbRebuild \/ Exited \/ UNCHANGED vars
        <5>1. visible' = visible /\ mainPc' = mainPc /\ next' = next
          BY <1>5, <4>3 DEF Renderer, RendCheck, GetPage, GetNothing, GetTest,
             GetWait, Draw, Snapshot, Reclaim, FbRebuild, Exited, vars, mainVars
        <5> QED
          BY <5>1 DEF Open
      <4> QED
        BY <1>5, <2>3, <4>1, <4>2, <4>3 DEF Next, Main
    <3>2. Shown' = Shown
      <4>1. visible # NoPage => content'[visible] = content[visible]
        BY OnlyOwnPagesDrawn
      <4> QED
        BY <3>1, <4>1 DEF Shown
    <3>3. FlippedTo' = FlippedTo
      <4>1. mainPc = "flip" => content'[next] = content[next]
        BY OnlyOwnPagesDrawn DEF Flipping, IInv, Screen
      <4> QED
        BY <3>1, <4>1 DEF FlippedTo
    <3>4. Queue' = Queue
      BY <1>1, <2>1, <3>3
    <3> QED
      BY <2>1, <3>1, <3>2, <3>4 DEF FQ!Next, FQ!Close, FQ!vars
  <2> QED
    BY <2>2, <2>3
<1> QED
  BY <1>2, <1>3, <1>4, <1>5

\* Every behaviour of the two threads is one of the frame queue: the screen
\* shows the frames in the order they were submitted, each of them once.
THEOREM ShowsInOrderCorrect == Spec => ShowsInOrder
<1>1. Spec => [](IInv /\ PageCount /\ DrawnFrame)
  BY Invariance, InitPageCount, StepPageCount, InitDrawnFrame, StepDrawnFrame, PTL
  DEF Spec
<1>2. IInv /\ PageCount /\ DrawnFrame /\ [Next]_vars => [FQ!Next]_(FQ!vars)
  BY StepQueue
<1> QED
  BY <1>1, <1>2, InitQueue, PTL DEF Spec, ShowsInOrder, FQ!Spec

-----------------------------------------------------------------------------
\* The frame after f.
Succ(f) == (f + 1) % NFrames

\* The inductive invariant of the frame queue: FQ!Consecutive without the sequence it speaks of.
QueueIInv ==
  /\ FQ!TypeOK
  /\ Open =>
       /\ Shown \in Frame
       /\ IF Queue = <<>>
            THEN frame = Succ(Shown)
            ELSE /\ Queue[1] = Succ(Shown)
                 /\ \A i \in 1 .. Len(Queue) - 1 : Queue[i + 1] = Succ(Queue[i])
                 /\ frame = Succ(Queue[Len(Queue)])

LEMMA SuccFrame ==
  \A f \in Frame : Succ(f) \in Frame
BY NFramesAssumption DEF Succ, Frame

LEMMA InitQueueIInv ==
  ASSUME FQ!Init
  PROVE  QueueIInv
<1> USE NFramesAssumption, NPagesAssumption
<1>1. (NFrames - 1 + 1) % NFrames = 0
  OBVIOUS
<1>2. FQ!TypeOK
  <2>1. <<>> \in Seq(0 .. NFrames - 1)
    OBVIOUS
  <2>2. Open \in BOOLEAN
    BY Zenon DEF FQ!Init
  <2> QED
    BY <2>1, <2>2 DEF FQ!Init, FQ!TypeOK
<1> QED
  BY <1>1, <1>2 DEF FQ!Init, QueueIInv, Succ, Frame

LEMMA StepQueueIInv ==
  ASSUME QueueIInv, [FQ!Next]_(FQ!vars)
  PROVE  QueueIInv'
<1> USE NFramesAssumption, NPagesAssumption DEF QueueIInv
<1>1. CASE FQ!Submit
  <2>1. /\ Len(Queue') = Len(Queue) + 1
        /\ \A i \in 1 .. Len(Queue) : Queue'[i] = Queue[i]
        /\ Queue'[Len(Queue) + 1] = frame
        /\ Queue' \in Seq(Frame)
        /\ Len(Queue) \in Nat
        /\ Queue' # <<>>
    BY <1>1 DEF FQ!Submit, FQ!TypeOK, Frame
  <2>2. frame' = Succ(frame) /\ frame' \in Frame /\ UNCHANGED <<Shown, Open>>
    BY <1>1, SuccFrame DEF FQ!Submit, Succ, FQ!TypeOK, Frame
  <2>3. FQ!TypeOK'
    BY <1>1, <2>1, <2>2 DEF FQ!Submit, FQ!TypeOK, Frame
  <2>4. CASE Queue = <<>>
    <3>1. Len(Queue) = 0
      BY <2>4
    <3>2. Queue'[1] = frame /\ Len(Queue') = 1
      BY <2>1, <3>1
    <3> QED
      BY <2>1, <2>2, <2>3, <2>4, <3>2
  <2>5. CASE Queue # <<>>
    <3>1. Len(Queue) \in Nat \ {0} /\ Queue'[1] = Queue[1]
      BY <2>1, <2>5 DEF FQ!TypeOK
    <3>2. ASSUME Open, NEW i \in 1 .. Len(Queue') - 1
          PROVE  Queue'[i + 1] = Succ(Queue'[i])
      <4>1. CASE i = Len(Queue)
        BY <2>1, <2>5, <3>2, <4>1
      <4>2. CASE i # Len(Queue)
        <5>1. i \in 1 .. Len(Queue) - 1
          BY <2>1, <3>1, <3>2, <4>2
        <5>2. Queue'[i] = Queue[i] /\ Queue'[i + 1] = Queue[i + 1]
          BY <2>1, <5>1
        <5> QED
          BY <2>5, <3>2, <5>1, <5>2
      <4> QED
        BY <4>1, <4>2
    <3> QED
      BY <2>1, <2>2, <2>3, <2>5, <3>1, <3>2
  <2> QED
    BY <2>4, <2>5
<1>2. CASE FQ!Show
  <2>1. /\ Len(Queue) \in Nat \ {0}
        /\ Shown' = Queue[1]
        /\ Queue' = Tail(Queue)
        /\ Len(Queue') = Len(Queue) - 1
        /\ \A i \in 1 .. Len(Queue) - 1 : Queue'[i] = Queue[i + 1]
        /\ Queue' \in Seq(Frame)
        /\ Shown' \in Frame
        /\ UNCHANGED <<frame, Open>>
        /\ Open
    BY <1>2 DEF FQ!Show, FQ!TypeOK, Frame
  <2>2. FQ!TypeOK'
    BY <2>1 DEF FQ!TypeOK, Frame
  <2>3. CASE Len(Queue) = 1
    <3>1. Queue' = <<>>
      BY <2>1, <2>3
    <3> QED
      BY <1>2, <2>1, <2>2, <2>3, <3>1 DEF FQ!Show
  <2>4. CASE Len(Queue) > 1
    <3>1. Queue' # <<>> /\ Queue'[1] = Queue[2] /\ Queue[2] = Succ(Queue[1])
      <4>1. 1 \in 1 .. Len(Queue) - 1 /\ 1 + 1 = 2
        BY <2>1, <2>4
      <4>2. Queue'[1] = Queue[2]
        BY <2>1, <4>1
      <4>3. Queue[2] = Succ(Queue[1])
        BY <1>2, <2>1, <4>1 DEF FQ!Show
      <4>4. Queue' # <<>>
        <5>1. Len(Queue') > 0
          BY <2>1, <2>4
        <5> QED
          BY <5>1
      <4> QED
        BY <4>2, <4>3, <4>4
    <3>2. ASSUME NEW i \in 1 .. Len(Queue') - 1
          PROVE  Queue'[i + 1] = Succ(Queue'[i])
      <4>1. /\ i \in 1 .. Len(Queue) - 1 /\ i + 1 \in 1 .. Len(Queue) - 1
        BY <2>1, <3>2
      <4>2. Queue'[i] = Queue[i + 1] /\ Queue'[i + 1] = Queue[i + 1 + 1]
        BY <2>1, <4>1
      <4> QED
        BY <1>2, <4>1, <4>2 DEF FQ!Show
    <3>3. Queue'[Len(Queue')] = Queue[Len(Queue)]
      BY <2>1, <2>4
    <3> QED
      BY <1>2, <2>1, <2>2, <3>1, <3>2, <3>3 DEF FQ!Show
  <2> QED
    BY <2>1, <2>3, <2>4
<1>3. CASE FQ!Close
  <2>1. Queue' \in Seq(Frame) /\ Len(Queue') <= (NPages - 1)
    <3>1. CASE Queue # <<>> /\ Queue' = Tail(Queue)
      <4>1. Tail(Queue) \in Seq(Frame) /\ Len(Tail(Queue)) = Len(Queue) - 1
        BY <3>1 DEF FQ!TypeOK, Frame
      <4> QED
        BY <3>1, <4>1 DEF FQ!TypeOK
    <3>2. CASE Queue' = Queue
      BY <3>2 DEF FQ!TypeOK, Frame
    <3> QED
      BY <1>3, <3>1, <3>2 DEF FQ!Close
  <2>2. Open' = FALSE /\ UNCHANGED <<Shown, frame>>
    BY <1>3 DEF FQ!Close
  <2> QED
    BY <2>1, <2>2 DEF FQ!TypeOK, Frame
<1>4. CASE FQ!Free
  <2>1. Queue' = <<>> /\ Shown' = NFrames /\ ~Open /\ UNCHANGED <<frame, Open>>
    BY <1>4 DEF FQ!Free
  <2>2. <<>> \in Seq(Frame) /\ Len(<<>>) = 0
    OBVIOUS
  <2> QED
    BY <2>1, <2>2 DEF FQ!TypeOK, Frame
<1>5. CASE UNCHANGED FQ!vars
  BY <1>5 DEF FQ!vars, FQ!TypeOK, Frame
<1> QED
  BY <1>1, <1>2, <1>3, <1>4, <1>5 DEF FQ!Next

\* The frames of the inductive invariant are those of FramesConsecutive.
LEMMA QueueIInvConsecutive == QueueIInv => FQ!Consecutive
<1> SUFFICES ASSUME QueueIInv, Open PROVE FQ!Consecutive
  BY DEF FQ!Consecutive
<1> DEFINE line == <<Shown>> \o Queue \o <<frame>>
<1>1. /\ Queue \in Seq(Frame) /\ Len(Queue) \in Nat
      /\ Shown \in Frame /\ frame \in Frame
  BY DEF QueueIInv, FQ!TypeOK, Frame
<1>2. /\ Len(line) = Len(Queue) + 2
      /\ line[1] = Shown
      /\ \A i \in 1 .. Len(Queue) : line[i + 1] = Queue[i]
      /\ line[Len(Queue) + 2] = frame
  BY <1>1
<1> HIDE DEF line
<1>3. ASSUME NEW i \in 1 .. Len(line) - 1 PROVE line[i + 1] = Succ(line[i])
  <2>1. CASE Queue = <<>>
    <3>1. Len(Queue) = 0 /\ i = 1
      BY <1>2, <1>3, <2>1
    <3> QED
      BY <1>2, <2>1, <3>1 DEF QueueIInv
  <2>2. CASE Queue # <<>>
    <3>1. Len(Queue) > 0
      BY <1>1, <2>2
    <3>2. CASE i = 1
      BY <1>2, <2>2, <3>1, <3>2 DEF QueueIInv
    <3>3. CASE i = Len(Queue) + 1
      <4>1. line[i] = Queue[Len(Queue)]
        BY <1>1, <1>2, <3>1, <3>3
      <4> QED
        BY <1>2, <2>2, <3>3, <4>1 DEF QueueIInv
    <3>4. CASE i # 1 /\ i # Len(Queue) + 1
      <4>1. i - 1 \in 1 .. Len(Queue) - 1
        BY <1>1, <1>2, <1>3, <3>4
      <4>2. line[i] = Queue[i - 1] /\ line[i + 1] = Queue[i - 1 + 1]
        BY <1>1, <1>2, <4>1
      <4> QED
        BY <2>2, <4>1, <4>2 DEF QueueIInv
    <3> QED
      BY <3>2, <3>3, <3>4
  <2> QED
    BY <2>1, <2>2
<1> QED
  BY <1>3 DEF FQ!Consecutive, Succ, line

\* While main() flips, no frame is skipped, repeated or reordered: what holds
\* of the frame queue holds of the page queue.
THEOREM FramesConsecutiveCorrect == Spec => []FramesConsecutive
<1>1. (FQ!Init => QueueIInv) /\ (QueueIInv /\ [FQ!Next]_(FQ!vars) => QueueIInv')
  BY InitQueueIInv, StepQueueIInv
<1>2. FQ!Spec => []QueueIInv
  BY <1>1, PTL DEF FQ!Spec
<1>3. FQ!Consecutive => FramesConsecutive
  BY DEF FramesConsecutive
<1> QED
  BY <1>2, <1>3, QueueIInvConsecutive, ShowsInOrderCorrect, PTL DEF ShowsInOrder
=============================================================================
