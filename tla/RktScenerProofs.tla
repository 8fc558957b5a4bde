-------------------------- MODULE RktScenerProofs --------------------------
(***************************************************************************)
(* What holds of rkt's scenes and their editor, for any number of scenes,  *)
(* of settings a scene needs and of contexts that cannot be created.       *)
(*                                                                         *)
(* The argument: a session negotiates exactly while its dialog is one of   *)
(* the three about a new scene's settings, and while it does the settings  *)
(* are hung into the scenes' settings exactly when it refinalizes.  So an  *)
(* entry is added once per scene, and the difference between entries and   *)
(* contexts is the one being negotiated and those that were cut off.       *)
(***************************************************************************)
EXTENDS RktScener, TLAPS, SequenceTheorems, FiniteSetTheorems, WellFoundedInduction

Negotiating ==
    {"SEND_NEWSCENE_SETUP", "SEND_NEWSCENE_SETUP_PROMPT", "RECV_NEWSCENE_SETUP"}

(* Where the session is, or will be when it has sent or received. *)
Dialog == IF state \in {"SENDING", "RECVING"} THEN next_state ELSE state

(* Listening frees what was negotiated, and nothing does after the shutdown. *)
Open == state \notin {"LISTENING", "SHUTDOWN"}

Setting == [value : Values, desc : BOOLEAN]
NewScenes ==
    [settings : Settings \cup {NoSettings}, at : 0 .. MaxScenes, setting : 0 .. Needs,
     desc : 0 .. Needs, invalid : 0 .. Needs, edited : 0 .. Needs, replacement : BOOLEAN,
     editing : BOOLEAN, refinalizing : BOOLEAN]

(* A line is there for the state that handles it, and a state waits for one
   only to handle it. *)
InputHeld ==
    /\ input # NoLine => state \in Prompts \cup {"LISTENING"}
    /\ state = "RECVING" => next_state \in Prompts

NegotiatesOpen == Open => (new_scene.settings # NoSettings <=> Dialog \in Negotiating)

(* Settings are attached once, and finalized again when they were rejected. *)
AttachedOnce ==
    /\ new_scene.at > 0 => new_scene.settings # NoSettings
    /\ Open /\ Dialog \in Negotiating => (new_scene.at > 0 <=> new_scene.refinalizing)

(* A scene that is shown or edited is there. *)
SceneThere ==
    Open /\ (\/ Dialog \in {"RECV_SCENE", "RECV_EDITSCENE"}
             \/ Dialog \in Negotiating /\ new_scene.replacement)
      => scene < Len(contexts)

(* Scenes are not added beyond the bound. *)
Room ==
    /\ Len(entries) <= MaxScenes
    /\ Open /\ (\/ input.kind = "new" \/ Dialog = "RECV_NEWSCENE"
                \/ Dialog \in Negotiating /\ ~new_scene.replacement /\ ~new_scene.refinalizing)
         => Len(entries) < MaxScenes

(* The setting returned last is one of those there; an unknown module is the
   first setting's, and that one was returned. *)
SettingThere ==
    Open /\ Dialog \in Negotiating
      => /\ new_scene.setting <= Len(new_scene.settings)
         /\ UnknownModule(new_scene.settings)
              => new_scene.setting = 1 /\ new_scene.desc \in {0, 1}

(* What is prompted for is the setting returned last, or one to be added. *)
PromptThere ==
    Open /\ Dialog \in Negotiating \ {"SEND_NEWSCENE_SETUP"}
      => /\ Prompting > 0 /\ new_scene.setting \in {0, Prompting}
         /\ new_scene.setting = 0 => new_scene.desc = Len(new_scene.settings) + 1
         /\ new_scene.setting > 0
              => new_scene.editing \/ new_scene.setting = new_scene.invalid

OutputSent == output => state \in {"SENDING", "LISTENING"}
NullFailed == (\E i \in DOMAIN contexts : contexts[i] = "null") => failures > 0
Culprit == failures > 0 \/ aborted > 0 \/ \E i \in DOMAIN entries : ~entries[i]
CrashAccounted == crashed => Culprit

(* The inductive invariant. *)
IInv ==
    /\ TypeOK /\ InputHeld /\ NegotiatesOpen /\ AttachedOnce /\ SceneThere /\ Room
    /\ SettingThere /\ PromptThere /\ OutputSent
    /\ NullFailed /\ CrashAccounted /\ EntriesAccounted

---------------------------------------------------------------------------
(* Replacing an element of a sequence keeps its length and its elements' type. *)
LEMMA ExceptElement ==
    ASSUME NEW S, NEW s \in Seq(S), NEW k, NEW v \in S
    PROVE  /\ [s EXCEPT ![k] = v] \in Seq(S)
           /\ Len([s EXCEPT ![k] = v]) = Len(s)
           /\ DOMAIN [s EXCEPT ![k] = v] = DOMAIN s
           /\ \A i \in DOMAIN s : [s EXCEPT ![k] = v][i] = IF i = k THEN v ELSE s[i]
<1>1. Len(s) \in Nat /\ DOMAIN s = 1 .. Len(s) /\ s \in [1 .. Len(s) -> S]
    BY LenProperties
<1>2. [s EXCEPT ![k] = v] \in [1 .. Len(s) -> S]
    BY <1>1
<1>3. [s EXCEPT ![k] = v] \in Seq(S)
    BY <1>1, <1>2, SeqDef
<1> QED
    BY <1>1, <1>2, <1>3, LenProperties

(* The same of a sequence of flags. *)
LEMMA ExceptFlag ==
    ASSUME NEW s \in Seq(BOOLEAN), NEW k, NEW v \in BOOLEAN
    PROVE  [s EXCEPT ![k] = v] \in Seq(BOOLEAN) /\ Len([s EXCEPT ![k] = v]) = Len(s)
<1> DEFINE B == BOOLEAN
<1>1. s \in Seq(B) /\ v \in B
    OBVIOUS
<1>2. [s EXCEPT ![k] = v] \in Seq(B) /\ Len([s EXCEPT ![k] = v]) = Len(s)
    <2> HIDE DEF B
    <2> QED
        BY <1>1, ExceptElement
<1> QED
    BY <1>2

(* Settings are the sequences of no more than Needs of them. *)
LEMMA SettingsSeq ==
    ASSUME NEW s \in Settings
    PROVE  /\ s \in Seq(Setting) /\ Len(s) \in 0 .. Needs /\ DOMAIN s = 1 .. Len(s)
           /\ \A i \in 1 .. Len(s) : s[i] \in Setting
<1>1. PICK n \in 0 .. Needs : s \in [1 .. n -> Setting]
    BY DEF Settings, Setting
<1>2. s \in Seq(Setting)
    BY <1>1, SeqDef, RktScenerAssumption
<1>3. Len(s) = n
    BY <1>1, <1>2, LenProperties, RktScenerAssumption
<1> QED
    BY <1>1, <1>2, <1>3

LEMMA SeqSettings ==
    ASSUME NEW s \in Seq(Setting), Len(s) <= Needs
    PROVE  s \in Settings
<1>1. Len(s) \in Nat /\ s \in [1 .. Len(s) -> Setting]
    BY LenProperties
<1>2. Len(s) \in 0 .. Needs
    BY <1>1, RktScenerAssumption
<1> QED
    BY <1>1, <1>2 DEF Settings, Setting

LEMMA AddSetting ==
    ASSUME NEW s \in Settings, Len(s) < Needs, NEW e \in Setting
    PROVE  /\ Append(s, e) \in Settings /\ Len(Append(s, e)) = Len(s) + 1
           /\ Append(s, e)[Len(s) + 1] = e
           /\ \A i \in 1 .. Len(s) : Append(s, e)[i] = s[i]
<1>1. s \in Seq(Setting) /\ Len(s) \in 0 .. Needs
    BY SettingsSeq
<1>2. Append(s, e) \in Seq(Setting) /\ Len(Append(s, e)) = Len(s) + 1
      /\ Append(s, e)[Len(s) + 1] = e
      /\ \A i \in 1 .. Len(s) : Append(s, e)[i] = s[i]
    BY <1>1, AppendProperties
<1>3. Append(s, e) \in Settings
    <2> DEFINE t == Append(s, e)
    <2>1. t \in Seq(Setting) /\ Len(t) <= Needs
        BY <1>1, <1>2, RktScenerAssumption
    <2> HIDE DEF t
    <2>2. t \in Settings
        BY <2>1, SeqSettings
    <2> QED
        BY <2>2 DEF t
<1> QED
    BY <1>2, <1>3

LEMMA SetSetting ==
    ASSUME NEW s \in Settings, NEW k \in 1 .. Len(s), NEW e \in Setting
    PROVE  /\ [s EXCEPT ![k] = e] \in Settings /\ Len([s EXCEPT ![k] = e]) = Len(s)
           /\ \A i \in 1 .. Len(s) : [s EXCEPT ![k] = e][i] = IF i = k THEN e ELSE s[i]
<1>1. s \in Seq(Setting) /\ Len(s) \in 0 .. Needs /\ DOMAIN s = 1 .. Len(s)
    BY SettingsSeq
<1> DEFINE t == [s EXCEPT ![k] = e]
<1>2. t \in Seq(Setting) /\ Len(t) = Len(s)
      /\ \A i \in 1 .. Len(s) : t[i] = IF i = k THEN e ELSE s[i]
    BY <1>1, ExceptSeq
<1>3. t \in Settings
    <2> HIDE DEF t
    <2> QED
        BY <1>1, <1>2, SeqSettings, RktScenerAssumption
<1> QED
    BY <1>2, <1>3

LEMMA NoSettingsApart == NoSettings \notin Settings
<1> SUFFICES ASSUME NoSettings \in Settings PROVE FALSE
    OBVIOUS
<1>1. NoSettings[1] \in Setting
    <2>1. Len(NoSettings) = 1
        BY DEF NoSettings
    <2> QED
        BY <2>1, SettingsSeq
<1>2. NoSettings[1].value = "none" /\ \A e \in Setting : e.value # "none"
    BY DEF NoSettings, Setting, Values
<1> QED
    BY <1>1, <1>2

(* A nonempty set of numbers has a least one. *)
LEMMA LeastNumber ==
    ASSUME NEW T \in SUBSET Nat, T # {}
    PROVE  \E m \in T : \A k \in T : m <= k
<1> DEFINE Up(k) == 0 .. k
           Ups == {Up(k) : k \in T}
<1>1. IsWellFoundedOn(StrictSubsetOrdering(Nat), FiniteSubsetsOf(Nat))
    BY FS_StrictSubsetOrderingWellFounded
<1>2. Ups \subseteq FiniteSubsetsOf(Nat) /\ Ups # {}
    <2>1. \A k \in T : IsFiniteSet(Up(k)) /\ Up(k) \in SUBSET Nat
        BY FS_Interval
    <2> QED
        BY <2>1 DEF FiniteSubsetsOf
<1>3. PICK U \in Ups : \A V \in Ups : <<V, U>> \notin StrictSubsetOrdering(Nat)
    <2> HIDE DEF Ups
    <2> QED
        BY <1>1, <1>2, WFMin
<1>4. PICK m \in T : U = Up(m)
    OBVIOUS
<1>5. ASSUME NEW k \in T, ~(m <= k) PROVE FALSE
    <2>1. Up(k) \subseteq Up(m) /\ Up(k) # Up(m)
        BY <1>5
    <2>2. <<Up(k), Up(m)>> \in StrictSubsetOrdering(Nat)
        BY <2>1 DEF StrictSubsetOrdering
    <2> QED
        BY <1>3, <1>4, <2>2
<1> QED
    BY <1>5

(* What is wanted is not described, and is the one to be added when it is not there. *)
LEMMA WantedFirst ==
    ASSUME NEW s \in Settings
    PROVE  /\ Wanted(s) \in 0 .. Needs
           /\ Wanted(s) > Len(s) => Wanted(s) = Len(s) + 1
           /\ Wanted(s) = 0 => Len(s) = Needs /\ \A i \in 1 .. Needs : s[i].desc
<1> DEFINE want == {i \in 1 .. Needs : i > Len(s) \/ ~s[i].desc}
<1>1. Len(s) \in 0 .. Needs
    BY SettingsSeq
<1>2. CASE want = {}
    <2>1. Wanted(s) = 0
        BY <1>2 DEF Wanted
    <2>2. \A i \in 1 .. Needs : ~(i > Len(s)) /\ s[i].desc
        BY <1>2
    <2>3. Len(s) = Needs
        <3>1. Needs \in 1 .. Needs
            BY RktScenerAssumption
        <3> QED
            BY <1>1, <2>2, <3>1, RktScenerAssumption
    <2> QED
        BY <1>1, <2>1, <2>2, <2>3, RktScenerAssumption
<1>3. CASE want # {}
    <2> DEFINE w == CHOOSE i \in want : \A j \in want : i <= j
    <2>1. want \in SUBSET Nat
        OBVIOUS
    <2>2. \E m \in want : \A k \in want : m <= k
        <3> HIDE DEF want
        <3> QED
            BY <1>3, <2>1, LeastNumber
    <2>3. w \in want /\ \A j \in want : w <= j
        <3> HIDE DEF want
        <3> QED
            BY <2>2
    <2>4. Wanted(s) = w
        BY <1>3 DEF Wanted
    <2>5. w > Len(s) => w = Len(s) + 1
        <3> SUFFICES ASSUME w > Len(s), w # Len(s) + 1 PROVE FALSE
            OBVIOUS
        <3>1. w \in 1 .. Needs
            BY <2>3
        <3>2. Len(s) + 1 \in want
            BY <1>1, <3>1, RktScenerAssumption
        <3> HIDE DEF w, want
        <3> QED
            BY <1>1, <2>3, <3>1, <3>2
    <2>6. w \in 1 .. Needs
        BY <2>3
    <2> HIDE DEF w, want
    <2> QED
        BY <1>1, <2>4, <2>5, <2>6, RktScenerAssumption
<1> QED
    BY <1>2, <1>3

(* What the lines of each kind carry. *)
LEMMA LineKinds ==
    ASSUME NEW l \in Lines \cup {NoLine}
    PROVE  /\ l.kind = "text" => l.settings \in Settings
                                 /\ \A i \in DOMAIN l.settings : ~l.settings[i].desc
           /\ l.kind = "number" => l.scene \in 0 .. MaxScenes
           /\ l.kind = "answer" => l.value \in {"good", "unchecked"}
<1>1. CASE l \in Texts
    BY <1>1 DEF Texts
<1>2. CASE l \in Numbers
    BY <1>2 DEF Numbers
<1>3. CASE l \in Answers
    BY <1>3 DEF Answers
<1>4. CASE l \in Keys
    BY <1>4 DEF Keys
<1>5. CASE l = NoLine
    BY <1>5 DEF NoLine
<1> QED
    BY <1>1, <1>2, <1>3, <1>4, <1>5 DEF Lines

LEMMA NewSceneType ==
    TypeOK => new_scene \in NewScenes
BY DEF TypeOK, NewScenes

---------------------------------------------------------------------------
LEMMA InitIInv == Init => IInv
<1> SUFFICES ASSUME Init PROVE IInv
    OBVIOUS
<1> USE RktScenerAssumption
<1>1. entries \in Seq(BOOLEAN) /\ Len(entries) = InitialScenes
    <2>1. entries \in [1 .. InitialScenes -> BOOLEAN] /\ InitialScenes \in Nat
        BY DEF Init
    <2>2. entries \in Seq(BOOLEAN)
        BY <2>1, SeqDef
    <2> QED
        BY <2>1, <2>2, LenProperties
<1>2. contexts \in Seq({"live", "null"}) /\ Len(contexts) = InitialScenes
      /\ \A i \in DOMAIN contexts : contexts[i] = "live"
    <2>1. contexts \in [1 .. InitialScenes -> {"live", "null"}] /\ InitialScenes \in Nat
        BY DEF Init
    <2>2. contexts \in Seq({"live", "null"})
        BY <2>1, SeqDef
    <2>3. \A i \in DOMAIN contexts : contexts[i] = "live"
        BY DEF Init
    <2> QED
        BY <2>1, <2>2, <2>3, LenProperties
<1>3. TypeOK
    <2>1. new_scene \in NewScenes
        BY DEF Init, NoScene, NewScenes
    <2>2. state \in States /\ next_state \in States \ {"SENDING", "RECVING"}
        BY DEF Init, States
    <2>3. scene \in Shows /\ input \in Lines \cup {NoLine}
        BY DEF Init, Shows
    <2>4. /\ pin_scene \in BOOLEAN /\ client \in BOOLEAN /\ output \in BOOLEAN
          /\ crashed \in BOOLEAN
        BY Zenon DEF Init
    <2>5. aborted \in Nat /\ failures \in 0 .. MaxFailures
        BY DEF Init
    <2> QED
        BY <1>1, <1>2, <2>1, <2>2, <2>3, <2>4, <2>5, Zenon DEF TypeOK, NewScenes
<1>4. ~Open /\ input = NoLine
    BY DEF Init, Open
<1>5. AttachedOnce /\ EntriesAccounted
    BY <1>1, <1>2, <1>4 DEF Init, NoScene, AttachedOnce, EntriesAccounted
<1>6. Room /\ InputHeld /\ OutputSent
    BY <1>1, <1>4 DEF Init, Room, InputHeld, OutputSent
<1>7. NullFailed /\ CrashAccounted
    BY <1>2 DEF Init, NullFailed, CrashAccounted
<1> QED
    BY <1>3, <1>4, <1>5, <1>6, <1>7
    DEF IInv, NegotiatesOpen, SceneThere, SettingThere, PromptThere

---------------------------------------------------------------------------
(* The session's part of the types. *)
SessionOK ==
    /\ state \in States /\ next_state \in States \ {"SENDING", "RECVING"}
    /\ scene \in Shows
    /\ pin_scene \in BOOLEAN /\ client \in BOOLEAN /\ output \in BOOLEAN
    /\ input \in Lines \cup {NoLine}

(* What the negotiation's parts of the invariant ask of a step that goes from
   dialog to dialog and changes nothing of the scenes or of a new one. *)
Moves ==
    Open' => /\ Open
             /\ \/ Dialog' = Dialog /\ scene' = scene
                \/ /\ Dialog \in Negotiating /\ Dialog' \in Negotiating /\ scene' = scene
                   /\ Dialog' # "SEND_NEWSCENE_SETUP" => Dialog # "SEND_NEWSCENE_SETUP"
                \/ /\ Dialog \notin Negotiating /\ Dialog' \notin Negotiating
                   /\ Dialog' \in {"RECV_SCENE", "RECV_EDITSCENE"} => scene' < Len(contexts)
                   /\ Dialog' = "RECV_NEWSCENE" => Len(entries) < MaxScenes
             /\ input'.kind = "new" => Len(entries) < MaxScenes

LEMMA MoveKeepsIInv ==
    ASSUME IInv, UNCHANGED <<new_scene, scenes>>,
           SessionOK', InputHeld', OutputSent', Moves
    PROVE  IInv'
<1> USE DEF IInv, scenes
<1>1. TypeOK'
    BY DEF TypeOK, SessionOK
<1>2. NullFailed' /\ CrashAccounted' /\ EntriesAccounted'
    BY DEF NullFailed, CrashAccounted, Culprit, EntriesAccounted
<1>3. NegotiatesOpen' /\ AttachedOnce'
    BY DEF Moves, NegotiatesOpen, AttachedOnce
<1>4. SceneThere'
    BY DEF Moves, SceneThere, Negotiating
<1>5. Room'
    BY DEF Moves, Room, Negotiating
<1>6. SettingThere' /\ PromptThere'
    BY DEF Moves, SettingThere, PromptThere, Prompting
<1> QED
    BY <1>1, <1>2, <1>3, <1>4, <1>5, <1>6

(* A crash is the use of what a failure or a cut leaves behind. *)
LEMMA CrashKeepsIInv ==
    ASSUME IInv, Crash, Culprit
    PROVE  IInv'
<1> USE DEF IInv, Crash, session
<1>1. TypeOK'
    BY DEF TypeOK
<1>2. InputHeld' /\ NegotiatesOpen' /\ AttachedOnce' /\ SceneThere' /\ Room'
    BY DEF InputHeld, NegotiatesOpen, AttachedOnce, SceneThere, Room, Open, Dialog
<1>3. SettingThere' /\ PromptThere' /\ OutputSent'
    BY DEF SettingThere, PromptThere, OutputSent, Open, Dialog, Prompting
<1>4. NullFailed' /\ EntriesAccounted' /\ CrashAccounted'
    BY DEF NullFailed, EntriesAccounted, CrashAccounted, Culprit
<1> QED
    BY <1>1, <1>2, <1>3, <1>4

(* What TypeOK gives of the session and the numbers the scenes are counted by. *)
LEMMA Types ==
    ASSUME IInv
    PROVE  /\ SessionOK /\ new_scene \in NewScenes
           /\ entries \in Seq(BOOLEAN) /\ Len(entries) \in Nat
           /\ DOMAIN entries = 1 .. Len(entries)
           /\ contexts \in Seq({"live", "null"}) /\ Len(contexts) \in Nat
           /\ DOMAIN contexts = 1 .. Len(contexts)
           /\ scene \in Nat /\ aborted \in Nat /\ failures \in 0 .. MaxFailures
           /\ Len(contexts) <= Len(entries)
<1> USE RktScenerAssumption DEF IInv, TypeOK
<1>1. SessionOK /\ new_scene \in NewScenes /\ aborted \in Nat /\ failures \in 0 .. MaxFailures
    BY DEF SessionOK, NewScenes
<1>2. entries \in Seq(BOOLEAN) /\ contexts \in Seq({"live", "null"})
    OBVIOUS
<1>3. /\ Len(entries) \in Nat /\ DOMAIN entries = 1 .. Len(entries)
      /\ Len(contexts) \in Nat /\ DOMAIN contexts = 1 .. Len(contexts)
    BY <1>2, LenProperties
<1>4. scene \in Nat
    BY DEF Shows
<1>5. Len(contexts) <= Len(entries)
    BY <1>1, <1>3 DEF EntriesAccounted
<1> QED
    BY <1>1, <1>2, <1>3, <1>4, <1>5

(* Sending goes on to the next dialog when all is sent. *)
LEMMA SendMoves ==
    ASSUME IInv, NEW s \in States \ {"SENDING", "RECVING"}, rkt_scener_send(s),
           scene' = scene, pin_scene' = pin_scene
    PROVE  /\ SessionOK' /\ InputHeld' /\ OutputSent'
           /\ Dialog' = s /\ Open' /\ input'.kind # "new"
<1>1. SessionOK'
    BY Types DEF rkt_scener_send, SessionOK, States
<1>2. InputHeld' /\ OutputSent'
    BY DEF rkt_scener_send, InputHeld, OutputSent
<1>3. Dialog' = s /\ Open' /\ input'.kind # "new"
    BY DEF rkt_scener_send, Dialog, Open, NoLine
<1> QED
    BY <1>1, <1>2, <1>3

(* Handled input is gone, and the session is at the dialog s. *)
LEMMA HandledMoves ==
    ASSUME IInv, NEW s \in States \ {"SENDING", "RECVING", "LISTENING", "SHUTDOWN"}, Handled(s),
           state \notin {"SENDING", "LISTENING"},
           scene' \in Shows, pin_scene' \in BOOLEAN
    PROVE  /\ SessionOK' /\ InputHeld' /\ OutputSent'
           /\ Dialog' = s /\ Open' /\ input'.kind # "new"
<1>1. SessionOK'
    BY Types DEF Handled, Goto, SessionOK
<1>2. InputHeld' /\ OutputSent'
    BY DEF Handled, Goto, InputHeld, OutputSent, IInv
<1>3. Dialog' = s /\ Open' /\ input'.kind # "new"
    BY DEF Handled, Goto, Dialog, Open, NoLine
<1> QED
    BY <1>1, <1>2, <1>3

(* An error leaves the session to be closed. *)
LEMMA CloseMoves ==
    ASSUME IInv, rkt_scener_err_close, scene' = scene, pin_scene' = pin_scene
    PROVE  SessionOK' /\ InputHeld' /\ OutputSent' /\ ~Open'
<1>1. SessionOK'
    BY Types DEF rkt_scener_err_close, Goto, SessionOK, States
<1>2. InputHeld' /\ OutputSent' /\ ~Open'
    BY DEF rkt_scener_err_close, Goto, InputHeld, OutputSent, Open
<1> QED
    BY <1>1, <1>2

---------------------------------------------------------------------------
LEMMA SendingKeepsIInv == ASSUME IInv, Sending PROVE IInv'
<1>1. UNCHANGED <<scene, pin_scene, new_scene, scenes>>
    BY DEF Sending
<1>2. CASE rkt_scener_err_close
    <2>1. Moves /\ SessionOK' /\ InputHeld' /\ OutputSent'
        BY <1>1, <1>2, CloseMoves DEF Moves
    <2> QED
        BY <1>1, <2>1, MoveKeepsIInv
<1>3. CASE /\ output' = FALSE /\ state' = next_state
           /\ UNCHANGED <<next_state, client, input>>
    <2>1. input = NoLine
        BY DEF IInv, InputHeld, Sending, Prompts
    <2>2. SessionOK' /\ InputHeld' /\ OutputSent'
        BY <1>1, <1>3, <2>1, Types DEF SessionOK, InputHeld, OutputSent
    <2>3. next_state \notin {"SENDING", "RECVING"}
        BY Types DEF SessionOK
    <2>4. Dialog' = Dialog /\ Open
        BY <1>3, <2>3 DEF Dialog, Open, Sending
    <2>5. Moves
        BY <1>1, <1>3, <2>1, <2>4 DEF Moves, NoLine
    <2> QED
        BY <1>1, <2>2, <2>5, MoveKeepsIInv
<1> QED
    BY <1>2, <1>3 DEF Sending

LEMMA RecvingKeepsIInv == ASSUME IInv, Recving PROVE IInv'
<1>1. UNCHANGED <<scene, pin_scene, new_scene, scenes>>
    BY DEF Recving
<1>2. CASE rkt_scener_err_close
    <2>1. Moves /\ SessionOK' /\ InputHeld' /\ OutputSent'
        BY <1>1, <1>2, CloseMoves DEF Moves
    <2> QED
        BY <1>1, <2>1, MoveKeepsIInv
<1>3. CASE /\ input' \in Lines /\ Goto(next_state)
           /\ input'.kind = "new" => Len(entries) < MaxScenes
    <2>1. next_state \in Prompts
        BY DEF IInv, InputHeld, Recving
    <2>2. SessionOK' /\ InputHeld' /\ OutputSent'
        BY <1>1, <1>3, <2>1, Types
        DEF Goto, SessionOK, InputHeld, OutputSent, IInv, Recving, Prompts
    <2>3. Dialog' = Dialog /\ Open
        BY <1>3, <2>1 DEF Goto, Dialog, Open, Recving, Prompts
    <2>4. Moves
        BY <1>1, <1>3, <2>3 DEF Moves
    <2> QED
        BY <1>1, <2>2, <2>4, MoveKeepsIInv
<1> QED
    BY <1>2, <1>3 DEF Recving

LEMMA ReceiveKeepsIInv == ASSUME IInv, Receive PROVE IInv'
<1>1. UNCHANGED <<scene, pin_scene, new_scene, scenes>> /\ state \in Prompts
    BY DEF Receive
<1>2. SessionOK' /\ InputHeld' /\ OutputSent'
    BY <1>1, Types
    DEF Receive, rkt_scener_recv, SessionOK, InputHeld, OutputSent, IInv, States, Prompts
<1>3. Dialog' = Dialog /\ Open /\ input' = NoLine
    BY <1>1 DEF Receive, rkt_scener_recv, Dialog, Open, Prompts
<1>4. Moves
    BY <1>1, <1>3 DEF Moves, NoLine
<1> QED
    BY <1>1, <1>2, <1>4, MoveKeepsIInv

LEMMA ShutdownKeepsIInv == ASSUME IInv, rkt_scener_shutdown PROVE IInv'
<1>1. UNCHANGED <<scene, pin_scene, new_scene, scenes>>
    BY DEF rkt_scener_shutdown
<1>2. SessionOK' /\ InputHeld' /\ OutputSent'
    BY <1>1, Types DEF rkt_scener_shutdown, SessionOK, InputHeld, OutputSent, States
<1>3. Moves
    BY DEF rkt_scener_shutdown, Moves, Open
<1> QED
    BY <1>1, <1>2, <1>3, MoveKeepsIInv

---------------------------------------------------------------------------
(* The dialogs outside of a negotiation. *)
LEMMA SentKeepsIInv ==
    ASSUME IInv, NEW s \in States \ {"SENDING", "RECVING"}, rkt_scener_send(s),
           UNCHANGED <<scene, pin_scene, new_scene, scenes>>,
           Open, Dialog \notin Negotiating, s \notin Negotiating,
           s \in {"RECV_SCENE", "RECV_EDITSCENE"} => scene < Len(contexts),
           s = "RECV_NEWSCENE" => Len(entries) < MaxScenes
    PROVE  IInv'
<1>1. SessionOK' /\ InputHeld' /\ OutputSent' /\ Dialog' = s /\ Open' /\ input'.kind # "new"
    BY SendMoves
<1>2. Moves
    BY <1>1 DEF Moves
<1> QED
    BY <1>1, <1>2, MoveKeepsIInv

LEMMA HandledKeepsIInv ==
    ASSUME IInv, NEW s \in {"SEND_SETTINGS", "SEND_SCENES", "SEND_SCENE"}, Handled(s),
           UNCHANGED <<new_scene, scenes>>,
           scene' \in Shows, pin_scene' \in BOOLEAN,
           Open, state # "SENDING", Dialog \notin Negotiating
    PROVE  IInv'
<1>1. s \in States \ {"SENDING", "RECVING", "LISTENING", "SHUTDOWN"}
    BY DEF States
<1>2. SessionOK' /\ InputHeld' /\ OutputSent' /\ Dialog' = s /\ Open' /\ input'.kind # "new"
    BY <1>1, HandledMoves DEF Open
<1>3. Moves
    BY <1>2 DEF Moves, Negotiating
<1> QED
    BY <1>2, <1>3, MoveKeepsIInv

LEMMA SendSettingsKeepsIInv == ASSUME IInv, SendSettings PROVE IInv'
<1>1. CASE \E i \in DOMAIN entries : ~entries[i]
    BY <1>1, CrashKeepsIInv DEF SendSettings, Culprit
<1>2. CASE ~ \E i \in DOMAIN entries : ~entries[i]
    <2>1. Open /\ Dialog \notin Negotiating
        BY DEF SendSettings, Open, Dialog, Negotiating
    <2> QED
        BY <1>2, <2>1, SentKeepsIInv DEF SendSettings, States, Negotiating
<1> QED
    BY <1>1, <1>2

LEMMA SendScenesKeepsIInv == ASSUME IInv, SendScenes PROVE IInv'
<1>1. CASE \E i \in DOMAIN contexts : contexts[i] = "null"
    BY <1>1, CrashKeepsIInv DEF SendScenes, Culprit, IInv, NullFailed
<1>2. CASE ~ \E i \in DOMAIN contexts : contexts[i] = "null"
    <2>1. Open /\ Dialog \notin Negotiating
        BY DEF SendScenes, Open, Dialog, Negotiating
    <2> QED
        BY <1>2, <2>1, SentKeepsIInv DEF SendScenes, States, Negotiating
<1> QED
    BY <1>1, <1>2

(* An entry without context is of an addition that was cut off. *)
LEMMA SendSceneKeepsIInv == ASSUME IInv, SendScene PROVE IInv'
<1>1. Open /\ Dialog \notin Negotiating /\ state = "SEND_SCENE" /\ Dialog = state
    BY DEF SendScene, Open, Dialog, Negotiating
<1>2. new_scene.at = 0
    BY <1>1, Types DEF IInv, NegotiatesOpen, AttachedOnce, NewScenes
<1>3. CASE Goto("SEND_SCENES") /\ UNCHANGED <<input, scene, pin_scene, new_scene, scenes>>
    <2>1. SessionOK' /\ InputHeld' /\ OutputSent'
        BY <1>1, <1>3, Types
        DEF Goto, SessionOK, States, InputHeld, OutputSent, IInv, Prompts
    <2>2. Dialog' = "SEND_SCENES" /\ input' = NoLine
        BY <1>1, <1>3 DEF Goto, Dialog, IInv, InputHeld, Prompts
    <2>3. Moves
        BY <1>1, <2>2 DEF Moves, Negotiating, NoLine
    <2> QED
        BY <1>3, <2>1, <2>3, MoveKeepsIInv
<1>4. CASE rkt_scener_err_close /\ UNCHANGED <<scene, pin_scene, new_scene, scenes>>
    <2>1. Moves /\ SessionOK' /\ InputHeld' /\ OutputSent'
        BY <1>4, CloseMoves DEF Moves
    <2> QED
        BY <1>4, <2>1, MoveKeepsIInv
<1>5. ASSUME scene < Len(entries), ~entries[scene + 1] \/ scene >= Len(contexts), Crash
      PROVE  IInv'
    <2>1. CASE ~entries[scene + 1]
        <3>1. scene + 1 \in DOMAIN entries
            BY <1>5, Types
        <3> QED
            BY <1>5, <2>1, <3>1, CrashKeepsIInv DEF Culprit
    <2>2. CASE scene >= Len(contexts)
        <3>1. aborted > 0
            BY <1>2, <1>5, <2>2, Types DEF IInv, EntriesAccounted
        <3> QED
            BY <1>5, <3>1, CrashKeepsIInv DEF Culprit
    <2> QED
        BY <1>5, <2>1, <2>2
<1>6. ASSUME scene < Len(contexts), contexts[scene + 1] = "null", Crash
      PROVE  IInv'
    <2>1. scene + 1 \in DOMAIN contexts
        BY <1>6, Types
    <2> QED
        BY <1>6, <2>1, CrashKeepsIInv DEF Culprit, IInv, NullFailed
<1>7. ASSUME scene < Len(contexts), rkt_scener_send("RECV_SCENE"),
             UNCHANGED <<scene, pin_scene, new_scene, scenes>>
      PROVE  IInv'
    BY <1>1, <1>7, SentKeepsIInv DEF States, Negotiating
<1> QED
    BY <1>3, <1>4, <1>5, <1>6, <1>7, Types DEF SendScene

LEMMA CommonKeysKeepsIInv ==
    ASSUME IInv, NEW s \in {"SEND_SCENES", "SEND_SCENE"}, NEW shown \in Shows,
           CommonKeys(s, shown), state \in {"RECV_SCENES", "RECV_SCENE"}
    PROVE  IInv'
<1>1. Open /\ Dialog = state /\ Dialog \notin Negotiating /\ state # "SENDING"
    BY DEF Open, Dialog, Negotiating
<1>2. input \in Lines \cup {NoLine} /\ scene \in Shows /\ pin_scene \in BOOLEAN
    BY Types DEF SessionOK
<1>3. s \in States \ {"SENDING", "RECVING"} /\ s \notin Negotiating
      /\ s \notin {"RECV_SCENE", "RECV_EDITSCENE", "RECV_NEWSCENE"}
    BY DEF States, Negotiating
<1>4. CASE /\ input.kind = "number" /\ scene' = input.scene /\ Handled("SEND_SCENE")
           /\ UNCHANGED <<pin_scene, new_scene, scenes>>
    <2>1. scene' \in Shows
        BY <1>2, <1>4, LineKinds DEF Shows
    <2> QED
        BY <1>1, <1>2, <1>4, <2>1, HandledKeepsIInv
<1>5. CASE rkt_scener_send(s) /\ UNCHANGED <<scene, pin_scene, new_scene, scenes>>
    BY <1>1, <1>3, <1>5, SentKeepsIInv
<1>6. CASE /\ input.kind = "new" /\ rkt_scener_send("RECV_NEWSCENE")
           /\ UNCHANGED <<scene, pin_scene, new_scene, scenes>>
    <2>1. Len(entries) < MaxScenes
        BY <1>1, <1>6 DEF IInv, Room
    <2> QED
        BY <1>1, <1>6, <2>1, SentKeepsIInv DEF States, Negotiating
<1>7. CASE pin_scene' = ~pin_scene /\ Handled(s) /\ UNCHANGED <<scene, new_scene, scenes>>
    BY <1>1, <1>2, <1>7, HandledKeepsIInv
<1>8. CASE /\ scene' = shown /\ Handled("SEND_SCENE")
           /\ UNCHANGED <<pin_scene, new_scene, scenes>>
    BY <1>1, <1>2, <1>8, HandledKeepsIInv
<1>9. CASE Handled("SEND_SCENES") /\ UNCHANGED <<scene, pin_scene, new_scene, scenes>>
    BY <1>1, <1>2, <1>9, HandledKeepsIInv
<1> QED
    BY <1>4, <1>5, <1>6, <1>7, <1>8, <1>9 DEF CommonKeys

LEMMA ScenesKeysKeepsIInv ==
    ASSUME IInv, NEW shown \in Shows, rkt_scener_handle_input_scenes(shown)
    PROVE  IInv'
<1>1. state = "RECV_SCENES" /\ Open /\ Dialog = state /\ Dialog \notin Negotiating
    BY DEF rkt_scener_handle_input_scenes, Open, Dialog, Negotiating
<1>2. scene \in Shows /\ pin_scene \in BOOLEAN
    BY Types DEF SessionOK
<1>3. CASE CommonKeys("SEND_SCENES", shown)
    BY <1>1, <1>3, CommonKeysKeepsIInv
<1>4. CASE Handled("SEND_SETTINGS") /\ UNCHANGED <<scene, pin_scene, new_scene, scenes>>
    BY <1>1, <1>2, <1>4, HandledKeepsIInv
<1>5. CASE rkt_scener_send("LISTENING") /\ UNCHANGED <<scene, pin_scene, new_scene, scenes>>
    BY <1>1, <1>5, SentKeepsIInv DEF States, Negotiating
<1>6. CASE rkt_scener_send("SEND_SCENES") /\ UNCHANGED <<scene, pin_scene, new_scene, scenes>>
    BY <1>1, <1>6, SentKeepsIInv DEF States, Negotiating
<1> QED
    BY <1>3, <1>4, <1>5, <1>6 DEF rkt_scener_handle_input_scenes

(* The scene's entry is there again, its context may not be. *)
LEMMA RandomizeKeepsIInv ==
    ASSUME IInv, rkt_scener_randomize_scene_settings, state = "RECV_SCENE"
    PROVE  IInv'
<1>1. Open /\ Dialog = state /\ scene < Len(contexts)
    BY DEF Open, Dialog, IInv, SceneThere
<1>2. scene + 1 \in DOMAIN entries /\ scene + 1 \in DOMAIN contexts
    BY <1>1, Types
<1>3. CASE contexts[scene + 1] = "null" \/ ~entries[scene + 1]
    BY <1>2, <1>3, CrashKeepsIInv
    DEF rkt_scener_randomize_scene_settings, Culprit, IInv, NullFailed
<1>4. CASE ~(contexts[scene + 1] = "null" \/ ~entries[scene + 1])
    <2>1. /\ entries' = [entries EXCEPT ![scene + 1] = TRUE]
          /\ Handled("SEND_SCENE")
          /\ UNCHANGED <<scene, pin_scene, new_scene, aborted, crashed>>
        BY <1>4 DEF rkt_scener_randomize_scene_settings
    <2>2. entries' \in Seq(BOOLEAN) /\ Len(entries') = Len(entries)
          /\ entries' = entries
        BY <1>2, <1>4, <2>1, Types, ExceptElement
    <2>3. PICK c \in {"live", "null"} :
             /\ contexts' = [contexts EXCEPT ![scene + 1] = c]
             /\ c = "live" => failures' = failures
             /\ c = "null" => failures < MaxFailures /\ failures' = failures + 1
        BY <1>4 DEF rkt_scener_randomize_scene_settings
    <2>4. /\ contexts' \in Seq({"live", "null"}) /\ Len(contexts') = Len(contexts)
          /\ DOMAIN contexts' = DOMAIN contexts
          /\ \A i \in DOMAIN contexts : contexts'[i] = IF i = scene + 1 THEN c ELSE contexts[i]
        <3> DEFINE S == {"live", "null"}
                   e == [contexts EXCEPT ![scene + 1] = c]
        <3>1. contexts \in Seq(S) /\ c \in S
            BY Types
        <3>2. /\ e \in Seq(S) /\ Len(e) = Len(contexts) /\ DOMAIN e = DOMAIN contexts
              /\ \A i \in DOMAIN contexts : e[i] = IF i = scene + 1 THEN c ELSE contexts[i]
            <4> HIDE DEF S
            <4> QED
                BY <3>1, ExceptElement
        <3> QED
            BY <2>3, <3>2
    <2>5. failures' \in 0 .. MaxFailures /\ failures' >= failures
          /\ (c = "null" => failures' > 0)
        BY <2>3, Types, RktScenerAssumption
    <2>6. scene \in Shows /\ pin_scene \in BOOLEAN
        BY Types DEF SessionOK
    <2>7. SessionOK' /\ InputHeld' /\ OutputSent' /\ Dialog' = "SEND_SCENE" /\ Open'
          /\ input'.kind # "new"
        BY <2>1, <2>6, HandledMoves DEF States
    <2>8. TypeOK'
        BY <2>1, <2>2, <2>4, <2>5, <2>7 DEF SessionOK, IInv, TypeOK
    <2>9. NullFailed'
        BY <2>3, <2>4, <2>5, Types DEF IInv, NullFailed
    <2>10. CrashAccounted' /\ EntriesAccounted'
        BY <2>1, <2>2, <2>4, <2>5, Types
        DEF IInv, CrashAccounted, Culprit, EntriesAccounted
    <2>11. NegotiatesOpen' /\ AttachedOnce' /\ SceneThere' /\ Room' /\ SettingThere'
           /\ PromptThere'
        BY <1>1, <2>1, <2>2, <2>7
        DEF IInv, NegotiatesOpen, AttachedOnce, SceneThere, Room, SettingThere, PromptThere,
            Negotiating
    <2> QED
        BY <2>7, <2>8, <2>9, <2>10, <2>11 DEF IInv
<1> QED
    BY <1>3, <1>4

LEMMA SceneKeysKeepsIInv ==
    ASSUME IInv, NEW shown \in Shows, rkt_scener_handle_input_scene(shown)
    PROVE  IInv'
<1>1. state = "RECV_SCENE" /\ Open /\ Dialog = state /\ Dialog \notin Negotiating
    BY DEF rkt_scener_handle_input_scene, Open, Dialog, Negotiating
<1>2. scene < Len(contexts) /\ scene + 1 \in DOMAIN entries
    <2>1. scene < Len(contexts)
        BY <1>1 DEF IInv, SceneThere
    <2> QED
        BY <2>1, Types
<1>3. CASE CommonKeys("SEND_SCENE", shown)
    BY <1>1, <1>3, CommonKeysKeepsIInv
<1>4. CASE rkt_scener_edit_scene
    <2>1. CASE ~entries[scene + 1]
        BY <1>2, <1>4, <2>1, CrashKeepsIInv DEF rkt_scener_edit_scene, Culprit
    <2>2. CASE entries[scene + 1]
        BY <1>1, <1>2, <1>4, <2>2, SentKeepsIInv DEF rkt_scener_edit_scene, States, Negotiating
    <2> QED
        BY <2>1, <2>2
<1>5. CASE rkt_scener_randomize_scene_settings
    BY <1>1, <1>5, RandomizeKeepsIInv
<1>6. CASE rkt_scener_send("SEND_SCENE") /\ UNCHANGED <<scene, pin_scene, new_scene, scenes>>
    BY <1>1, <1>6, SentKeepsIInv DEF States, Negotiating
<1> QED
    BY <1>3, <1>4, <1>5, <1>6 DEF rkt_scener_handle_input_scene

LEMMA RendersNullKeepsIInv == ASSUME IInv, RendersNull PROVE IInv'
<1>1. PICK track \in Shows : Shown(track) < Len(contexts)
                             /\ contexts[Shown(track) + 1] = "null"
    BY DEF RendersNull
<1>2. Shown(track) \in Nat
    BY Types, RktScenerAssumption DEF Shown, Shows
<1>3. Shown(track) + 1 \in DOMAIN contexts
    BY <1>1, <1>2, Types
<1>4. failures > 0
    BY <1>1, <1>3 DEF IInv, NullFailed
<1> QED
    BY <1>4, CrashKeepsIInv DEF RendersNull, Culprit

---------------------------------------------------------------------------
(* The negotiation of a new scene. *)
LEMMA BeginKeepsIInv ==
    ASSUME IInv, NEW settings \in Settings, NEW editing \in BOOLEAN, Begin(settings, editing),
           \A i \in DOMAIN settings : ~settings[i].desc,
           state \in {"RECV_EDITSCENE", "RECV_NEWSCENE"},
           editing => scene < Len(contexts),
           ~editing => Len(entries) < MaxScenes
    PROVE  IInv'
<1> USE RktScenerAssumption
<1>1. Open /\ Dialog = state /\ Dialog \notin Negotiating
    BY DEF Open, Dialog, Negotiating
<1>2. new_scene.at = 0
    BY <1>1, Types DEF IInv, NegotiatesOpen, AttachedOnce, NewScenes
<1>3. /\ new_scene' \in NewScenes
      /\ new_scene'.settings = settings /\ new_scene'.at = 0 /\ new_scene'.setting = 0
      /\ new_scene'.replacement = editing /\ ~new_scene'.refinalizing
    <2>1. new_scene' = [settings |-> settings, at |-> 0, setting |-> 0, desc |-> 0,
                        invalid |-> 0, edited |-> 0, replacement |-> editing,
                        editing |-> editing, refinalizing |-> FALSE]
        BY DEF Begin, NoScene
    <2>2. 0 \in 0 .. MaxScenes /\ 0 \in 0 .. Needs
        OBVIOUS
    <2> QED
        BY ONLY <2>1, <2>2, settings \in Settings, editing \in BOOLEAN DEF NewScenes
<1>4. UNCHANGED <<scene, pin_scene, scenes>> /\ Handled("SEND_NEWSCENE_SETUP")
    BY DEF Begin
<1>5. scene \in Shows /\ pin_scene \in BOOLEAN
    BY Types DEF SessionOK
<1>6. SessionOK' /\ InputHeld' /\ OutputSent' /\ Dialog' = "SEND_NEWSCENE_SETUP" /\ Open'
      /\ input'.kind # "new"
    BY <1>4, <1>5, HandledMoves DEF States
<1>7. TypeOK'
    BY <1>3, <1>4, <1>6 DEF SessionOK, IInv, TypeOK, NewScenes, scenes
<1>8. NullFailed' /\ CrashAccounted' /\ EntriesAccounted'
    BY <1>2, <1>3, <1>4
    DEF IInv, NullFailed, CrashAccounted, Culprit, EntriesAccounted, scenes
<1>9. NegotiatesOpen' /\ AttachedOnce'
    BY <1>3, <1>6, NoSettingsApart DEF NegotiatesOpen, AttachedOnce, Negotiating
<1>10. SceneThere' /\ Room'
    BY <1>3, <1>4, <1>6 DEF SceneThere, Room, Negotiating, IInv, scenes
<1>11. SettingThere' /\ PromptThere'
    <2>1. Len(settings) \in Nat /\ DOMAIN settings = 1 .. Len(settings)
        BY SettingsSeq
    <2>2. ~UnknownModule(settings)
        BY <2>1 DEF UnknownModule
    <2> QED
        BY <1>3, <1>6, <2>1, <2>2 DEF SettingThere, PromptThere
<1> QED
    BY <1>6, <1>7, <1>8, <1>9, <1>10, <1>11 DEF IInv

LEMMA EditSceneKeepsIInv == ASSUME IInv, rkt_scener_handle_input_editscene PROVE IInv'
<1>1. state = "RECV_EDITSCENE"
    BY DEF rkt_scener_handle_input_editscene
<1>2. scene < Len(contexts) /\ scene + 1 \in DOMAIN entries
    <2>1. scene < Len(contexts)
        BY <1>1 DEF IInv, SceneThere, Open, Dialog
    <2> QED
        BY <2>1, Types
<1>3. CASE ~entries[scene + 1] /\ Crash
    BY <1>2, <1>3, CrashKeepsIInv DEF Culprit
<1>4. CASE Begin([i \in 1 .. Needs |-> Undescribed("good")], TRUE)
    <2> DEFINE own == [i \in 1 .. Needs |-> Undescribed("good")]
    <2>1. own \in Settings /\ \A i \in DOMAIN own : ~own[i].desc
        <3>1. own \in [1 .. Needs -> [value : Values, desc : BOOLEAN]]
            BY DEF Undescribed, Values
        <3>2. Needs \in 0 .. Needs
            BY RktScenerAssumption
        <3>3. own \in Settings
            BY <3>1, <3>2, Zenon DEF Settings
        <3> QED
            BY <3>3 DEF Undescribed
    <2>2. Begin(own, TRUE)
        BY <1>4
    <2> HIDE DEF own
    <2> QED
        BY <1>1, <1>2, <2>1, <2>2, BeginKeepsIInv
<1>5. CASE input.kind = "text" /\ Begin(input.settings, TRUE)
    <2>1. input.settings \in Settings /\ \A i \in DOMAIN input.settings : ~input.settings[i].desc
        BY <1>5, LineKinds, Types DEF SessionOK
    <2> QED
        BY <1>1, <1>2, <1>5, <2>1, BeginKeepsIInv
<1> QED
    BY <1>3, <1>4, <1>5 DEF rkt_scener_handle_input_editscene

LEMMA NewSceneKeepsIInv == ASSUME IInv, rkt_scener_handle_input_newscene PROVE IInv'
<1>1. state = "RECV_NEWSCENE"
    BY DEF rkt_scener_handle_input_newscene
<1>2. Len(entries) < MaxScenes
    BY <1>1 DEF IInv, Room, Open, Dialog
<1>3. CASE Begin(<<>>, FALSE)
    <2>1. <<>> \in Settings
        <3> DEFINE none == <<>>
        <3>1. none \in Seq(Setting) /\ Len(none) <= Needs
            BY EmptySeq, RktScenerAssumption
        <3> HIDE DEF none
        <3>2. none \in Settings
            BY <3>1, SeqSettings
        <3> QED
            BY <3>2 DEF none
    <2>2. \A i \in DOMAIN <<>> : ~(<<>>[i].desc)
        OBVIOUS
    <2> QED
        BY <1>1, <1>2, <1>3, <2>1, <2>2, BeginKeepsIInv
<1>4. CASE input.kind = "text" /\ Begin(input.settings, FALSE)
    <2>1. input.settings \in Settings /\ \A i \in DOMAIN input.settings : ~input.settings[i].desc
        BY <1>4, LineKinds, Types DEF SessionOK
    <2> QED
        BY <1>1, <1>2, <1>4, <2>1, BeginKeepsIInv
<1> QED
    BY <1>3, <1>4 DEF rkt_scener_handle_input_newscene

(* A step of the negotiation that hangs nothing into the scenes' settings. *)
LEMMA NegotiateKeepsIInv ==
    ASSUME IInv, UNCHANGED <<scene, scenes>>, Open, Dialog \in Negotiating,
           new_scene' \in NewScenes, new_scene'.settings \in Settings,
           /\ new_scene'.at = new_scene.at
           /\ new_scene'.replacement = new_scene.replacement
           /\ new_scene'.refinalizing = new_scene.refinalizing,
           SessionOK', InputHeld', OutputSent', Open', Dialog' \in Negotiating,
           input'.kind # "new", SettingThere', PromptThere'
    PROVE  IInv'
<1>1. TypeOK'
    BY DEF SessionOK, IInv, TypeOK, NewScenes, scenes
<1>2. NullFailed' /\ CrashAccounted' /\ EntriesAccounted'
    BY DEF IInv, NullFailed, CrashAccounted, Culprit, EntriesAccounted, scenes
<1>3. NegotiatesOpen' /\ AttachedOnce'
    BY NoSettingsApart DEF IInv, NegotiatesOpen, AttachedOnce
<1>4. SceneThere' /\ Room'
    BY DEF SceneThere, Room, Negotiating, IInv, scenes
<1> QED
    BY <1>1, <1>2, <1>3, <1>4 DEF IInv

(* What a negotiation has. *)
LEMMA NegotiationTypes ==
    ASSUME IInv, state \in Negotiating
    PROVE  /\ Open /\ Dialog = state
           /\ new_scene \in NewScenes /\ new_scene.settings \in Settings
           /\ Len(new_scene.settings) \in 0 .. Needs
           /\ new_scene.setting \in 0 .. Needs /\ new_scene.desc \in 0 .. Needs
           /\ new_scene.invalid \in 0 .. Needs
           /\ new_scene.setting <= Len(new_scene.settings)
<1>1. Open /\ Dialog = state
    BY DEF Open, Dialog, Negotiating
<1>2. new_scene \in NewScenes /\ new_scene.settings # NoSettings
    BY <1>1, Types DEF IInv, NegotiatesOpen
<1>3. /\ new_scene.settings \in Settings
      /\ new_scene.setting \in 0 .. Needs /\ new_scene.desc \in 0 .. Needs
      /\ new_scene.invalid \in 0 .. Needs
    BY <1>2 DEF NewScenes
<1>4. new_scene.setting <= Len(new_scene.settings)
    BY <1>1 DEF IInv, SettingThere
<1> QED
    BY <1>1, <1>2, <1>3, <1>4, SettingsSeq

LEMMA SetupUnknownKeepsIInv == ASSUME IInv, SetupUnknown PROVE IInv'
<1>1. state \in Negotiating /\ state = "SEND_NEWSCENE_SETUP"
    BY DEF SetupUnknown, Negotiating
<1>2. new_scene.setting = 1 /\ new_scene.desc \in {0, 1}
    BY <1>1, NegotiationTypes DEF SetupUnknown, IInv, SettingThere
<1>3. /\ new_scene' \in NewScenes /\ new_scene'.settings = new_scene.settings
      /\ new_scene'.invalid = 1 /\ new_scene'.setting = 1 /\ new_scene'.desc = new_scene.desc
      /\ new_scene'.at = new_scene.at /\ new_scene'.replacement = new_scene.replacement
      /\ new_scene'.refinalizing = new_scene.refinalizing
    BY <1>1, <1>2, NegotiationTypes DEF SetupUnknown, InvalidSetting, NewScenes
<1>4. SessionOK' /\ InputHeld' /\ OutputSent' /\ Open' /\ input'.kind # "new"
      /\ Dialog' = "SEND_NEWSCENE_SETUP_PROMPT"
    BY SendMoves DEF SetupUnknown, InvalidSetting, States
<1>5. SettingThere' /\ PromptThere'
    BY <1>1, <1>2, <1>3, <1>4, NegotiationTypes DEF SettingThere, PromptThere, Prompting
<1> QED
    BY <1>1, <1>3, <1>4, <1>5, NegotiationTypes, NegotiateKeepsIInv
    DEF SetupUnknown, InvalidSetting, Negotiating

LEMMA SendPromptKeepsIInv == ASSUME IInv, SendPrompt PROVE IInv'
<1>1. state \in Negotiating /\ state = "SEND_NEWSCENE_SETUP_PROMPT"
    BY DEF SendPrompt, Negotiating
<1>2. SessionOK' /\ InputHeld' /\ OutputSent' /\ Open' /\ input'.kind # "new"
      /\ Dialog' = "RECV_NEWSCENE_SETUP"
    BY SendMoves DEF SendPrompt, States
<1>3. new_scene' = new_scene /\ UNCHANGED <<scene, scenes>>
    BY DEF SendPrompt
<1>4. SettingThere' /\ PromptThere'
    BY <1>1, <1>2, <1>3, NegotiationTypes
    DEF IInv, SettingThere, PromptThere, Prompting, Negotiating
<1> QED
    BY <1>1, <1>2, <1>3, <1>4, NegotiationTypes, NegotiateKeepsIInv DEF Negotiating

(* A setting is offered, or described without being offered. *)
LEMMA SetupWantsKeepsIInv == ASSUME IInv, SetupWants PROVE IInv'
<1> USE RktScenerAssumption
<1> DEFINE settings == new_scene.settings
           i == Wanted(settings)
           setting == IF i <= Len(settings) THEN i ELSE 0
           asked == [new_scene EXCEPT !.setting = setting, !.desc = i]
<1>1. state \in Negotiating /\ state = "SEND_NEWSCENE_SETUP" /\ i > 0
      /\ ~UnknownModule(settings)
    BY DEF SetupWants, Negotiating
<1>2. /\ Open /\ Dialog = state
      /\ new_scene \in NewScenes /\ settings \in Settings /\ Len(settings) \in 0 .. Needs
    BY <1>1, NegotiationTypes
<1>3. i \in 1 .. Needs /\ (i > Len(settings) => i = Len(settings) + 1)
    BY <1>1, <1>2, WantedFirst
<1>4. setting \in 0 .. Needs /\ setting <= Len(settings)
    BY <1>2, <1>3
<1>5. input = NoLine /\ output = FALSE
    BY <1>1, Types DEF IInv, InputHeld, OutputSent, Prompts, SessionOK
<1>6. /\ asked \in NewScenes /\ asked.settings = settings /\ asked.setting = setting
      /\ asked.desc = i /\ asked.invalid = new_scene.invalid
      /\ asked.editing = new_scene.editing
      /\ asked.at = new_scene.at /\ asked.replacement = new_scene.replacement
      /\ asked.refinalizing = new_scene.refinalizing
    <2> HIDE DEF i, setting, settings
    <2>1. setting \in 0 .. Needs /\ i \in 0 .. Needs
        BY <1>3, <1>4
    <2> QED
        BY <1>2, <2>1 DEF NewScenes, settings
<1>7. CASE /\ new_scene' = asked
           /\ Goto("SEND_NEWSCENE_SETUP_PROMPT") /\ UNCHANGED <<input, scene, pin_scene, scenes>>
           /\ setting > 0 => new_scene.editing \/ setting = new_scene.invalid
    <2> HIDE DEF i, setting, settings, asked
    <2>1. SessionOK' /\ InputHeld' /\ OutputSent'
        BY <1>5, <1>7, Types DEF Goto, SessionOK, States, InputHeld, OutputSent
    <2>2. Open' /\ Dialog' = "SEND_NEWSCENE_SETUP_PROMPT" /\ input'.kind # "new"
        BY <1>5, <1>7 DEF Goto, Open, Dialog, NoLine
    <2>3. SettingThere'
        BY <1>1, <1>4, <1>6, <1>7 DEF SettingThere
    <2>4. PromptThere'
        <3>1. Prompting' = i
            BY <1>3, <1>6, <1>7 DEF Prompting
        <3>2. setting \in {0, i} /\ (setting = 0 => i = Len(settings) + 1)
            BY <1>2, <1>3 DEF setting
        <3> QED
            BY <1>3, <1>6, <1>7, <3>1, <3>2 DEF PromptThere
    <2> QED
        BY <1>1, <1>2, <1>6, <1>7, <2>1, <2>2, <2>3, <2>4, NegotiateKeepsIInv DEF Negotiating
<1>8. CASE /\ new_scene' = [asked EXCEPT !.invalid = i] /\ setting = i
           /\ rkt_scener_send("SEND_NEWSCENE_SETUP_PROMPT")
           /\ UNCHANGED <<scene, pin_scene, scenes>>
    <2> HIDE DEF i, setting, settings, asked
    <2>1. SessionOK' /\ InputHeld' /\ OutputSent' /\ Open' /\ input'.kind # "new"
          /\ Dialog' = "SEND_NEWSCENE_SETUP_PROMPT"
        BY <1>8, SendMoves DEF States
    <2>2. /\ new_scene' \in NewScenes /\ new_scene'.settings = settings
          /\ new_scene'.setting = i /\ new_scene'.desc = i /\ new_scene'.invalid = i
          /\ new_scene'.at = new_scene.at /\ new_scene'.replacement = new_scene.replacement
          /\ new_scene'.refinalizing = new_scene.refinalizing
        <3>1. i \in 0 .. Needs
            BY <1>3
        <3> QED
            BY <1>6, <1>8, <3>1 DEF NewScenes
    <2>3. SettingThere'
        BY <1>1, <1>4, <1>8, <2>2 DEF SettingThere
    <2>4. PromptThere'
        BY <1>3, <2>2 DEF PromptThere, Prompting
    <2> QED
        BY <1>1, <1>2, <1>8, <2>1, <2>2, <2>3, <2>4, NegotiateKeepsIInv DEF Negotiating
<1>9. CASE /\ new_scene' = [asked EXCEPT !.settings[i].desc = TRUE] /\ setting = i
           /\ UNCHANGED <<session, scenes>>
    <2>1. i \in 1 .. Len(settings) /\ settings[i] \in Setting
        BY <1>2, <1>3, <1>9, SettingsSeq
    <2> DEFINE e == [settings[i] EXCEPT !.desc = TRUE]
               described == [settings EXCEPT ![i] = e]
    <2>2. e \in Setting
        <3> HIDE DEF i, settings
        <3> QED
            BY <2>1 DEF Setting
    <2>3. /\ described \in Settings /\ Len(described) = Len(settings)
          /\ \A j \in 1 .. Len(settings) : described[j] = IF j = i THEN e ELSE settings[j]
        <3> HIDE DEF i, settings, e
        <3> QED
            BY <1>2, <2>1, <2>2, SetSetting
    <2>4. /\ new_scene' \in NewScenes /\ new_scene'.settings = described
          /\ new_scene'.setting = i /\ new_scene'.desc = i
          /\ new_scene'.at = new_scene.at /\ new_scene'.replacement = new_scene.replacement
          /\ new_scene'.refinalizing = new_scene.refinalizing
        <3>1. new_scene' = [asked EXCEPT !.settings = described]
            BY <1>6, <1>9 DEF NewScenes
        <3> HIDE DEF i, setting, settings, asked, e, described
        <3> QED
            BY <1>6, <1>9, <2>3, <3>1 DEF NewScenes
    <2> HIDE DEF i, setting, asked, described
    <2>5. SessionOK' /\ InputHeld' /\ OutputSent' /\ UNCHANGED <<scene, scenes>>
        BY <1>9, Types DEF session, SessionOK, InputHeld, OutputSent, IInv
    <2>6. Open' /\ Dialog' = "SEND_NEWSCENE_SETUP" /\ input'.kind # "new"
        BY <1>1, <1>5, <1>9 DEF session, Open, Dialog, NoLine
    <2>7. SettingThere'
        <3>1. UnknownModule(described) => i = 1
            <4> SUFFICES ASSUME UnknownModule(described), i # 1
                         PROVE  FALSE
                OBVIOUS
            <4>1. 1 \in 1 .. Len(settings)
                BY <2>1
            <4>2. described[1] = settings[1]
                BY <2>3, <4>1
            <4> QED
                BY <1>1, <1>2, <2>3, <4>2 DEF UnknownModule
        <3> QED
            BY <2>1, <2>3, <2>4, <3>1 DEF SettingThere
    <2>8. PromptThere'
        BY <2>6 DEF PromptThere
    <2> QED
        BY <1>1, <1>2, <2>3, <2>4, <2>5, <2>6, <2>7, <2>8, NegotiateKeepsIInv DEF Negotiating
<1> QED
    <2>1. i \in Nat /\ Len(settings) \in Nat
        BY <1>2, <1>3
    <2>2. setting = 0 \/ setting = i
        OBVIOUS
    <2> QED
        BY <1>7, <1>8, <1>9, <2>1, <2>2 DEF SetupWants

(* An answer is put into the setting that was prompted for, or added as one. *)
LEMMA AnswerKeepsIInv == ASSUME IInv, rkt_scener_handle_input_newscene_setup PROVE IInv'
<1> USE RktScenerAssumption
<1> DEFINE settings == new_scene.settings
           k == new_scene.setting
           fixing == new_scene.invalid > 0 /\ k = new_scene.invalid
           kept == new_scene.editing /\ k > 0
           value == CASE input.kind = "answer" -> input.value
                      [] input.kind = "empty" /\ kept -> settings[k].value
                      [] OTHER -> "good"
<1>1. state \in Negotiating /\ state = "RECV_NEWSCENE_SETUP" /\ state \notin {"SENDING", "LISTENING"}
    BY DEF rkt_scener_handle_input_newscene_setup, Negotiating
<1>2. /\ Open /\ Dialog = state
      /\ new_scene \in NewScenes /\ settings \in Settings /\ Len(settings) \in 0 .. Needs
      /\ k \in 0 .. Needs /\ k <= Len(settings) /\ new_scene.desc \in 0 .. Needs
    BY <1>1, NegotiationTypes
<1>3. /\ Prompting > 0 /\ k \in {0, Prompting}
      /\ k = 0 => new_scene.desc = Len(settings) + 1
      /\ k > 0 => new_scene.editing \/ k = new_scene.invalid
      /\ UnknownModule(settings) => k = 1
    BY <1>1, <1>2 DEF IInv, PromptThere, SettingThere, Negotiating
<1>4. scene \in Shows /\ pin_scene \in BOOLEAN
      /\ UNCHANGED <<scene, pin_scene, scenes>>
    BY Types DEF SessionOK, rkt_scener_handle_input_newscene_setup
<1>5. CASE rkt_scener_send("SEND_NEWSCENE_SETUP") /\ UNCHANGED new_scene
    <2>1. SessionOK' /\ InputHeld' /\ OutputSent' /\ Open' /\ input'.kind # "new"
          /\ Dialog' = "SEND_NEWSCENE_SETUP"
        BY <1>4, <1>5, SendMoves DEF States
    <2>2. SettingThere' /\ PromptThere'
        BY <1>1, <1>2, <1>5, <2>1 DEF IInv, SettingThere, PromptThere, Negotiating
    <2> QED
        BY <1>1, <1>2, <1>4, <1>5, <2>1, <2>2, NegotiateKeepsIInv DEF Negotiating
<1>6. CASE Handled("SEND_NEWSCENE_SETUP") /\ UNCHANGED <<scene, pin_scene, scenes>>
    <2>1. SessionOK' /\ InputHeld' /\ OutputSent' /\ Open' /\ input'.kind # "new"
          /\ Dialog' = "SEND_NEWSCENE_SETUP"
        BY <1>1, <1>4, <1>6, HandledMoves DEF States
    <2>2. PromptThere'
        BY <2>1 DEF PromptThere
    <2>3. value \in Values
        <3>1. input.kind = "answer" => input.value \in {"good", "unchecked"}
            BY LineKinds, Types DEF SessionOK
        <3>2. kept => settings[k] \in Setting
            BY <1>2, SettingsSeq
        <3> QED
            BY <3>1, <3>2 DEF Setting, Values
    <2>4. ASSUME fixing \/ kept,
                 new_scene' = [new_scene EXCEPT
                                  !.settings[k].value = value,
                                  !.invalid = IF fixing THEN 0 ELSE @,
                                  !.edited = IF new_scene.editing THEN k ELSE @]
          PROVE  IInv'
        <3>1. k \in 1 .. Len(settings) /\ settings[k] \in Setting
            BY <1>2, <2>4, SettingsSeq
        <3> DEFINE e == [settings[k] EXCEPT !.value = value]
                   answered == [settings EXCEPT ![k] = e]
        <3>2. e \in Setting /\ e.desc = settings[k].desc
            <4> HIDE DEF k, settings, value
            <4> QED
                BY <2>3, <3>1 DEF Setting
        <3>3. /\ answered \in Settings /\ Len(answered) = Len(settings)
              /\ \A j \in 1 .. Len(settings) : answered[j] = IF j = k THEN e ELSE settings[j]
            <4> HIDE DEF k, settings, e
            <4> QED
                BY <1>2, <3>1, <3>2, SetSetting
        <3>4. /\ new_scene' \in NewScenes /\ new_scene'.settings = answered
              /\ new_scene'.setting = k /\ new_scene'.desc = new_scene.desc
              /\ new_scene'.at = new_scene.at /\ new_scene'.replacement = new_scene.replacement
              /\ new_scene'.refinalizing = new_scene.refinalizing
            <4> DEFINE invalid == IF fixing THEN 0 ELSE new_scene.invalid
                       edited == IF new_scene.editing THEN k ELSE new_scene.edited
            <4>1. new_scene' = [new_scene EXCEPT !.settings = answered, !.invalid = invalid,
                                                 !.edited = edited]
                BY <1>2, <2>4 DEF NewScenes
            <4>2. invalid \in 0 .. Needs /\ edited \in 0 .. Needs
                BY <1>2 DEF NewScenes
            <4> HIDE DEF settings, e, answered, invalid, edited
            <4> QED
                BY <1>2, <3>3, <4>1, <4>2 DEF NewScenes
        <3> HIDE DEF answered, e, value, fixing
        <3>5. SettingThere'
            <4>1. UnknownModule(answered) => k = 1
                <5> SUFFICES ASSUME UnknownModule(answered), k # 1
                             PROVE  FALSE
                    OBVIOUS
                <5>1. 1 \in 1 .. Len(settings)
                    BY <3>1
                <5>2. answered[1] = settings[1]
                    BY <3>3, <5>1
                <5>3. UnknownModule(settings)
                    BY <3>3, <5>2 DEF UnknownModule
                <5> QED
                    BY <1>3, <5>3
            <4>2. k = 1 => new_scene.desc \in {0, 1}
                <5>1. Prompting = new_scene.desc \/ new_scene.desc = 0
                    BY DEF Prompting
                <5> QED
                    BY <1>3, <5>1
            <4> QED
                BY <1>2, <3>3, <3>4, <4>1, <4>2 DEF SettingThere
        <3> QED
            BY <1>1, <1>2, <1>6, <2>1, <2>2, <3>3, <3>4, <3>5, NegotiateKeepsIInv
            DEF Negotiating
    <2>5. ASSUME ~(fixing \/ kept),
                 new_scene' = [new_scene EXCEPT
                                  !.settings = Append(@, Undescribed(value)),
                                  !.edited = IF new_scene.editing THEN Len(settings) + 1 ELSE @]
          PROVE  IInv'
        <3>1. k = 0 /\ Len(settings) < Needs
            BY <1>2, <1>3, <2>5
        <3>2. Undescribed(value) \in Setting /\ ~Undescribed(value).desc
            <4> HIDE DEF value
            <4> QED
                BY <2>3 DEF Undescribed, Setting
        <3> DEFINE added == Append(settings, Undescribed(value))
        <3>3. /\ added \in Settings /\ Len(added) = Len(settings) + 1
              /\ added[Len(settings) + 1] = Undescribed(value)
              /\ \A j \in 1 .. Len(settings) : added[j] = settings[j]
            BY <1>2, <3>1, <3>2, AddSetting
        <3>4. /\ new_scene' \in NewScenes /\ new_scene'.settings = added
              /\ new_scene'.setting = k /\ new_scene'.desc = new_scene.desc
              /\ new_scene'.at = new_scene.at /\ new_scene'.replacement = new_scene.replacement
              /\ new_scene'.refinalizing = new_scene.refinalizing
            <4>1. new_scene' = [new_scene EXCEPT
                                  !.settings = added,
                                  !.edited = IF new_scene.editing THEN Len(settings) + 1 ELSE @]
                BY <1>2, <2>5 DEF NewScenes
            <4>2. Len(settings) + 1 \in 0 .. Needs
                BY <1>2, <3>1
            <4> HIDE DEF settings, value, added
            <4> QED
                BY <1>2, <3>3, <4>1, <4>2 DEF NewScenes
        <3>5. SettingThere'
            <4>1. ~UnknownModule(added)
                <5>1. CASE Len(settings) = 0
                    BY <3>2, <3>3, <5>1 DEF UnknownModule
                <5>2. CASE Len(settings) # 0
                    <6>1. 1 \in 1 .. Len(settings)
                        BY <1>2, <5>2
                    <6>2. added[1] = settings[1] /\ Len(settings) > 0
                        BY <3>3, <6>1
                    <6> QED
                        BY <1>3, <3>1, <6>2 DEF UnknownModule
                <5> QED
                    BY <5>1, <5>2
            <4> QED
                BY <1>2, <3>1, <3>3, <3>4, <4>1 DEF SettingThere
        <3> QED
            BY <1>1, <1>2, <1>6, <2>1, <2>2, <3>3, <3>4, <3>5, NegotiateKeepsIInv
            DEF Negotiating
    <2>6. CASE input.kind = "junk"
        BY <1>5, <2>6 DEF rkt_scener_handle_input_newscene_setup
    <2> QED
        BY <2>4, <2>5, <2>6 DEF rkt_scener_handle_input_newscene_setup
<1> QED
    BY <1>4, <1>5, <1>6 DEF rkt_scener_handle_input_newscene_setup

(* Where the settings are attached, and that they are attached once. *)
LEMMA AttachedEntries ==
    ASSUME IInv, state = "SEND_NEWSCENE_SETUP"
    PROVE  /\ Attached.entries \in Seq(BOOLEAN) /\ Len(Attached.entries) \in 0 .. MaxScenes
           /\ Attached.at \in 1 .. MaxScenes
           /\ Len(Attached.entries)
                = Len(contexts) + aborted + IF new_scene.replacement THEN 0 ELSE 1
<1> USE RktScenerAssumption
<1>1. Open /\ Dialog = state /\ Dialog \in Negotiating
    BY DEF Open, Dialog, Negotiating
<1>2. Len(entries) <= MaxScenes /\ new_scene.at \in 0 .. MaxScenes
    BY Types DEF IInv, Room, NewScenes
<1>3. CASE new_scene.refinalizing
    <2>1. Attached.entries = entries /\ Attached.at = new_scene.at /\ new_scene.at > 0
        BY <1>1, <1>3 DEF Attached, IInv, AttachedOnce
    <2>2. Len(entries) = Len(contexts) + aborted + IF new_scene.replacement THEN 0 ELSE 1
        BY <2>1, Types DEF IInv, EntriesAccounted
    <2> QED
        BY <1>2, <2>1, <2>2, Types
<1>4. CASE ~new_scene.refinalizing
    <2>1. ~(new_scene.at > 0)
        BY <1>1, <1>4 DEF IInv, AttachedOnce
    <2>2. Len(entries) = Len(contexts) + aborted
        BY <2>1, Types DEF IInv, EntriesAccounted
    <2>3. CASE new_scene.replacement
        <3>1. /\ Attached.entries = [entries EXCEPT ![scene + 1] = TRUE]
              /\ Attached.at = scene + 1
            BY <1>4, <2>3 DEF Attached
        <3>2. scene < Len(contexts)
            BY <1>1, <2>3 DEF IInv, SceneThere
        <3>3. [entries EXCEPT ![scene + 1] = TRUE] \in Seq(BOOLEAN)
              /\ Len([entries EXCEPT ![scene + 1] = TRUE]) = Len(entries)
            BY Types, ExceptFlag
        <3> QED
            BY <1>2, <2>2, <2>3, <3>1, <3>2, <3>3, Types
    <2>4. CASE ~new_scene.replacement
        <3>1. /\ Attached.entries = Append(entries, TRUE)
              /\ Attached.at = Len(entries) + 1
            BY <1>4, <2>4 DEF Attached
        <3>2. Len(entries) < MaxScenes
            BY <1>1, <1>4, <2>4 DEF IInv, Room
        <3>3. Append(entries, TRUE) \in Seq(BOOLEAN)
              /\ Len(Append(entries, TRUE)) = Len(entries) + 1
            BY Types, AppendProperties
        <3> QED
            BY <2>2, <2>4, <3>1, <3>2, <3>3, Types
    <2> QED
        BY <2>3, <2>4
<1> QED
    BY <1>3, <1>4

LEMMA FinalizeRejectsKeepsIInv == ASSUME IInv, ~crashed, FinalizeRejects PROVE IInv'
<1> USE RktScenerAssumption
<1>1. state \in Negotiating /\ state = "SEND_NEWSCENE_SETUP"
      /\ ~UnknownModule(new_scene.settings)
      /\ entries' = Attached.entries
      /\ UNCHANGED <<scene, pin_scene, aborted, crashed, contexts, failures>>
    BY DEF FinalizeRejects, SetupComplete, Negotiating
<1>2. PICK i \in Rejected(new_scene.settings) :
            new_scene' = [new_scene EXCEPT !.at = Attached.at, !.refinalizing = TRUE,
                                           !.setting = i, !.desc = 0, !.invalid = i]
    BY DEF FinalizeRejects
<1>3. i \in 1 .. Len(new_scene.settings) /\ i \in 1 .. Needs
    BY <1>1, NegotiationTypes, SettingsSeq DEF Rejected
<1>4. SessionOK' /\ InputHeld' /\ OutputSent' /\ Open' /\ input'.kind # "new"
      /\ Dialog' = "SEND_NEWSCENE_SETUP_PROMPT"
    BY <1>1, SendMoves DEF FinalizeRejects, States
<1>5. /\ new_scene' \in NewScenes /\ new_scene'.settings = new_scene.settings
      /\ new_scene'.at = Attached.at /\ new_scene'.at > 0 /\ new_scene'.refinalizing
      /\ new_scene'.setting = i /\ new_scene'.desc = 0 /\ new_scene'.invalid = i
      /\ new_scene'.replacement = new_scene.replacement
    <2>1. i \in 0 .. Needs /\ 0 \in 0 .. Needs /\ Attached.at \in 0 .. MaxScenes
          /\ Attached.at > 0
        BY <1>1, <1>3, AttachedEntries
    <2> QED
        BY <1>1, <1>2, <2>1, NegotiationTypes DEF NewScenes
<1>6. TypeOK'
    BY <1>1, <1>4, <1>5, AttachedEntries DEF SessionOK, IInv, TypeOK, NewScenes
<1>7. NullFailed' /\ CrashAccounted'
    BY <1>1 DEF IInv, NullFailed, CrashAccounted
<1>8. EntriesAccounted'
    BY <1>1, <1>5, AttachedEntries DEF EntriesAccounted
<1>9. NegotiatesOpen' /\ AttachedOnce'
    BY <1>1, <1>4, <1>5, NegotiationTypes, NoSettingsApart
    DEF NegotiatesOpen, AttachedOnce, Negotiating
<1>10. SceneThere' /\ Room'
    BY <1>1, <1>4, <1>5, NegotiationTypes, AttachedEntries
    DEF IInv, SceneThere, Room, Negotiating
<1>11. SettingThere' /\ PromptThere'
    BY <1>1, <1>3, <1>4, <1>5, NegotiationTypes DEF SettingThere, PromptThere, Prompting
<1> QED
    BY <1>4, <1>6, <1>7, <1>8, <1>9, <1>10, <1>11 DEF IInv

LEMMA CreateFailsKeepsIInv == ASSUME IInv, ~crashed, CreateFails PROVE IInv'
<1> USE RktScenerAssumption
<1>1. state \in Negotiating /\ state = "SEND_NEWSCENE_SETUP"
      /\ entries' = Attached.entries
      /\ UNCHANGED <<scene, pin_scene, aborted, crashed, contexts>>
      /\ failures < MaxFailures /\ failures' = failures + 1
    BY DEF CreateFails, SetupComplete, Negotiating
<1>2. SessionOK' /\ InputHeld' /\ OutputSent' /\ ~Open'
    BY <1>1, CloseMoves DEF CreateFails
<1>3. /\ new_scene' \in NewScenes /\ new_scene'.settings = new_scene.settings
      /\ new_scene'.at = Attached.at /\ new_scene'.at > 0
      /\ new_scene'.replacement = new_scene.replacement
    <2>1. Attached.at \in 0 .. MaxScenes /\ Attached.at > 0
        BY <1>1, AttachedEntries
    <2> QED
        BY <1>1, <2>1, NegotiationTypes DEF CreateFails, NewScenes
<1>4. failures' \in 0 .. MaxFailures /\ failures' > 0
    BY <1>1, Types
<1>5. TypeOK'
    BY <1>1, <1>2, <1>3, <1>4, AttachedEntries DEF SessionOK, IInv, TypeOK, NewScenes
<1>6. NullFailed' /\ CrashAccounted'
    BY <1>1, <1>4 DEF NullFailed, CrashAccounted
<1>7. EntriesAccounted'
    BY <1>1, <1>3, AttachedEntries DEF EntriesAccounted
<1>8. NegotiatesOpen' /\ AttachedOnce'
    BY <1>1, <1>2, <1>3, NegotiationTypes, NoSettingsApart DEF NegotiatesOpen, AttachedOnce
<1>9. SceneThere' /\ Room' /\ SettingThere' /\ PromptThere'
    BY <1>1, <1>2, AttachedEntries DEF SceneThere, Room, SettingThere, PromptThere
<1> QED
    BY <1>2, <1>5, <1>6, <1>7, <1>8, <1>9 DEF IInv

LEMMA SceneMadeKeepsIInv == ASSUME IInv, ~crashed, SceneMade PROVE IInv'
<1> USE RktScenerAssumption
<1>1. state \in Negotiating /\ state = "SEND_NEWSCENE_SETUP"
      /\ entries' = Attached.entries
      /\ UNCHANGED <<pin_scene, aborted, crashed, failures>>
    BY DEF SceneMade, SetupComplete, Negotiating
<1>2. /\ contexts' \in Seq({"live", "null"})
      /\ Len(contexts') = Len(contexts) + IF new_scene.replacement THEN 0 ELSE 1
      /\ (\E i \in DOMAIN contexts' : contexts'[i] = "null")
            => \E i \in DOMAIN contexts : contexts[i] = "null"
      /\ scene' \in Shows
    <2> DEFINE C == {"live", "null"}
    <2>1. contexts \in Seq(C) /\ "live" \in C
        BY Types
    <2>2. CASE new_scene.replacement
        <3> DEFINE live == [contexts EXCEPT ![scene + 1] = "live"]
        <3>1. contexts' = live /\ scene' = scene
            BY <2>2 DEF SceneMade
        <3>2. /\ live \in Seq(C) /\ Len(live) = Len(contexts) /\ DOMAIN live = DOMAIN contexts
              /\ \A i \in DOMAIN contexts : live[i] = IF i = scene + 1 THEN "live" ELSE contexts[i]
            <4> HIDE DEF C
            <4> QED
                BY <2>1, ExceptElement
        <3> HIDE DEF live
        <3> QED
            BY <2>2, <3>1, <3>2, Types DEF SessionOK
    <2>3. CASE ~new_scene.replacement
        <3> DEFINE more == Append(contexts, "live")
        <3>1. contexts' = more /\ scene' = Len(contexts)
            BY <2>3 DEF SceneMade
        <3>2. more \in Seq(C) /\ Len(more) = Len(contexts) + 1
            <4> HIDE DEF C
            <4> QED
                BY <2>1, AppendProperties
        <3>3. /\ \A i \in 1 .. Len(contexts) : more[i] = contexts[i]
              /\ more[Len(contexts) + 1] = "live"
            <4> HIDE DEF C
            <4> QED
                BY <2>1, AppendProperties
        <3>4. DOMAIN more = 1 .. Len(more)
            <4> HIDE DEF C, more
            <4> QED
                BY <3>2, LenProperties
        <3>5. \A i \in DOMAIN more : more[i] = "null" => i \in DOMAIN contexts /\ contexts[i] = "null"
            <4> HIDE DEF more
            <4> SUFFICES ASSUME NEW i \in DOMAIN more, more[i] = "null"
                         PROVE  i \in DOMAIN contexts /\ contexts[i] = "null"
                OBVIOUS
            <4>1. i \in 1 .. Len(contexts) + 1 /\ i # Len(contexts) + 1
                BY <3>2, <3>3, <3>4
            <4>2. i \in 1 .. Len(contexts)
                BY <4>1, Types
            <4> QED
                BY <3>3, <4>2, Types
        <3>6. Len(contexts) \in Shows
            <4>1. Len(contexts) \in 0 .. MaxScenes
                BY <1>1, Types DEF IInv, Room
            <4> QED
                BY <4>1 DEF Shows
        <3> HIDE DEF more
        <3> QED
            BY <2>3, <3>1, <3>2, <3>5, <3>6
    <2> QED
        BY <2>2, <2>3
<1>3. /\ SessionOK' /\ InputHeld' /\ OutputSent' /\ Open' /\ input'.kind # "new"
      /\ Dialog' = "SEND_SCENES"
    <2>1. SessionOK'
        BY <1>1, <1>2, Types DEF SceneMade, rkt_scener_send, SessionOK, States
    <2>2. InputHeld' /\ OutputSent'
        BY DEF SceneMade, rkt_scener_send, InputHeld, OutputSent
    <2>3. Dialog' = "SEND_SCENES" /\ Open' /\ input'.kind # "new"
        BY DEF SceneMade, rkt_scener_send, Dialog, Open, NoLine
    <2> QED
        BY <2>1, <2>2, <2>3
<1>4. new_scene' \in NewScenes /\ new_scene'.settings = NoSettings /\ new_scene'.at = 0
    <2>1. new_scene' = [new_scene EXCEPT !.settings = NoSettings, !.at = 0,
                                         !.refinalizing = FALSE]
        BY DEF SceneMade
    <2>2. 0 \in 0 .. MaxScenes
        OBVIOUS
    <2> QED
        BY <1>1, <2>1, <2>2, NegotiationTypes DEF NewScenes
<1>5. TypeOK'
    BY <1>1, <1>2, <1>3, <1>4, Types, AttachedEntries DEF SessionOK, IInv, TypeOK, NewScenes
<1>6. NullFailed' /\ CrashAccounted'
    BY <1>1, <1>2 DEF IInv, NullFailed, CrashAccounted
<1>7. EntriesAccounted'
    BY <1>1, <1>2, <1>4, Types, AttachedEntries DEF EntriesAccounted
<1>8. NegotiatesOpen' /\ AttachedOnce' /\ SceneThere' /\ Room' /\ SettingThere' /\ PromptThere'
    BY <1>1, <1>3, <1>4, AttachedEntries
    DEF NegotiatesOpen, AttachedOnce, SceneThere, Room, SettingThere, PromptThere, Negotiating
<1> QED
    BY <1>3, <1>5, <1>6, <1>7, <1>8 DEF IInv

(* Listening again frees what was negotiated, which cuts an addition off. *)
LEMMA ListeningKeepsIInv == ASSUME IInv, ~crashed, Listening PROVE IInv'
<1>1. /\ state = "LISTENING" /\ input' = NoLine /\ Release
      /\ UNCHANGED <<scene, pin_scene, contexts, failures, crashed>>
    BY DEF Listening
<1>2. new_scene' \in NewScenes /\ new_scene'.settings = NoSettings /\ new_scene'.at = 0
    <2>1. new_scene' = [new_scene EXCEPT !.settings = NoSettings, !.at = 0]
        BY <1>1 DEF Release
    <2>2. 0 \in 0 .. MaxScenes
        BY RktScenerAssumption
    <2> QED
        BY <2>1, <2>2, Types DEF NewScenes
<1>3. \/ ~Open' /\ output' = FALSE /\ state' = "LISTENING"
      \/ state' = "SENDING" /\ Open' /\ Dialog' = "SEND_SCENES"
    BY <1>1 DEF Listening, Open, Dialog
<1>4. SessionOK' /\ InputHeld' /\ OutputSent' /\ input'.kind # "new"
    <2>1. InputHeld' /\ OutputSent' /\ input'.kind # "new"
        BY <1>1 DEF Listening, InputHeld, OutputSent, NoLine
    <2>2. /\ state' \in States /\ next_state' \in States \ {"SENDING", "RECVING"}
          /\ scene' \in Shows /\ input' \in Lines \cup {NoLine}
        BY <1>1, Types DEF Listening, SessionOK, States
    <2>3. pin_scene' \in BOOLEAN /\ client' \in BOOLEAN /\ output' \in BOOLEAN
        BY <1>1, Types DEF Listening, SessionOK
    <2> QED
        BY <2>1, <2>2, <2>3 DEF SessionOK
<1>5. /\ entries' \in Seq(BOOLEAN) /\ Len(entries') = Len(entries) /\ aborted' \in Nat
      /\ aborted' = aborted + IF new_scene.at > 0 /\ ~new_scene.replacement THEN 1 ELSE 0
    <2>1. CASE new_scene.settings # NoSettings /\ new_scene.at > 0
        <3>1. /\ entries' = [entries EXCEPT ![new_scene.at] = FALSE]
              /\ aborted' = IF new_scene.replacement THEN aborted ELSE aborted + 1
            BY <1>1, <2>1 DEF Release
        <3>2. entries' \in Seq(BOOLEAN) /\ Len(entries') = Len(entries)
            <4>1. entries \in Seq(BOOLEAN) /\ FALSE \in BOOLEAN
                BY Types
            <4> QED
                BY <3>1, <4>1, ExceptFlag
        <3> QED
            BY <2>1, <3>1, <3>2, Types
    <2>2. CASE ~(new_scene.settings # NoSettings /\ new_scene.at > 0)
        <3>1. ~(new_scene.at > 0)
            BY <2>2 DEF IInv, AttachedOnce
        <3> QED
            BY <1>1, <2>2, <3>1, Types DEF Release
    <2> QED
        BY <2>1, <2>2
<1>6. TypeOK'
    BY <1>1, <1>2, <1>4, <1>5 DEF SessionOK, IInv, TypeOK, NewScenes
<1>7. NullFailed' /\ CrashAccounted'
    BY <1>1 DEF IInv, NullFailed, CrashAccounted
<1>8. EntriesAccounted'
    BY <1>1, <1>2, <1>5, Types DEF IInv, EntriesAccounted
<1>9. NegotiatesOpen' /\ AttachedOnce' /\ SceneThere' /\ Room' /\ SettingThere' /\ PromptThere'
    BY <1>2, <1>3, <1>4, <1>5
    DEF IInv, NegotiatesOpen, AttachedOnce, SceneThere, Room, SettingThere, PromptThere,
        Negotiating
<1> QED
    BY <1>4, <1>6, <1>7, <1>8, <1>9 DEF IInv

---------------------------------------------------------------------------
LEMMA StepIInv == IInv /\ [Next]_vars => IInv'
<1>1. ASSUME IInv, ~crashed, NEW track \in Shows, rkt_scener_update(Shown(track))
      PROVE  IInv'
    <2>1. Shown(track) \in Shows
        BY <1>1, Types DEF Shown, SessionOK
    <2>2. CASE NewScene
        BY <1>1, <2>2, EditSceneKeepsIInv, NewSceneKeepsIInv, SetupUnknownKeepsIInv,
           SetupWantsKeepsIInv, FinalizeRejectsKeepsIInv, CreateFailsKeepsIInv,
           SceneMadeKeepsIInv, SendPromptKeepsIInv, AnswerKeepsIInv DEF NewScene
    <2>3. CASE ~NewScene
        BY <1>1, <2>1, <2>3, ListeningKeepsIInv, SendingKeepsIInv, RecvingKeepsIInv,
           ReceiveKeepsIInv, SendSettingsKeepsIInv, SendScenesKeepsIInv, SendSceneKeepsIInv,
           ScenesKeysKeepsIInv, SceneKeysKeepsIInv DEF rkt_scener_update
    <2> QED
        BY <2>2, <2>3
<1>2. ASSUME IInv, UNCHANGED vars PROVE IInv'
    BY <1>2
    DEF vars, session, scenes, IInv, TypeOK, InputHeld, NegotiatesOpen, AttachedOnce,
        SceneThere, Room, SettingThere, PromptThere, OutputSent, NullFailed,
        CrashAccounted, Culprit, EntriesAccounted, Open, Dialog, Prompting
<1> QED
    BY <1>1, <1>2, RendersNullKeepsIInv, ShutdownKeepsIInv DEF Next, rkt_render_fragment

(* Spec without the fairness: safety needs none. *)
LEMMA Invariance == RktScenerSpec => []IInv
BY InitIInv, StepIInv, PTL DEF RktScenerSpec

---------------------------------------------------------------------------
(* Types, for any number of scenes and settings: no index of a setting, an
   entry or a context is ever out of its range. *)
THEOREM TypeCorrect == RktScenerSpec => []TypeOK
BY Invariance, PTL DEF IInv

(* However sessions are cut off, refused or finish, entries and contexts
   differ by the addition under way and those cut off, so that a scene's
   number means the same entry and context until the first is cut off. *)
THEOREM EntriesAccountedCorrect == RktScenerSpec => []EntriesAccounted
BY Invariance, PTL DEF IInv

(* A prompt is about the setting its answer goes to, and what is freed, null
   or not there is only ever used after a failure or a cut. *)
THEOREM CrashesOnlyAfterAbortCorrect == RktScenerSpec => []CrashesOnlyAfterAbort
<1>1. IInv => PromptsTheSetting
    <2> SUFFICES ASSUME IInv PROVE PromptsTheSetting
        OBVIOUS
    <2>1. state \in {"SEND_NEWSCENE_SETUP_PROMPT", "RECV_NEWSCENE_SETUP"}
            => Prompting > 0 /\ new_scene.setting \in {0, Prompting}
        BY DEF IInv, PromptThere, Open, Dialog, Negotiating
    <2>2. state \in {"RECV_SCENES", "RECV_SCENE", "RECV_EDITSCENE", "RECV_NEWSCENE"}
            => new_scene.settings = NoSettings
        BY DEF IInv, NegotiatesOpen, Open, Dialog, Negotiating
    <2> QED
        BY <2>1, <2>2 DEF PromptsTheSetting, IInv, OutputSent
<1>2. IInv => CrashesOnlyAfterAbort
    BY <1>1 DEF IInv, CrashAccounted, Culprit, CrashesOnlyAfterAbort
<1> QED
    BY <1>2, Invariance, PTL
=============================================================================
