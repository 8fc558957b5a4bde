----------------------------- MODULE RktScener -----------------------------
(***************************************************************************)
(* rkt's scenes and their editor (src/modules/rkt/rkt_scener.c): a single  *)
(* TCP session, polled once per frame from rkt_render_fragment(), that     *)
(* adds, replaces and randomizes scenes while they are rendered.           *)
(*                                                                         *)
(* A scene is two things that have to agree: an entry of the settings the  *)
(* session prints and edits, and a context that is rendered.  An entry is  *)
(* kept as whether its nested settings are allocated.  Of the settings of  *)
(* a new scene what counts is which of them are there, which are described *)
(* and whether their values pass; Setup has the rest of a negotiation.     *)
(***************************************************************************)
EXTENDS Integers, Sequences, FiniteSets

CONSTANTS
    InitialScenes,      \* how many scenes rkt was set up with
    MaxScenes,          \* bound: scenes are not added beyond
    Needs,              \* settings a scene needs, the first is its module
    MaxFailures,        \* bound: contexts that cannot be created
    ExitScene           \* RKT_EXIT_SCENE_IDX

ASSUME RktScenerAssumption ==
    /\ InitialScenes \in Nat \ {0} /\ MaxScenes \in Nat /\ InitialScenes <= MaxScenes
    /\ Needs \in Nat \ {0} /\ MaxFailures \in Nat
    /\ ExitScene \in Nat /\ ExitScene > MaxScenes

VARIABLES
    state, next_state,  \* of the session
    scene,              \* the session's scene, counted from 0 as in the code
    pin_scene,          \* the session's scene is shown, whatever the track says
    client,             \* is there a connection?
    input,              \* the line received and not yet handled, or NoLine
    output,             \* is a message buffered?
    new_scene,          \* what is being negotiated
    entries,            \* the scenes' settings: are the nested ones allocated?
    contexts,           \* the scenes' contexts: "live", or "null" when not created
    aborted,            \* additions whose entry was made but whose context was not
    failures,           \* contexts that could not be created
    crashed             \* a freed, missing or absent object was used

session == <<state, next_state, scene, pin_scene, client, input, output>>
scenes == <<entries, contexts, aborted, failures, crashed>>
vars == <<session, new_scene, scenes>>

States ==
    {"LISTENING", "SENDING", "RECVING", "SEND_SETTINGS", "SEND_SCENES", "RECV_SCENES",
     "SEND_SCENE", "RECV_SCENE", "RECV_EDITSCENE", "RECV_NEWSCENE", "SEND_NEWSCENE_SETUP",
     "SEND_NEWSCENE_SETUP_PROMPT", "RECV_NEWSCENE_SETUP", "SHUTDOWN"}

(* the value of a setting passes, is "refused" by the check of its
   description, or is "unchecked" and refused when the setup is baked *)
Values == {"good", "refused", "unchecked"}
Settings == UNION {[1 .. n -> [value : Values, desc : BOOLEAN]] : n \in 0 .. Needs}
Undescribed(v) == [value |-> v, desc |-> FALSE]

NoSettings == <<[value |-> "none", desc |-> FALSE]>>
NoScene ==
    [settings |-> NoSettings, at |-> 0, setting |-> 0, desc |-> 0, invalid |-> 0, edited |-> 0,
     replacement |-> FALSE, editing |-> FALSE, refinalizing |-> FALSE]

(* the lines a user can send, by what they make of a prompt *)
NoLine == [kind |-> "none"]
Keys == [kind : {"new", "settings", "quit", "pin", "current", "edit", "randomize", "junk", "empty"}]
Numbers == [kind : {"number"}, scene : 0 .. MaxScenes]
Shows == 0 .. MaxScenes \cup {ExitScene}
Texts == [kind : {"text"}, settings : {s \in Settings : \A i \in DOMAIN s : ~s[i].desc}]
Answers == [kind : {"answer"}, value : {"good", "unchecked"}]
Lines == Keys \cup Numbers \cup Texts \cup Answers

TypeOK ==
    /\ state \in States /\ next_state \in States \ {"SENDING", "RECVING"}
    /\ scene \in Shows
    /\ pin_scene \in BOOLEAN /\ client \in BOOLEAN /\ output \in BOOLEAN
    /\ input \in Lines \cup {NoLine}
    /\ new_scene \in [settings : Settings \cup {NoSettings}, at : 0 .. MaxScenes,
                      setting : 0 .. Needs, desc : 0 .. Needs, invalid : 0 .. Needs,
                      edited : 0 .. Needs, replacement : BOOLEAN, editing : BOOLEAN,
                      refinalizing : BOOLEAN]
    /\ entries \in Seq(BOOLEAN) /\ contexts \in Seq({"live", "null"})
    /\ aborted \in Nat /\ failures \in 0 .. MaxFailures /\ crashed \in BOOLEAN

(* rkt_create_context() made the scenes' contexts, rkt_scener_startup() listens *)
Init ==
    /\ state = "LISTENING" /\ next_state = "LISTENING"
    /\ scene = 0 /\ pin_scene = FALSE /\ client = FALSE /\ input = NoLine /\ output = FALSE
    /\ new_scene = NoScene
    /\ entries = [i \in 1 .. InitialScenes |-> TRUE]
    /\ contexts = [i \in 1 .. InitialScenes |-> "live"]
    /\ aborted = 0 /\ failures = 0 /\ crashed = FALSE

---------------------------------------------------------------------------
(* Where a state handler leaves the session. *)
Goto(s) ==
    /\ state' = s
    /\ UNCHANGED <<next_state, client, output>>

rkt_scener_send(next) ==
    /\ state' = "SENDING" /\ next_state' = next
    /\ output' = TRUE /\ input' = NoLine
    /\ UNCHANGED client

rkt_scener_recv(next) ==
    /\ state' = "RECVING" /\ next_state' = next
    /\ UNCHANGED <<client, input, output>>

(* LISTENING closes the connection and frees everything when it is next polled *)
rkt_scener_err_close == Goto("LISTENING") /\ UNCHANGED input

Crash ==
    /\ crashed' = TRUE
    /\ UNCHANGED <<session, new_scene, entries, contexts, aborted, failures>>

---------------------------------------------------------------------------
(* The connection. *)
Release ==
    /\ IF new_scene.settings # NoSettings /\ new_scene.at > 0
       THEN /\ entries' = [entries EXCEPT ![new_scene.at] = FALSE]
            /\ aborted' = IF new_scene.replacement THEN aborted ELSE aborted + 1
       ELSE UNCHANGED <<entries, aborted>>
    /\ new_scene' = [new_scene EXCEPT !.settings = NoSettings, !.at = 0]

(* what was buffered and negotiated is freed, and the next peer is welcome *)
Listening ==
    /\ state = "LISTENING"
    /\ input' = NoLine /\ Release
    /\ \/ client' = FALSE /\ output' = FALSE /\ UNCHANGED <<state, next_state>>
       \/ client' = TRUE /\ output' = TRUE /\ state' = "SENDING" /\ next_state' = "SEND_SCENES"
    /\ UNCHANGED <<scene, pin_scene, contexts, failures, crashed>>

(* A socket that stays full leaves everything as it is; that it does not for
   ever is assumed of the peer, who reads or is gone. *)
Sending ==
    /\ state = "SENDING"
    /\ \/ /\ output' = FALSE /\ state' = next_state        \* all is sent
          /\ UNCHANGED <<next_state, client, input>>
       \/ rkt_scener_err_close                              \* the peer is gone
    /\ UNCHANGED <<scene, pin_scene, new_scene, scenes>>

Recving ==
    /\ state = "RECVING"
    /\ \/ /\ input' \in Lines
          /\ input'.kind = "text" => next_state \in {"RECV_EDITSCENE", "RECV_NEWSCENE"}
          /\ input'.kind = "answer" => next_state = "RECV_NEWSCENE_SETUP"
          /\ input'.kind \in {"number", "new", "settings", "quit", "pin", "current", "edit", "randomize"}
                => next_state \in {"RECV_SCENES", "RECV_SCENE"}
          /\ input'.kind = "new" => Len(entries) < MaxScenes
          /\ input'.kind = "junk" => next_state \notin {"RECV_EDITSCENE", "RECV_NEWSCENE"}
          /\ Goto(next_state)
       \/ rkt_scener_err_close                              \* closed, or an error
    /\ UNCHANGED <<scene, pin_scene, new_scene, scenes>>

Prompts == {"RECV_SCENES", "RECV_SCENE", "RECV_EDITSCENE", "RECV_NEWSCENE", "RECV_NEWSCENE_SETUP"}
Receive ==
    /\ state \in Prompts /\ input = NoLine
    /\ rkt_scener_recv(state)
    /\ UNCHANGED <<scene, pin_scene, new_scene, scenes>>

---------------------------------------------------------------------------
(* The dialogs: they print the paths of the contexts and the settings as args. *)
SendSettings ==
    /\ state = "SEND_SETTINGS"
    /\ IF \E i \in DOMAIN entries : ~entries[i] THEN Crash
       ELSE rkt_scener_send("SEND_SCENES")
            /\ UNCHANGED <<scene, pin_scene, new_scene, scenes>>

SendScenes ==
    /\ state = "SEND_SCENES"
    /\ IF \E i \in DOMAIN contexts : contexts[i] = "null" THEN Crash
       ELSE rkt_scener_send("RECV_SCENES")
            /\ UNCHANGED <<scene, pin_scene, new_scene, scenes>>

SendScene ==
    /\ state = "SEND_SCENE"
    /\ \/ /\ scene = ExitScene /\ Goto("SEND_SCENES")
          /\ UNCHANGED <<input, scene, pin_scene, new_scene, scenes>>
       \/ /\ scene # ExitScene /\ scene >= Len(entries)
          /\ rkt_scener_err_close
          /\ UNCHANGED <<scene, pin_scene, new_scene, scenes>>
       \/ /\ scene < Len(entries)
          /\ IF ~entries[scene + 1] \/ scene >= Len(contexts) THEN Crash
             ELSE IF contexts[scene + 1] = "null" THEN Crash
             ELSE rkt_scener_send("RECV_SCENE")
                  /\ UNCHANGED <<scene, pin_scene, new_scene, scenes>>

(* input that is handled is discarded *)
Handled(s) == Goto(s) /\ input' = NoLine

rkt_scener_edit_scene ==
    /\ IF ~entries[scene + 1] THEN Crash
       ELSE rkt_scener_send("RECV_EDITSCENE") /\ UNCHANGED <<scene, pin_scene, new_scene, scenes>>

(* the keys both prompts know: s is the dialog to go back to, shown the scene
   the track or the pin has on *)
CommonKeys(s, shown) ==
    \/ /\ input.kind = "number" /\ input.scene < Len(contexts)
       /\ scene' = input.scene /\ Handled("SEND_SCENE")
       /\ UNCHANGED <<pin_scene, new_scene, scenes>>
    \/ /\ (input.kind = "number" /\ input.scene >= Len(contexts)) \/ input.kind = "junk"
       /\ rkt_scener_send(s) /\ UNCHANGED <<scene, pin_scene, new_scene, scenes>>
    \/ /\ input.kind = "new"
       /\ rkt_scener_send("RECV_NEWSCENE") /\ UNCHANGED <<scene, pin_scene, new_scene, scenes>>
    \/ /\ input.kind = "pin"
       /\ pin_scene' = ~pin_scene /\ Handled(s) /\ UNCHANGED <<scene, new_scene, scenes>>
    \/ /\ input.kind = "current"
       /\ scene' = shown /\ Handled("SEND_SCENE") /\ UNCHANGED <<pin_scene, new_scene, scenes>>
    \/ /\ input.kind = "empty"
       /\ Handled("SEND_SCENES") /\ UNCHANGED <<scene, pin_scene, new_scene, scenes>>

rkt_scener_handle_input_scenes(shown) ==
    /\ state = "RECV_SCENES" /\ input # NoLine
    /\ \/ CommonKeys("SEND_SCENES", shown)
       \/ /\ input.kind = "settings" /\ Handled("SEND_SETTINGS")
          /\ UNCHANGED <<scene, pin_scene, new_scene, scenes>>
       \/ /\ input.kind = "quit" /\ rkt_scener_send("LISTENING")
          /\ UNCHANGED <<scene, pin_scene, new_scene, scenes>>
       \/ /\ input.kind \in {"edit", "randomize"} /\ rkt_scener_send("SEND_SCENES")
          /\ UNCHANGED <<scene, pin_scene, new_scene, scenes>>

(* the entry gets new settings, the old ones are neither used nor freed, and
   the context is freed before there is another *)
rkt_scener_randomize_scene_settings ==
    IF contexts[scene + 1] = "null" \/ ~entries[scene + 1] THEN Crash
    ELSE /\ entries' = [entries EXCEPT ![scene + 1] = TRUE]
         /\ \/ contexts' = [contexts EXCEPT ![scene + 1] = "live"] /\ UNCHANGED failures
            \/ /\ failures < MaxFailures /\ failures' = failures + 1
               /\ contexts' = [contexts EXCEPT ![scene + 1] = "null"]
         /\ Handled("SEND_SCENE")
         /\ UNCHANGED <<scene, pin_scene, new_scene, aborted, crashed>>

rkt_scener_handle_input_scene(shown) ==
    /\ state = "RECV_SCENE" /\ input # NoLine
    /\ \/ CommonKeys("SEND_SCENE", shown)
       \/ input.kind = "edit" /\ rkt_scener_edit_scene
       \/ input.kind = "randomize" /\ rkt_scener_randomize_scene_settings
       \/ /\ input.kind \in {"settings", "quit"} /\ rkt_scener_send("SEND_SCENE")
          /\ UNCHANGED <<scene, pin_scene, new_scene, scenes>>

---------------------------------------------------------------------------
(***************************************************************************)
(* A new scene's settings.  An edited scene starts from its own settings   *)
(* printed, or the line sent, and every setting is offered for editing.    *)
(***************************************************************************)
Begin(settings, editing) ==
    /\ new_scene' = [NoScene EXCEPT !.settings = settings,
                                    !.replacement = editing, !.editing = editing]
    /\ Handled("SEND_NEWSCENE_SETUP")
    /\ UNCHANGED <<scene, pin_scene, scenes>>

rkt_scener_handle_input_editscene ==
    /\ state = "RECV_EDITSCENE" /\ input # NoLine
    /\ \/ ~entries[scene + 1] /\ Crash
       \/ /\ entries[scene + 1] /\ input.kind = "empty"
          /\ Begin([i \in 1 .. Needs |-> Undescribed("good")], TRUE)
       \/ entries[scene + 1] /\ input.kind = "text" /\ Begin(input.settings, TRUE)

rkt_scener_handle_input_newscene ==
    /\ state = "RECV_NEWSCENE" /\ input # NoLine
    /\ \/ input.kind = "empty" /\ Begin(<<>>, FALSE)
       \/ input.kind = "text" /\ Begin(input.settings, FALSE)

(* what rkt_scene_module_setup() wants described: 0 when nothing; the module's
   name has to be known before anything else is asked for *)
BugWanted(settings) ==
    LET want == {i \in 1 .. Needs : i >= Len(settings) \/ ~settings[i].desc}
    IN  IF want = {} THEN 0 ELSE CHOOSE i \in want : \A j \in want : i <= j
Wanted(settings) ==
    LET want == {i \in 1 .. Needs : i > Len(settings) \/ ~settings[i].desc}
    IN  IF want = {} THEN 0 ELSE CHOOSE i \in want : \A j \in want : i <= j
UnknownModule(settings) ==
    Len(settings) > 0 /\ settings[1].desc /\ settings[1].value # "good"
Rejected(settings) == {i \in DOMAIN settings : settings[i].value # "good"}

InvalidSetting(i) ==
    /\ new_scene' = [new_scene EXCEPT !.invalid = i, !.setting = i]
    /\ rkt_scener_send("SEND_NEWSCENE_SETUP_PROMPT")
    /\ UNCHANGED <<scene, pin_scene, scenes>>

(* a name that is no module's leaves what was returned last *)
SetupUnknown ==
    /\ state = "SEND_NEWSCENE_SETUP" /\ UnknownModule(new_scene.settings)
    /\ InvalidSetting(new_scene.setting)

SetupWants ==
    /\ state = "SEND_NEWSCENE_SETUP" /\ ~UnknownModule(new_scene.settings)
    /\ Wanted(new_scene.settings) > 0
    /\ LET i == Wanted(new_scene.settings)
           setting == IF i <= Len(new_scene.settings) THEN i ELSE 0
           asked == [new_scene EXCEPT !.setting = setting, !.desc = i]
           offered == /\ new_scene.editing /\ setting > 0
                      /\ setting \notin {new_scene.invalid, new_scene.edited}
       IN  IF offered \/ setting = 0 \/ setting = new_scene.invalid
           THEN /\ new_scene' = asked
                /\ Goto("SEND_NEWSCENE_SETUP_PROMPT") /\ UNCHANGED <<input, scene, pin_scene, scenes>>
           ELSE IF new_scene.settings[i].value = "refused"
           THEN /\ new_scene' = [asked EXCEPT !.invalid = i]
                /\ rkt_scener_send("SEND_NEWSCENE_SETUP_PROMPT")
                /\ UNCHANGED <<scene, pin_scene, scenes>>
           ELSE /\ new_scene' = [asked EXCEPT !.settings[i].desc = TRUE]
                /\ UNCHANGED <<session, scenes>>

(* All is described: the settings are hung into the scenes' settings, before
   it is known that they can be baked and rendered. *)
BugAttachedAgain ==
    IF new_scene.replacement THEN [entries |-> [entries EXCEPT ![scene + 1] = TRUE], at |-> scene + 1]
    ELSE [entries |-> Append(entries, TRUE), at |-> Len(entries) + 1]
BugAttachedNew ==
    IF new_scene.refinalizing THEN [entries |-> entries, at |-> new_scene.at]
    ELSE [entries |-> Append(entries, TRUE), at |-> Len(entries) + 1]
Attached ==
    CASE new_scene.refinalizing -> [entries |-> entries, at |-> new_scene.at]
      [] ~new_scene.refinalizing /\ new_scene.replacement ->
            [entries |-> [entries EXCEPT ![scene + 1] = TRUE], at |-> scene + 1]
      [] OTHER -> [entries |-> Append(entries, TRUE), at |-> Len(entries) + 1]

SetupComplete ==
    /\ state = "SEND_NEWSCENE_SETUP" /\ ~UnknownModule(new_scene.settings)
    /\ Wanted(new_scene.settings) = 0
    /\ entries' = Attached.entries
    /\ UNCHANGED <<pin_scene, aborted, crashed>>

FinalizeRejects ==
    /\ SetupComplete
    /\ \E i \in Rejected(new_scene.settings) :
            new_scene' = [new_scene EXCEPT !.at = Attached.at, !.refinalizing = TRUE,
                                           !.setting = i, !.desc = 0, !.invalid = i]
    /\ rkt_scener_send("SEND_NEWSCENE_SETUP_PROMPT")
    /\ UNCHANGED <<scene, contexts, failures>>

CreateFails ==
    /\ SetupComplete /\ Rejected(new_scene.settings) = {}
    /\ failures < MaxFailures /\ failures' = failures + 1
    /\ new_scene' = [new_scene EXCEPT !.at = Attached.at, !.refinalizing = FALSE]
    /\ rkt_scener_err_close
    /\ UNCHANGED <<scene, contexts>>

SceneMade ==
    /\ SetupComplete /\ Rejected(new_scene.settings) = {}
    /\ IF new_scene.replacement
       THEN contexts' = [contexts EXCEPT ![scene + 1] = "live"] /\ UNCHANGED scene
       ELSE contexts' = Append(contexts, "live") /\ scene' = Len(contexts)
    /\ new_scene' = [new_scene EXCEPT !.settings = NoSettings, !.at = 0, !.refinalizing = FALSE]
    /\ rkt_scener_send("SEND_SCENES")
    /\ UNCHANGED failures

Prompting ==
    IF new_scene.invalid > 0 /\ new_scene.setting = new_scene.invalid /\ new_scene.desc = 0
    THEN new_scene.invalid ELSE new_scene.desc

SendPrompt ==
    /\ state = "SEND_NEWSCENE_SETUP_PROMPT"
    /\ rkt_scener_send("RECV_NEWSCENE_SETUP")
    /\ UNCHANGED <<scene, pin_scene, new_scene, scenes>>

(* an empty line accepts what is preferred, when editing what is there *)
rkt_scener_handle_input_newscene_setup ==
    LET n == new_scene
        fixing == n.invalid > 0 /\ n.setting = n.invalid
        kept == n.editing /\ n.setting > 0
        value == CASE input.kind = "answer" -> input.value
                   [] input.kind = "empty" /\ kept -> n.settings[n.setting].value
                   [] OTHER -> "good"
    IN  /\ state = "RECV_NEWSCENE_SETUP" /\ input # NoLine
        /\ IF input.kind = "junk"
           THEN rkt_scener_send("SEND_NEWSCENE_SETUP") /\ UNCHANGED new_scene
           ELSE /\ IF fixing \/ kept
                   THEN new_scene' = [n EXCEPT !.settings[n.setting].value = value,
                                               !.invalid = IF fixing THEN 0 ELSE @,
                                               !.edited = IF n.editing THEN n.setting ELSE @]
                   ELSE new_scene' = [n EXCEPT !.settings = Append(@, Undescribed(value)),
                                               !.edited = IF n.editing THEN Len(n.settings) + 1 ELSE @]
                /\ Handled("SEND_NEWSCENE_SETUP")
        /\ UNCHANGED <<scene, pin_scene, scenes>>

---------------------------------------------------------------------------
NewScene ==
    \/ rkt_scener_handle_input_editscene \/ rkt_scener_handle_input_newscene
    \/ SetupUnknown \/ SetupWants \/ FinalizeRejects \/ CreateFails \/ SceneMade
    \/ SendPrompt \/ rkt_scener_handle_input_newscene_setup

rkt_scener_update(shown) ==
    \/ Listening \/ Sending \/ Recving \/ Receive
    \/ SendSettings \/ SendScenes \/ SendScene
    \/ rkt_scener_handle_input_scenes(shown) \/ rkt_scener_handle_input_scene(shown)
    \/ NewScene

(* The track says which scene to show, the session overrides it when pinned. *)
Shown(track) == IF pin_scene THEN scene ELSE track

(* The session is polled once a frame, then the scene is rendered. *)
rkt_render_fragment ==
    /\ ~crashed
    /\ \E track \in Shows : rkt_scener_update(Shown(track))

RendersNull ==
    /\ ~crashed /\ state # "SHUTDOWN"
    /\ \E track \in Shows : /\ Shown(track) < Len(contexts)
                            /\ contexts[Shown(track) + 1] = "null"
    /\ Crash

(* rkt's context is destroyed, what is negotiated is not freed *)
rkt_scener_shutdown ==
    /\ ~crashed /\ state # "SHUTDOWN"
    /\ state' = "SHUTDOWN" /\ client' = FALSE /\ input' = NoLine /\ output' = FALSE
    /\ UNCHANGED <<next_state, scene, pin_scene, new_scene, scenes>>

Next == rkt_render_fragment \/ RendersNull \/ rkt_scener_shutdown

(* Frames go on, and a peer reads what it is sent or goes away. *)
RktScenerSpec == Init /\ [][Next]_vars /\ WF_vars(rkt_render_fragment)
---------------------------------------------------------------------------
(* The assertions on desc: a prompt is about the setting the answer will be put
   in, and a session negotiates only while it is in a state to do so. *)
PromptsTheSetting ==
    /\ state \in {"SEND_NEWSCENE_SETUP_PROMPT", "RECV_NEWSCENE_SETUP"}
         => Prompting > 0 /\ new_scene.setting \in {0, Prompting}
    /\ state \in {"RECV_SCENES", "RECV_SCENE", "RECV_EDITSCENE", "RECV_NEWSCENE"}
         => new_scene.settings = NoSettings
    /\ output => state \in {"SENDING", "LISTENING"}

(* The session never uses what is not there nor fails an assertion, and rkt
   never renders a scene without context, unless a context could not be created
   or an addition or replacement was cut off half way. *)
CrashesOnlyAfterAbort ==
    /\ PromptsTheSetting
    /\ crashed => failures > 0 \/ aborted > 0 \/ \E i \in DOMAIN entries : ~entries[i]

(* Entries and contexts agree: the only entries without context are the one
   being made and those whose making was cut off; they are counted. *)
EntriesAccounted ==
    Len(entries) = Len(contexts) + aborted
                     + IF new_scene.at > 0 /\ ~new_scene.replacement THEN 1 ELSE 0

(* Every session comes back to a prompt or ends; the setup of a new scene does
   not go round in circles. *)
Prompted == state # "RECVING" ~> state \in {"RECVING", "LISTENING", "SHUTDOWN"} \/ crashed

(* Whatever the session was doing, listening again leaves no entry with freed
   settings ("any state can just resume listening anytime, which will close
   and free things"). *)
EntriesLive == state = "LISTENING" => \A i \in DOMAIN entries : entries[i]
=============================================================================
