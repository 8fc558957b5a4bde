------------------------------- MODULE Setup -------------------------------
(***************************************************************************)
(* Turning arguments into settings and settings into setups.  A setup      *)
(* function is called again and again on the settings as they stand; it    *)
(* returns a description of the next setting it needs, the front-end adds  *)
(* or checks that setting, and when nothing is missing the setup is baked  *)
(* from the values.  main.c does so for the module, the audio and the      *)
(* video backend in turn (setup_interactively()) and prints the flags that *)
(* reproduce the invocation; rtv's channels and the scener's random scenes *)
(* are filled in by til_module_settings_randomize().  The three share      *)
(* nothing, so a behaviour of this module is one negotiation.              *)
(***************************************************************************)
EXTENDS ModuleSetups, FiniteSets

CONSTANTS
    Arguments,      \* the modules --module= may name
    Deviations,     \* answers other than the preferred one, per negotiation
    Twice,          \* arguments whose negotiation may deviate once more
    FrontEnds,      \* of {"interactive", "randomize"}
    Turns           \* turns of the front-end's loop any negotiation may take

ASSUME SetupAssumption ==
    /\ Arguments \subseteq modules
    /\ Deviations \in Nat /\ Twice \subseteq Arguments
    /\ FrontEnds \subseteq {"interactive", "randomize"}
    /\ Turns \in Nat

VARIABLES
    front,          \* which front-end negotiates
    stage,          \* what is being set up
    arg,            \* the settings string given, none or one
    settings,       \* the settings instance and all that are nested in it
    setting,        \* path of the setting the setup function last returned
    status,         \* "asking", "failed" or, the setup baked, "configured"
    culprit,        \* path of the setting a failure is blamed on
    deviations,     \* how often the preferred value was not taken
    typed,          \* was something else than an offered value supplied?
    turns,          \* how often the setup function has been called
    round,          \* 1, or 2 when started with the flags the first round printed
    garbled         \* did those flags hold a value with a "," or an escape?

vars == <<front, stage, arg, settings, setting, status, culprit, deviations, typed, turns, round,
          garbled>>

---------------------------------------------------------------------------
(***************************************************************************)
(* What a setup function returns on settings s: a request is the path of   *)
(* the instance, the position of the setting there (0 when it is absent)   *)
(* and the specification; a sequence of none or one.                       *)
(***************************************************************************)
Request(i, spec) == <<[at |-> <<>>, i |-> i, spec |-> spec, known |-> TRUE]>>
UnknownName == <<[at |-> <<>>, i |-> 0, spec |-> ElementSpec, known |-> FALSE]>>
Below(i, request) ==
    IF request = <<>> THEN <<>> ELSE <<[request[1] EXCEPT !.at = <<i>> \o @]>>

(* what is asked for first *)
Before(asked, later) == IF asked # <<>> THEN asked ELSE later

ModuleChoice(inner) ==
    Spec("", modules \ inner.excluded, Text(inner.preferred), "any")

RECURSIVE til_module_setup_full(_, _), elements_setup(_, _, _), SetupSpecs(_, _)

(* the elements of a list first all become nested settings, then each is set up *)
elements_setup(s, inner, i) ==
    IF i > Len(s) THEN <<>>
    ELSE Before(Below(i, til_module_setup_full(s[i].nested, inner)), elements_setup(s, inner, i + 1))

list_setup(s, inner) ==
    LET bare == SelectInSeq(s, LAMBDA e : e.nested = <<>>)
    IN  IF bare > 0 THEN Request(bare, ElementSpec) ELSE elements_setup(s, inner, 1)

til_settings_get_and_describe_setting(s, spec) ==
    LET i == til_settings_get_setting_by_key(s, spec.key)
    IN  CASE i = 0 /\ spec.optional -> <<>>
          [] i = 0 /\ ~spec.optional -> Request(0, spec)
          [] i > 0 /\ ~s[i].desc -> Request(i, spec)
          [] i > 0 /\ s[i].desc /\ ~spec.nested -> <<>>
          [] OTHER -> Below(i, IF spec.list THEN list_setup(s[i].nested, spec.inner)
                               ELSE til_module_setup_full(s[i].nested, spec.inner))

(* the first specification that still asks for something *)
SetupSpecs(s, specs) ==
    IF specs = <<>> THEN <<>>
    ELSE Before(til_settings_get_and_describe_setting(s, Head(specs)), SetupSpecs(s, Tail(specs)))

(* select the module if not yet selected, then set it up *)
til_module_setup_full(s, inner) ==
    CASE ~Described(s, IF s = <<>> THEN 0 ELSE 1) ->
            Request(IF s = <<>> THEN 0 ELSE 1, ModuleChoice(inner))
      [] s # <<>> /\ s[1].desc /\ Word(s[1].value) \notin modules -> UnknownName
      [] OTHER -> SetupSpecs(s, module_setup(Word(s[1].value), s))

(* a backend is chosen the same way, by main.c *)
backend_setup(s, choice, specs) ==
    IF ~Described(s, IF s = <<>> THEN 0 ELSE 1)
    THEN Request(IF s = <<>> THEN 0 ELSE 1, choice)
    ELSE Before(SetupSpecs(s, specs),
                IF Word(s[1].value) \in choice.values THEN <<>> ELSE UnknownName)

setup_func(at, s) ==
    CASE at = "module" ->
            til_module_setup_full(s, NestedModule("rtv", Experimental))
      [] at = "audio" ->
            backend_setup(s, Choice("", {"sdl", "mem"}, "sdl"), setup_audio(s))
      [] at = "video" ->
            backend_setup(s, Choice("", {"drm", "mem", "sdl"}, "sdl"), setup_video(s))

---------------------------------------------------------------------------
(***************************************************************************)
(* Baking: the paths of the settings whose value the setup function does   *)
(* not accept.  Position 0 is a setting that is not there.                 *)
(***************************************************************************)
RECURSIVE RejectedBy(_, _), Rejected(_)

RejectedBy(s, spec) ==
    LET i == til_settings_get_setting_by_key(s, spec.key)
        under(paths, j) == {<<j>> \o path : path \in paths}
    IN  CASE i = 0 -> {}
          [] i > 0 /\ spec.list ->
                LET n == s[i].nested
                IN  under(UNION {under(Rejected(n[j].nested), j) : j \in DOMAIN n}, i)
                        \cup IF spec.key = "pages" /\ Len(n) < 2 THEN {<<i>>} ELSE {}
          [] i > 0 /\ spec.nested /\ ~spec.list -> under(Rejected(s[i].nested), i)
          [] OTHER -> IF Parses(spec, Word(s[i].value)) THEN {}
                      ELSE {<<til_settings_get_setting_by_key(s, spec.reports)>>}

RejectedOf(s, specs) == UNION {RejectedBy(s, specs[k]) : k \in DOMAIN specs}

Rejected(s) == RejectedOf(s, module_setup(Word(s[1].value), s))

til_module_settings_finalize(at, s) ==
    CASE at = "module" -> Rejected(s)
      [] at = "audio" -> RejectedOf(s, setup_audio(s))
      [] at = "video" -> RejectedOf(s, setup_video(s))

---------------------------------------------------------------------------
New(given) == IF given = <<>> THEN <<>> ELSE til_settings_new(given[1])

(* rtv and the scener name the module to randomize, arguments may name one *)
Init ==
    /\ front \in FrontEnds
    /\ stage \in IF front = "interactive" THEN {"module", "audio", "video"} ELSE {"module"}
    /\ arg \in (IF stage = "module" THEN {<<Text(a)>> : a \in Arguments} ELSE {})
                 \cup (IF front = "interactive" THEN {<<>>} ELSE {})
    /\ settings = New(arg)
    /\ setting = <<>> /\ status = "asking" /\ culprit = <<>>
    /\ deviations = 0 /\ turns = 0 /\ round = 1 /\ garbled = FALSE
    /\ typed = \E a \in Experimental : front = "interactive" /\ arg = <<Text(a)>>

Put(at, s) == settings' = WithInstance(settings, at, s)

Fail(path) == status' = "failed" /\ culprit' = path

(* the preferred value is the one a newline, or --defaults, stands for; what
   is drawn at random is one of the offered values where no generator is given *)
Usual(spec) == IF front = "randomize" /\ spec.random # {}
               THEN CHOOSE v \in spec.random : TRUE ELSE spec.preferred
Unusual(spec) == IF front = "randomize" /\ spec.random # {} THEN spec.random
                 ELSE {Text(v) : v \in spec.values}

(* a setting that is absent is added, to be described by the next call *)
AddSetting(request, v) ==
    /\ Put(request.at, add_setting(InstanceAt(settings, request.at), request.spec.key, v))
    /\ setting' = <<>>
    /\ UNCHANGED <<front, stage, arg, status, culprit, round, garbled>>

MayDeviate ==
    round = 1 /\ deviations < Deviations + IF arg \in {<<Text(a)>> : a \in Twice} THEN 1 ELSE 0

Answer(request) ==
    /\ request.known /\ request.i = 0
    /\ \/ AddSetting(request, Usual(request.spec)) /\ UNCHANGED deviations
       \/ /\ MayDeviate
          /\ deviations' = deviations + 1
          /\ \E v \in Unusual(request.spec) : AddSetting(request, v)
    /\ UNCHANGED typed

(* a typed text replaces the choices when it has a ':' in front *)
Type(request) ==
    /\ request.known /\ request.i = 0
    /\ front = "interactive" /\ MayDeviate
    /\ \E text \in TypedTexts :
            AddSetting(request, IF request.spec.values = {} THEN text ELSE Text(":") \o text)
    /\ deviations' = deviations + 1 /\ typed' = TRUE

(* a setting that is there is overridden, checked, turned into nested
   settings where the description says so, and described *)
Describe(request) ==
    LET s == InstanceAt(settings, request.at)
        e == s[request.i]
        spec == request.spec
        now == IF spec.override /\ e.value = Text("all")
               THEN til_setting_set_raw_value(e, montage_tiles_setting_override) ELSE e
        path == request.at \o <<request.i>>
    IN  /\ request.known /\ request.i > 0
        /\ setting' = path
        /\ IF front = "interactive" /\ ~til_setting_check_spec(now, spec)
           THEN Fail(path) /\ UNCHANGED settings
           ELSE /\ Put(request.at,
                       [s EXCEPT ![request.i] =
                          [now EXCEPT !.desc = TRUE,
                                      !.nested = IF spec.nested /\ @ = <<>>
                                                 THEN til_settings_new(til_setting_get_raw_value(now))
                                                 ELSE @]])
                /\ UNCHANGED <<status, culprit>>
        /\ UNCHANGED <<front, stage, arg, deviations, typed, round, garbled>>

(* a name that is no module's or audio backend's is an error that blames
   whatever setting was returned last; setup_video() returns the one in error *)
Unknown(request) ==
    /\ ~request.known
    /\ Fail(IF stage = "video" THEN <<1>> ELSE setting)
    /\ UNCHANGED <<front, stage, arg, settings, setting, deviations, typed, round, garbled>>

(* nothing is missing: bake the setup *)
Bake ==
    /\ LET rejected == til_module_settings_finalize(stage, settings)
       IN  IF rejected = {}
           THEN status' = "configured" /\ UNCHANGED <<culprit, setting>>
           ELSE \E path \in rejected : Fail(path) /\ setting' = path
    /\ UNCHANGED <<front, stage, arg, settings, deviations, typed, round, garbled>>

(* one turn of the front-end's loop around the setup function *)
Negotiate ==
    /\ status = "asking"
    /\ turns' = turns + 1
    /\ \E asked \in {setup_func(stage, settings)} :
          IF asked = <<>> THEN Bake
          ELSE \/ Answer(asked[1]) \/ Type(asked[1]) \/ Describe(asked[1])
               \/ Unknown(asked[1])

(* the flags print_setup_as_args() prints, or randomize stores @res_arg, are
   used by somebody: in a new run, or as the value of a nested setting *)
RunAgain ==
    /\ status = "configured" /\ round = 1
    /\ round' = 2 /\ turns' = 0 /\ status' = "asking"
    /\ arg' = <<til_settings_as_arg(settings)>> /\ garbled' = Garbles(settings)
    /\ settings' = New(arg')
    /\ UNCHANGED <<front, stage, setting, culprit, deviations, typed>>

Next == Negotiate \/ RunAgain

SetupSpec == Init /\ [][Next]_vars

---------------------------------------------------------------------------
(* Every offered value bakes: a negotiation in which nothing was typed does
   not fail, whatever is chosen from what the setups offer, prefer or draw at
   random (the tables of the outer settings, the exclusions of the nested
   module and the final parsing agree). *)
OffersBake == status = "failed" => typed

(* The printed flags reproduce the settings, if no value holds a "," or a
   backslash: a run started with them is asked for nothing and prints the same
   flags again, the separators of every nesting escaped so often that they
   come out where they were.  (A value with a "=" does survive; one with a ","
   or a backslash is escaped to one level too little in til_settings.c and
   comes apart.  The seed, which main.c prints beside the settings and does
   not read back when it has an odd number of digits, is none of them.) *)
Reproduces ==
    round = 2 /\ ~garbled =>
        /\ status # "failed"
        /\ status = "asking" =>
              \A request \in ToSet(setup_func(stage, settings)) : request.i > 0
        /\ status = "configured" => <<til_settings_as_arg(settings)>> = arg

(* Whenever a setup fails, the setting blamed is one that exists: it is what
   the front-end prints the path of (til_setup.c asserts it); but for the spin
   of a shape that has none, which shapes_setup() blames for its pinch_spin. *)
RECURSIVE Exists(_, _)
Exists(s, path) ==
    path # <<>> => /\ Head(path) \in DOMAIN s
                   /\ Exists(s[Head(path)].nested, Tail(path))
MissingSpin(path) ==
    path[Len(path)] = 0 /\ InstanceAt(settings, SubSeq(path, 1, Len(path) - 1))[1].value = Text("shapes")
CulpritExists ==
    status = "failed" => culprit # <<>> /\ (Exists(settings, culprit) \/ MissingSpin(culprit))

(* Instances of one tree have distinct paths, by which contexts and pipes are
   registered. *)
RECURSIVE Instances(_)
Instances(s) == {<<>>} \cup UNION {{<<i>> \o path : path \in Instances(s[i].nested)} :
                                     i \in {j \in DOMAIN s : s[j].nested # <<>>}}
PathsDistinct ==
    status = "configured" =>
        \A p, q \in Instances(settings) :
            til_settings_strprint_path(settings, p)
                = til_settings_strprint_path(settings, q) => p = q

(* Every negotiation comes to an end: nested modules do not go on preferring
   further nested modules, whatever one answer is. *)
TurnsBounded == turns <= Turns
=============================================================================
