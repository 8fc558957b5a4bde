---------------------------- MODULE ModuleSetups ----------------------------
(***************************************************************************)
(* What every module's setup function asks for: for settings as they stand *)
(* the sequence of specifications it goes through (the tables of values,   *)
(* the preferred one, the conditions under which a setting is needed at    *)
(* all), which text its final parsing accepts, and for the modules that    *)
(* render others, how the nested settings are set up.                      *)
(*                                                                         *)
(* The order in which the final parsing visits the settings is left open:  *)
(* where it rejects several, any of them may be the one reported.          *)
(***************************************************************************)
EXTENDS TilSettings

---------------------------------------------------------------------------
(* The modules, by the flags the setups select on. *)
Hermetic == {"rkt", "rtv"}
Experimental == {"signals", "stub"}
AudioOnly == {"playit"}
Builtin == {"asc", "blank", "none", "noop", "pre", "ref"}
Overlayable ==
    {"book", "blinds", "checkers", "drizzle", "droste", "flow", "moire", "pan",
     "pixbounce", "plato", "shapes", "spiro", "spokes", "stars", "strobe",
     "submit", "swarm", "voronoi"}
Opaque ==
    {"compose", "flui2d", "julia", "meta2d", "mixer", "montage", "plasma", "ray",
     "roto", "snow", "sparkler", "swab"}

modules == Hermetic \cup Experimental \cup AudioOnly \cup Builtin
                    \cup Overlayable \cup Opaque

(* a nested choice of module: what is excluded, and what is preferred *)
NestedModule(preferred, excluded) == [preferred |-> preferred, excluded |-> excluded]
NotNested == NestedModule("", {})
NoRender == Hermetic \cup Experimental \cup AudioOnly

---------------------------------------------------------------------------
(***************************************************************************)
(* One specification.  "accepts" names the final parsing: "offered" texts  *)
(* only, a "number", a number that is "positive" or zero, one "upto255" or *)
(* "upto1", or "any" text.  "reports" is the key of the setting blamed.    *)
(* A "list" holds bare values, each of them a module with its settings.    *)
(***************************************************************************)
Spec(key, values, preferred, accepts) ==
    [key |-> key, values |-> values, preferred |-> preferred, accepts |-> accepts,
     reports |-> key, nested |-> FALSE, list |-> FALSE, inner |-> NotNested,
     random |-> {}, override |-> FALSE, optional |-> FALSE]

Choice(key, values, preferred) == Spec(key, values, Text(preferred), "offered")
Preset(key, values, preferred) == Spec(key, values, Text(preferred), "number")
Switch(key, preferred) == Spec(key, {"off", "on"}, Text(preferred), "any")
Typed(key, preferred, accepts) == Spec(key, {}, Text(preferred), accepts)

ModuleSpec(key, values, preferred, inner) ==
    [Spec(key, values, Text(preferred), "any") EXCEPT !.nested = TRUE, !.inner = inner]
ListSpec(key, preferred, random, inner) ==
    [Spec(key, {}, preferred, "any") EXCEPT
        !.nested = TRUE, !.list = TRUE, !.inner = inner, !.random = random]

(* the bare entries of a list are described as nested settings and nothing else *)
ElementSpec == [Spec("", {}, Text(""), "any") EXCEPT !.nested = TRUE]

When(condition, specs) == IF condition THEN specs ELSE <<>>

(* the few texts that are typed in, and what a parser makes of a value *)
TypedWords == {"junk", "-1", "300"}
TypedTexts ==
    {Text(w) : w \in TypedWords}
        \cup {String(<<"junk", "=", "junk">>), String(<<"junk", ",", "-1">>),
              <<Plain("junk"), [escapes |-> 1, char |-> "junk"]>>}
Parses(spec, text) ==
    CASE spec.accepts = "offered" -> text \in spec.values
      [] spec.accepts = "number" -> text # "junk"
      [] spec.accepts = "positive" -> text \notin {"junk", "-1"}
      [] spec.accepts = "upto255" -> text \notin TypedWords
      [] spec.accepts = "upto1" -> text \notin TypedWords
      [] spec.accepts = "strict" -> text \notin TypedWords
      [] OTHER -> TRUE

---------------------------------------------------------------------------
(* Modules that draw on their own. *)
BugOffsets == <<Typed("voffset", "auto", "number"),
                [Typed("hoffset", "auto", "number") EXCEPT !.reports = "halign"]>>
asc_offsets == <<Typed("voffset", "auto", "number"), Typed("hoffset", "auto", "number")>>
asc_setup(s) ==
    <<Typed("string", "Hello rototiller!", "any"),
      Choice("justify", {"aligned", "offsetted"}, "aligned")>>
    \o IF Given(s, "justify", {"aligned"})
       THEN <<Choice("valign", {"center", "top", "bottom"}, "center"),
              Choice("halign", {"center", "left", "right"}, "center")>>
       ELSE asc_offsets
    \o <<Typed("x", "0", "number"), Typed("y", "0", "number")>>

blinds_setup(s) ==
    <<Choice("orientation", {"horizontal", "vertical"}, "horizontal"),
      Spec("count", {"2", "4", "8", "12", "16", "24", "32"}, Text("16"), "upto255")>>

drizzle_setup(s) ==
    <<Preset("viscosity", {".005", ".01", ".03", ".05"}, ".01"),
      Choice("style", {"mask", "map"}, "mask")>>

flow_setup(s) ==
    <<Preset("size", {"2", "4", "8", "16", "32"}, "8"),
      Preset("count", {"100", "1000", "5000", "10000", "20000", "40000", "60000",
                       "80000", "100000"}, "40000"),
      Preset("speed", {".02", ".04", ".08", ".16", ".2", ".4", ".6", ".8", ".9", "1"}, ".2")>>

flui2d_setup(s) ==
    LET rates == {".000000000001", ".0000000001", ".000000001", ".00000001",
                  ".0000001", ".000001", ".00001", ".0001"}
    IN  <<Preset("viscosity", rates, ".000000001"),
          Preset("diffusion", rates, ".00001"),
          Spec("decay", {".000001", ".00001", ".0001", ".001", ".01"}, Text(".0001"), "upto1"),
          Choice("emitters", {"figure8", "clockgrid"}, "figure8")>>
        \o When(Given(s, "emitters", {"clockgrid"}),
                <<Preset("clockstep", {".05", ".1", ".25", ".33", ".5", ".66", ".75", ".99"}, ".5")>>)

moire_setup(s) ==
    <<Preset("centers", {"2", "3", "4", "5"}, "2"),
      Preset("rings", {"5", "10", "20", "40", "60", "80", "100"}, "20")>>

pan_setup(s) ==
    LET component == {"-1", "-.8", "-.7", "-.5", "-.25", "-.2", "-.1", "-.05", "0",
                      ".05", ".1", ".2", ".25", ".5", ".7", ".8", "1"}
    IN  <<Preset("x", component, ".25"), Preset("y", component, "-.5")>>

pixbounce_setup(s) ==
    <<Preset("pixmap_size", {"0", "0.2", "0.4", "0.6", "0.8", "1"}, "0.6"),
      Choice("pixmap", {"smiley", "crosshairs", "no", "circles", "qr_til", "ignignokt", "err"},
             "smiley")>>

plato_setup(s) ==
    LET rates == {"-1", "-.75", "-.5", "-.25", ".1", "0", ".25", ".5", ".75", "1"}
    IN  <<Preset("orbit_rate", rates, ".25"), Preset("spin_rate", rates, ".75")>>

playit_setup(s) ==
    <<Typed("itfile", "play.it", "any"), Choice("seekable", {"off", "on"}, "off"),
      Typed("bufsize", "4096", "number")>>

(* a pinch_spin that does not parse is blamed on "spin", which these
   settings need not have *)
shapes_setup(s) ==
    LET spins == {"-1", "-.9", "-.75", "-.5", "-.25", "-.1", "-.01", "0", ".01",
                  ".1", ".25", ".5", ".75", ".9", "1"}
        tens == {"3", "4", "5", "6", "7", "8", "9", "10"}
    IN  <<Choice("type", {"circle", "pinwheel", "rhombus", "star"}, "pinwheel")>>
        \o When(Given(s, "type", {"star", "pinwheel"}),
                <<Preset("points", tens \cup {"11", "12", "13", "14", "15", "16", "17",
                                              "18", "19", "20"}, "5"),
                  Preset("spin", spins, ".1")>>)
        \o <<Preset("scale", {".5", ".66", ".75", ".9", "1"}, "1"),
             Preset("pinches", tens \cup {"0", "1", "2"}, "0"),
             [Preset("pinch_spin", spins, ".5") EXCEPT !.reports = "spin"],
             Preset("pinch", {"0", ".1", ".25", ".33", ".5", ".66", ".75", ".9", "1"}, ".5")>>

sparkler_setup(s) ==
    <<Switch("show_bsp_leafs", "off")>>
    \o When(Given(s, "show_bsp_leafs", {"on"}),
            <<Preset("show_bsp_leafs_min_depth", {"0", "4", "6", "8", "10"}, "8")>>)
    \o <<Switch("show_bsp_matches", "off")>>
    \o When(Given(s, "show_bsp_matches", {"on"}),
            <<Switch("show_bsp_matches_affected_only", "off")>>)

spokes_setup(s) ==
    <<Preset("iterations", {"1", "2", "3", "4"}, "3"),
      Preset("count", {"2", "3", "4", "8", "10", "15", "20", "25", "30", "40"}, "4"),
      Preset("twist", {"-4.0", "-2.0", "-1.0", "-0.5", "-0.25", "-0.125", "-0.0625",
                       "-0.03125", "-0.015125", "0.0", "0.015125", "0.03125", "0.0625",
                       "0.125", "0.25", "0.5", "1.0", "2.0", "4.0"}, "0.0625"),
      Preset("thickness", {"1", "2", "3", "5"}, "3")>>

stars_setup(s) == <<Preset("rot_adj", {".0", ".00001", ".00003", ".0001", ".0003", ".001"}, ".00003")>>
strobe_setup(s) == <<Preset("hz", {"60", "50", "40", "20", "10", "4", "2", "1"}, "10")>>
submit_setup(s) == <<Switch("bilerp", "off")>>
swarm_setup(s) == <<Choice("style", {"points", "lines"}, "lines")>>
voronoi_setup(s) ==
    <<Preset("cells", {"512", "1024", "2048", "4096", "8192", "16384", "32768"}, "1024"),
      Switch("randomize", "off")>>

blank_setup(s) == <<Switch("force", "off")>>
_ref_setup(s) == <<Typed("path", "", "any")>>

---------------------------------------------------------------------------
(***************************************************************************)
(* Modules that render other modules.                                      *)
(***************************************************************************)
candidates ==
    {"blinds", "checkers", "drizzle", "julia", "meta2d", "moire", "pixbounce", "plasma",
     "plato", "roto", "shapes", "sparkler", "spiro", "stars", "submit", "swab", "swarm",
     "voronoi"}

book_page_module_setup == NestedModule("roto", NoRender \cup {"none", "book"})

(* at least two pages, of any of the candidates: two of them here *)
BugRandomPages == {ListOf(<<a>>) : a \in {"plasma", "roto", "checkers"}}
book_random_module_setting == {ListOf(<<a, b>>) : a, b \in {"plasma", "roto", "checkers"}}

book_setup(s) ==
    <<[Typed("rate", "10", "positive") EXCEPT !.random = {Text("10"), Text(".01")}],
      Typed("direction", "1.0", "number"),
      ListSpec("pages", ListOf(<<"plasma", "roto", "moire">>),
               book_random_module_setting, book_page_module_setup)>>

checkers_fill_module_setup == NestedModule("none", NoRender)
checkers_fill_settings(s) ==
    <<Choice("fill", {"color", "sampled", "textured", "random", "mixed"}, "color"),
      [Typed("fill_color", "0xffffff", "strict") EXCEPT !.random = {Text("#ff0000")}],
      Choice("clear", {"clear", "color", "sampled", "textured", "random", "mixed"}, "clear")>>
    \o When(~Given(s, "clear", {"clear"}),
            <<[Typed("clear_color", "0x000000", "strict") EXCEPT !.random = {Text("#0000ff")}]>>)

checkers_setup(s) ==
    <<Preset("size", {"4", "8", "16", "32", "64", "128"}, "32"),
      Choice("pattern", {"checkered", "random"}, "checkered"),
      ModuleSpec("fill_module", {"none", "blinds", "moire", "pixbounce", "plato", "roto",
                                 "shapes", "snow", "spiro", "stars"},
                 "none", checkers_fill_module_setup),
      Choice("dynamics", {"odd", "even", "alternating", "random"}, "odd")>>
    \o When(~Given(s, "dynamics", {"odd", "even"}),
            <<Preset("dynamics_rate", {"1.0", ".75", ".5", ".25", ".1", ".01", ".001", ".0001"},
                     "1.0")>>)
    \o checkers_fill_settings(s)

compose_layer_module_setup == NestedModule("moire", NoRender \cup {"none", "compose"})
compose_texture_module_setup == NestedModule("none", NoRender)

(* a base that is not an overlay, then one or more overlays: one of them here *)
compose_random_layers_setting ==
    LET usable == modules \ (NoRender \cup Builtin \cup {"compose"})
    IN  {ListOf(<<base, layer>>) : base \in usable \ Overlayable,
                                   layer \in usable \cap {"book", "droste", "checkers"}}

compose_setup(s) ==
    <<ListSpec("layers", ListOf(<<"drizzle", "stars", "spiro", "plato">>),
               compose_random_layers_setting, compose_layer_module_setup),
      ModuleSpec("texture", {"none", "blinds", "checkers", "drizzle", "julia", "moire", "plasma",
                             "roto", "stars", "submit", "swab", "voronoi"},
                 "none", compose_texture_module_setup)>>

droste_base_module_setup == NestedModule("blinds", NoRender)
droste_setup(s) ==
    <<ModuleSpec("base_module", {"blinds", "book", "moire", "plasma", "plato", "roto"},
                 "blinds", droste_base_module_setup)>>

mixer_style_settings(s) ==
    When(Given(s, "style", {"interlace", "paintroller", "sine", "dissolve"}),
         <<Choice("bottom", {"a", "b"}, "a")>>)
    \o When(Given(s, "style", {"paintroller"}),
            <<Choice("orientation", {"horizontal", "vertical"}, "vertical"),
              Preset("passes", {"2", "4", "6", "8", "10", "12", "16", "18", "20"}, "8")>>)
    \o When(Given(s, "style", {"dissolve"}), <<Choice("stability", {"unstable", "stable"}, "stable")>>)

mixer_random_module_setting == {Text(m) : m \in candidates \cup {"snow"}}

mixer_setup(s) ==
    LET input(preferred) == NestedModule(preferred, NoRender \cup {"none", "mixer"})
    IN  <<Choice("style", {"blend", "flicker", "interlace", "paintroller", "sine", "dissolve"}, "blend"),
          Choice("t", {"normal", "inverted"}, "normal")>>
        \o mixer_style_settings(s)
        \o <<[ModuleSpec("a_module", {}, "blank", input("blank")) EXCEPT
                 !.random = mixer_random_module_setting],
             [ModuleSpec("b_module", {}, "compose", input("compose")) EXCEPT
                 !.random = mixer_random_module_setting]>>

(* "all" stands for every module that can be a tile, except those that hold
   other modules on the screen *)
BugTilesOverride ==
    ListOf(FoldSet(LAMBDA m, names : Append(names, m), <<>>,
                   modules \ (NoRender \cup Builtin \cup {"compose", "rtv"})))
montage_tiles_setting_override ==
    ListOf(FoldSet(LAMBDA m, names : Append(names, m), <<>>,
                   modules \ (NoRender \cup Builtin \cup {"montage", "compose", "rtv"})))
montage_tile_module_setup == NestedModule("blank", NoRender)
montage_setup(s) ==
    <<[ListSpec("tiles", Text("all"), {}, montage_tile_module_setup) EXCEPT !.override = TRUE]>>

_pre_setup(s) ==
    <<ModuleSpec("module", {}, "none", NestedModule("none", Hermetic \cup Experimental))>>

rkt_scene_module_setup == NestedModule("compose", Hermetic \cup Experimental)
rkt_listens(s) ==
    <<Switch("listen", "on")>>
    \o When(Given(s, "listen", {"on"}),
            <<Typed("listen_address", "127.0.0.1", "any"), Typed("listen_port", "54321", "number")>>)
rkt_setup(s) ==
    <<ListSpec("scenes", Text("compose"), {}, rkt_scene_module_setup),
      Typed("base", "rkt", "any"), Typed("bpm", "125", "number"), Typed("rpb", "8", "number"),
      Switch("connect", "on")>>
    \o When(Given(s, "connect", {"on"}),
            <<Typed("host", "localhost", "any"), Typed("port", "1338", "number")>>)
    \o rkt_listens(s)

roto_fill_module_setup == NestedModule("none", NoRender)
roto_setup(s) ==
    <<ModuleSpec("fill_module", {"none", "blinds", "checkers", "moire", "pixbounce", "plato",
                                 "roto", "shapes", "spiro", "stars"},
                 "none", roto_fill_module_setup)>>

(* the channels must all be names of modules *)
rtv_snow_module_setup == NestedModule("none", NoRender)
rtv_snows(s) ==
    <<Typed("snow_duration", "0", "number"),
      ModuleSpec("snow_module", {}, "none", rtv_snow_module_setup),
      Switch("log_channels", "off")>>
rtv_setup(s) ==
    <<Typed("channels", "compose", "strict"),
      Typed("duration", "4", "number"), Typed("context_duration", "4", "number"),
      Typed("caption_duration", "2", "number")>>
    \o rtv_snows(s)

---------------------------------------------------------------------------
(* The specifications of a module; those without a setup function ask for nothing. *)
module_setup(m, s) ==
    CASE m = "asc" -> asc_setup(s) [] m = "blank" -> blank_setup(s)
      [] m = "blinds" -> blinds_setup(s) [] m = "book" -> book_setup(s)
      [] m = "checkers" -> checkers_setup(s) [] m = "compose" -> compose_setup(s)
      [] m = "drizzle" -> drizzle_setup(s) [] m = "droste" -> droste_setup(s)
      [] m = "flow" -> flow_setup(s) [] m = "flui2d" -> flui2d_setup(s)
      [] m = "mixer" -> mixer_setup(s) [] m = "moire" -> moire_setup(s)
      [] m = "montage" -> montage_setup(s) [] m = "pan" -> pan_setup(s)
      [] m = "pixbounce" -> pixbounce_setup(s) [] m = "plato" -> plato_setup(s)
      [] m = "playit" -> playit_setup(s) [] m = "pre" -> _pre_setup(s)
      [] m = "ref" -> _ref_setup(s) [] m = "rkt" -> rkt_setup(s)
      [] m = "roto" -> roto_setup(s) [] m = "rtv" -> rtv_setup(s)
      [] m = "shapes" -> shapes_setup(s) [] m = "sparkler" -> sparkler_setup(s)
      [] m = "spokes" -> spokes_setup(s) [] m = "stars" -> stars_setup(s)
      [] m = "strobe" -> strobe_setup(s) [] m = "submit" -> submit_setup(s)
      [] m = "swarm" -> swarm_setup(s) [] m = "voronoi" -> voronoi_setup(s)
      [] OTHER -> <<>>

---------------------------------------------------------------------------
(* The backends main.c chooses from, and their own settings. *)
setup_audio(s) ==
    When(Given(s, "", {"sdl"}), <<Preset("frames", {"512", "1024", "2048", "4096", "8192"}, "1024")>>)

(* "size" is asked for in a window; in full screen it is only described when
   it was given *)
sdl_fb_setup(s) ==
    <<Switch("fullscreen", "off"), Switch("vsync", "on"),
      [Typed("size", "640x480", "strict") EXCEPT !.optional = Given(s, "fullscreen", {"on"})]>>
mem_fb_setup(s) == <<Typed("size", "640x480", "strict")>>

(* one card, its connector and mode, stand for what libdrm enumerates *)
drm_fb_setup(s) ==
    <<Typed("dev", "/dev/dri/card0", "any"), Choice("connector", {"VGA-1"}, "VGA-1"),
      Choice("mode", {"640x480@60"}, "640x480@60")>>

setup_video(s) ==
    <<Spec("ratio", {"full", "1:1", "4:3", "3:2", "16:10", "5:3", "16:9", "2:1", "21:9", "32:9"},
           Text("full"), "strict")>>
    \o CASE Given(s, "", {"sdl"}) -> sdl_fb_setup(s)
         [] Given(s, "", {"drm"}) -> drm_fb_setup(s)
         [] Given(s, "", {"mem"}) -> mem_fb_setup(s)
         [] OTHER -> <<>>
=============================================================================
