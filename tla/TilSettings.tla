---------------------------- MODULE TilSettings ----------------------------
(***************************************************************************)
(* Settings instances (src/til_settings.c): a settings string is split     *)
(* into entries, each described by the setup function that understands it, *)
(* an entry's value being itself a settings string when the description    *)
(* says so.                                                                *)
(*                                                                         *)
(* A string is a sequence of characters, what the scanner and the printer  *)
(* treat alike being one of them, each with the number of backslashes in   *)
(* front of it (no string ends in one).  An instance is a sequence of      *)
(* entries; a path, a sequence of positions, leads to a nested one.        *)
(***************************************************************************)
EXTENDS Integers, Sequences, SequencesExt

Plain(c) == [escapes |-> 0, char |-> c]
String(chars) == [i \in DOMAIN chars |-> Plain(chars[i])]
Text(t) == IF t = "" THEN <<>> ELSE <<Plain(t)>>
ListOf(names) ==
    FlattenSeq([i \in DOMAIN names |-> String(IF i = 1 THEN <<names[i]>> ELSE <<",", names[i]>>)])

(* what a value is to those who compare or parse it: one word, or nothing
   they know *)
Word(v) == CASE Len(v) = 0 -> "" [] Len(v) = 1 -> v[1].char [] OTHER -> "junk"

(* a ':' in front of a raw value turns its check off and is not part of it *)
til_setting_set_raw_value(e, raw) ==
    LET nocheck == raw # <<>> /\ raw[1] = Plain(":")
    IN  [e EXCEPT !.value = IF nocheck THEN Tail(raw) ELSE raw, !.nocheck = nocheck]
til_setting_get_raw_value(e) == IF e.nocheck THEN Text(":") \o e.value ELSE e.value

(* a bare value has no key; an entry without description is not part of the
   printed form, and one described as nested settings holds their instance *)
add_setting(settings, key, raw) ==
    Append(settings, til_setting_set_raw_value(
        [key |-> key, value |-> <<>>, nocheck |-> FALSE, desc |-> FALSE, nested |-> <<>>], raw))

(* The scanner of key=value[,key=value...].  A backslash takes what follows
   as it is, so that half of them are left and an odd number hides a
   separator; the first "=" of a setting ends its key and any other is part of
   the value, and a setting without one is bare. *)
Separates(c, separator) == c.char = separator /\ c.escapes % 2 = 0
Unescaped(text) == [i \in DOMAIN text |-> [text[i] EXCEPT !.escapes = @ \div 2]]
ScanSetting(settings, text) ==
    LET equal == SelectInSeq(text, LAMBDA c : Separates(c, "="))
        unescaped == Unescaped(text)
    IN  add_setting(settings, Word(SubSeq(unescaped, 1, equal - 1)),
                    SubSeq(unescaped, equal + 1, Len(text)))

RECURSIVE ScanSettings(_, _)
ScanSettings(settings, string) ==
    LET comma == SelectInSeq(string, LAMBDA c : Separates(c, ","))
    IN  IF comma = 0 THEN ScanSetting(settings, string)
        ELSE ScanSettings(ScanSetting(settings, SubSeq(string, 1, comma - 1)),
                          SubSeq(string, comma + 1, Len(string)))

til_settings_new(string) == ScanSettings(<<>>, string)

(* position of the first entry of that key, 0 when there is none *)
til_settings_get_setting_by_key(settings, key) ==
    SelectInSeq(settings, LAMBDA e : e.key = key)

(* a described entry needs no more work of the front-end *)
Described(settings, i) == i > 0 /\ settings[i].desc

(* does an entry of the key have one of these values? *)
Given(settings, key, texts) ==
    LET i == til_settings_get_setting_by_key(settings, key)
    IN  i > 0 /\ Word(settings[i].value) \in texts

(***************************************************************************)
(* A specification says what a setting accepts.  "values" are the choices  *)
(* offered, {} when any text will do; "random" are the texts its own       *)
(* generator may produce; "all" is the value its override expands, and to  *)
(* what.                                                                   *)
(***************************************************************************)
til_setting_check_spec(e, spec) ==
    e.nocheck \/ spec.nested \/ spec.values = {} \/ Word(e.value) \in spec.values

(***************************************************************************)
(* The printed form.  What separates the settings of an instance nested    *)
(* depth levels deep is scanned depth times on its way back, each time     *)
(* losing half of its backslashes.  The values are escaped to the same     *)
(* depth although they are scanned once more.                              *)
(***************************************************************************)
BugEscapes(depth) == depth
Escapes(depth) == 2^depth - 1
fputc_escaped(char, depth) == <<[escapes |-> Escapes(depth), char |-> char]>>

(* a backslash is itself a character to escape; so is a quote, which no string
   here holds *)
fputs_escaped(value, depth) ==
    [i \in DOMAIN value |->
        [value[i] EXCEPT !.escapes = @ * (Escapes(depth) + 1)
                                       + IF value[i].char \in {"=", ","} THEN Escapes(depth) ELSE 0]]

RECURSIVE settings_as_arg(_, _)
settings_as_arg(settings, depth) ==
    LET shown == SelectSeq(settings, LAMBDA e : e.desc)
        keyed(e) == IF e.key = "" THEN <<>> ELSE Text(e.key) \o fputc_escaped("=", depth)
        valued(e) == IF e.nested # <<>> THEN settings_as_arg(e.nested, depth + 1)
                     ELSE fputs_escaped(til_setting_get_raw_value(e), depth)
        separated(i) == IF i = 1 THEN <<>> ELSE fputc_escaped(",", depth)
    IN  FlattenSeq([i \in DOMAIN shown |-> separated(i) \o keyed(shown[i]) \o valued(shown[i])])

til_settings_as_arg(settings) == settings_as_arg(settings, 0)

(* a printed value with a "," or an escape is not read back as it was *)
RECURSIVE Garbles(_)
Garbles(settings) ==
    \E i \in DOMAIN settings :
        /\ settings[i].desc
        /\ IF settings[i].nested # <<>> THEN Garbles(settings[i].nested)
           ELSE \E k \in DOMAIN settings[i].value : settings[i].value[k].char = "," \/ settings[i].value[k].escapes > 0

(* the instance a path leads to, and the tree with another instance there *)
RECURSIVE InstanceAt(_, _)
InstanceAt(tree, path) ==
    IF path = <<>> THEN tree ELSE InstanceAt(tree[Head(path)].nested, Tail(path))

RECURSIVE WithInstance(_, _, _)
WithInstance(tree, path, settings) ==
    IF path = <<>> THEN settings
    ELSE [tree EXCEPT ![Head(path)].nested = WithInstance(@, Tail(path), settings)]

(***************************************************************************)
(* The labels of a path are the keys above an instance, "[i]" for a bare   *)
(* value, followed by the first value where that one serves as a label:    *)
(* the name of the module or of the backend chosen.  What is registered by *)
(* path is shared by instances whose paths are equal.                      *)
(***************************************************************************)
BugLabel(e, i) == <<e.key, 0>>
Label(e, i) == IF e.key = "" THEN <<"[]", i>> ELSE <<e.key, 0>>
Chosen(s) ==
    IF s # <<>> /\ s[1].desc /\ s[1].key = "" /\ s[1].nested = <<>>
    THEN <<<<Word(s[1].value), 0>>>> ELSE <<>>

RECURSIVE til_settings_strprint_path(_, _)
til_settings_strprint_path(tree, path) ==
    IF path = <<>> THEN Chosen(tree)
    ELSE LET i == Head(path)
         IN  Chosen(tree) \o <<Label(tree[i], i)>>
                          \o til_settings_strprint_path(tree[i].nested, Tail(path))
=============================================================================
