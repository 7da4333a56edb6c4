------------------------------- MODULE MCHotkeys -------------------------------
(* Small instances of Hotkeys.                                               *)
EXTENDS Hotkeys

MCListOf == [all |-> <<"s1", "s2", "s3">>, tab |-> <<"s2", "s1">>]

\* a, b: keys of hotkeys; v, w: push-to-talk keys.
Bare == [windows |-> FALSE, overlap |-> TRUE, records |-> FALSE, fails |-> FALSE,
         patient |-> FALSE, stop |-> <<>>, views |-> {"all"}, ptts |-> {<<"v">>},
         hotkeys |-> [s1 |-> <<"a">>, s2 |-> <<"b", "a">>, s3 |-> <<>>],
         keys |-> {"a", "v"}, plays |-> 2, strokes |-> 2]

\* Chords of three keys over all views, the stop hotkey among them.
Matching == [Bare EXCEPT !.patient = TRUE, !.ptts = {<<>>}, !.views = {"all", "tab"},
                         !.stop = <<"b", "v">>, !.keys = {"a", "b", "v"}, !.strokes = 4,
                         !.hotkeys = [s1 |-> <<"a">>, s2 |-> <<"b", "a">>, s3 |-> <<"b">>]]
Recording == [Matching EXCEPT !.records = TRUE, !.ptts = {<<"v">>}, !.plays = 1, !.stop = <<>>,
                              !.views = {"all"}]
Interfering == [Bare EXCEPT !.records = TRUE, !.keys = {"a"}, !.plays = 1]
Racing == [Bare EXCEPT !.overlap = FALSE]
Changing == [Bare EXCEPT !.fails = TRUE, !.ptts = {<<"v">>, <<"w">>}, !.patient = TRUE,
                         !.strokes = 3]
Windows == [Bare EXCEPT !.windows = TRUE, !.ptts = {<<"v", "w">>}, !.patient = TRUE,
                        !.stop = <<"v">>]
WindowsRacing == [Bare EXCEPT !.windows = TRUE, !.overlap = FALSE, !.strokes = 1]

MCUsages == {Matching, Recording, Interfering, Racing, Changing, Windows,
             WindowsRacing}
================================================================================
