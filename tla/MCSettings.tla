----------------------------- MODULE MCSettings -----------------------------
EXTENDS Settings

CONSTANT m1

Symmetry == Permutations(Procs)

MCURLs == {<<>>, <<"a", "~", "\\">>, <<"b">>}
MCExamples == {<<"REPLACE">>, <<"<", "a", ">">>}
MCSecrets == {<<>>, <<"7", "#", "\t", "'", "\\", "^A">>}

NoEnv == [k \in Keys |-> Unset]
World(c, pl, says, e, m, y) == 
  [config |-> c, plain |-> pl, says |-> says, env |-> e, machine |-> m, yolo |-> y]
Wrote == [url |-> <<"'", "a", "~", "\\", "'", " ", "#">>,
          key |-> <<"\"", "7", "#", "\t", "'", "\\", "\\", "^A", "\"">>]
Says  == [url |-> <<"a", "~", "\\">>, key |-> <<"7", "#", "\t", "'", "\\", "^A">>]
Stale == [NoEnv EXCEPT !.key = <<"REPLACE">>]
Url   == [NoEnv EXCEPT !.url = <<"b">>, !.approve = "never"]
Old   == [NoEnv EXCEPT !.url = <<"b">>, !.key = <<"<", "a", ">">>, !.debug = "1"]
MCWorlds == {World(None, None, None, Url, m1, TRUE), World(NoEnv, None, None, Stale, m1, FALSE),
             World(Old, Wrote, Says, Stale, NoId, FALSE)}
=============================================================================
