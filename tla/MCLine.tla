------------------------------- MODULE MCLine -------------------------------
EXTENDS Line

MCBytes == {"x", "/", "\\", "esc", "[", "A", "B", "200", "201", "~", "u1", "u2",
            "^C", "^H", "\t", "\n", "\r"}

MCNames == {<<"/", "x">>, <<"/", "x", "x">>}
=============================================================================
