------------------------------ MODULE MCShell ------------------------------
\* The scenes and programs of the shell runs.
EXTENDS ShellProps, TLC

CONSTANTS p1, p2

Printing == [say |-> <<"a">>, tell |-> <<"b", "c">>]
RawPrinting == [raw |-> <<"a", FF, "b">>]

OneShell == {<<"say", ">+", "f">>, <<"tell", ">+", "f">>, <<"tell", ">", "f">>,
             <<"nosuch", ">+", "f">>, <<"say", ">+", "f", "g">>, <<"say">>,
             <<">+", "f">>, <<"say", ">">>, <<"say", ">", "f", ">">>,
             <<"pwd", ">", "f">>, <<"exit">>}
Crashing == {<<"say", ">+", "f">>, <<"tell", ">", "f">>, <<"cd", "sub">>}
Racing == {<<"say", ">+", "f">>, <<"say", ">", "f">>}
Raw == {<<"raw", ">+", "f">>}

Alone == [shells |-> {p1}, commands |-> OneShell, given |-> 3,
          together |-> FALSE, crashes |-> FALSE, kills |-> TRUE, fails |-> FALSE]
Failing == [Alone EXCEPT !.given = 2, !.crashes = TRUE, !.fails = TRUE]
Restarted == [Alone EXCEPT !.shells = {p1, p2}, !.commands = Crashing,
                           !.given = 2, !.crashes = TRUE]
SideBySide == [Alone EXCEPT !.shells = {p1, p2}, !.commands = Racing,
                            !.given = 2, !.together = TRUE, !.kills = FALSE]
Interrupted == [SideBySide EXCEPT !.given = 1, !.kills = TRUE]
MCScenes == {Alone, Failing, Restarted, SideBySide, Interrupted}
RawScenes == {[Alone EXCEPT !.commands = Raw, !.given = 2]}
=============================================================================
