--------------------------- MODULE MCAgentStart ---------------------------
EXTENDS AgentStart

CONSTANTS a, b

MCDirs == {a, b}
MCDefaults == <<b>>

\* A start on Windows, by the search unless something else is said.
Usual == [choice |-> "auto", mock |-> FALSE, windows |-> TRUE, type |-> "auto", path |-> None]

InDir == [Usual EXCEPT !.path = [dir |-> a, exe |-> FALSE]]
AtExe == [Usual EXCEPT !.path = [dir |-> a, exe |-> TRUE]]

MCSetups == {
    Usual, InDir, AtExe,
    [InDir EXCEPT !.windows = FALSE],
    [AtExe EXCEPT !.mock = TRUE],
    [AtExe EXCEPT !.choice = "uv"],
    [AtExe EXCEPT !.choice = "dtf82"],
    [InDir EXCEPT !.type = "uv"],
    [InDir EXCEPT !.type = "dtf-v5.8.2"],
    [InDir EXCEPT !.type = "other"],
    [Usual EXCEPT !.type = "malformed"]}
=============================================================================
