----------------------------- MODULE MCExecution -----------------------------
EXTENDS Runner

\* Runs that differ in what matters to the order of the calls: the language,
\* whether the program and its tests compile, which call is followed.
Load(lang, source, tests, follow, runs) ==
  [lang |-> lang, source |-> source, tests |-> tests, follow |-> follow, runs |-> runs,
   chatty |-> FALSE, files |-> 1, direct |-> TRUE, deps |-> None]

\* Dependency commands: `cargo add' and its fetch, `npm install' on top of one
\* another, `zig' with its manifest edited.
Command(lang, deps, follow) ==
  [Load(lang, "good", "none", follow, 2) EXCEPT !.deps = deps]

MCLoads ==
  { Load("rust", "good", "good", None, 1), Load("rust", "ill", "good", None, 1),
    Load("go", "good", "none", None, 2), Load("go", "ill", "good", None, 1),
    [Load("go", "good", "good", side, 1) EXCEPT !.direct = FALSE],
    Load("c", "good", "none", None, 3), Load("c", "ill", "good", None, 1),
    [Load("c", "good", "good", None, 1) EXCEPT !.chatty = TRUE, !.files = 2],
    Load("zig", "good", "good", None, 1), Load("zig", "ill", "ill", None, 1),
    [Load("zig", "good", "good", None, 1) EXCEPT !.direct = FALSE],
    Load("ts", "good", "good", None, 1), Load("ts", "unparsable", "good", side, 1),
    [Load("py", "good", "good", main, 1) EXCEPT !.chatty = TRUE],
    Command("rust", "add", None), Command("zig", "remove", None), Command("ts", "remove", None),
    [Command("ts", "add", main) EXCEPT !.chatty = TRUE] }
=============================================================================
