-------------------------------- MODULE Runner --------------------------------
(***************************************************************************)
(* One run of a program, from its files to its verdict: the `run' function *)
(* of every language (languages/*/run.rs).  A runner is a sequence of      *)
(* supervised calls.  Rust, Go and TypeScript start a second one at once,  *)
(* beside the first (the build of the tests, or the tests themselves), and *)
(* TypeScript a third (the type checker); a runner that returns drops      *)
(* those still under way.  What the fast compile paths keep from run to    *)
(* run (clang's precompiled header, Go's import configuration) is `cache'. *)
(* The commands that add and remove dependencies (ws/runtime.rs) are runs  *)
(* of another kind: supervised calls too, one command at a time.           *)
(***************************************************************************)
EXTENDS Supervisor

CONSTANTS
  Loads,       \* the kinds of run a behaviour is about: language, source, tests,
               \* or a dependency command
  MaxUpgrades  \* bound: times the tools, the header or the packages change

VARIABLES
  run,     \* the run under way, or the last one; in `mishaps', what went wrong
           \* in it that the program is not to blame for
  cache,   \* what the session keeps for the next run
  host     \* the versions of what is installed; the header's date and place

ASSUME RunnerAssumption ==
  /\ {"main", "side", "check"} \subseteq Call
  /\ None \notin Nat \cup Code \cup Stream \cup {"succeeded", "compile_error", "abnormal exit"}
  /\ None \notin [compiler : Nat, place : Nat]

rvars == <<call, token, run, cache, host>>

main == "main"    \* the call the runner waits for
side == "side"    \* the background test build or test run
check == "check"  \* tsc

\* The terminal state, a runtime error with its reason; and the state a
\* dependency command reports last.
Verdict == {"succeeded", "compile_error", "abnormal exit", "limit exceeded", "timed_out", "cancelled"}
DepsState == {"deps idle", "deps failed"}

Lang == run.load.lang
HasTests == run.load.tests # "none"

RunnerInit ==
  /\ call = [c \in Call |-> Idle]
  /\ token = FALSE
  /\ \E load \in Loads :
       run = [n |-> 0, load |-> load, pc |-> "over", left |-> 0, diagnosed |-> FALSE,
              cached |-> FALSE, sound |-> TRUE, upgraded |-> FALSE, cargo |-> FALSE,
              verdict |-> None, summed |-> FALSE, mishaps |-> {}]
  /\ cache = [pch |-> None, stamp |-> None, importcfg |-> None]
  /\ host = [compiler |-> 0, header |-> 0, dated |-> 0, place |-> 0, packages |-> 0]

(***************************************************************************)
(* Starting calls and returning.                                           *)
(***************************************************************************)
\* The next call the runner waits for; its program may be missing.
Starts(next, s) ==
  /\ run' = next
  /\ call' = [call EXCEPT ![main] = s]

At(stage) == \E s \in {Spawned, Unspawned} : Starts([run EXCEPT !.pc = stage], s)

\* A command whose inputs are in order, or not, whatever the source is.
AtWith(stage, sound) ==
  \E s \in {Spawned, Unspawned} : Starts([run EXCEPT !.pc = stage, !.sound = sound], s)

\* The runner returns, and drops what runs in the background.
EndsAfter(v, mishaps) ==
  /\ run' = [run EXCEPT !.pc = "over", !.verdict = v, !.mishaps = @ \cup mishaps]
  /\ call' = [call EXCEPT ![side] = Dropped(@)]

Ends(v) == EndsAfter(v, {})

Moves(stage) == run' = [run EXCEPT !.pc = stage] /\ UNCHANGED call

Superseded == call[main].cancelled \/ token
Gone(stage) == run.pc = stage /\ Returned(main)

\* A call whose program did not start, or that was killed for no reason of
\* the run's: there is another tool for the same work.
DidNotRun(c) ==
  Returned(c) /\ ExitCode(c) = None /\ ~call[c].cancelled /\ ~call[c].timedOut

\* A tool that was stopped, killed or never started has said nothing of the
\* program.
Undone(c) ==
  IF call[c].terminating \/ ExitCode(c) = None THEN {"tool"} ELSE {}

\* start_tests, start_test_build: what goes on beside the run from its start.
Background(s) ==
  [c \in Call |-> IF c = side /\ HasTests /\ Lang \in {"rust", "go", "ts"} THEN s ELSE Idle]

\* The scheduler hands over the next run once the last one has returned; a
\* dropped call makes room when its killer is done.
Begins ==
  /\ run.pc = "over" /\ run.n < run.load.runs /\ run.load.deps = None
  /\ call[side].pc = "dropped" => call[side].killer # "armed"
  /\ token' = FALSE
  /\ run' = [run EXCEPT !.n = @ + 1, !.pc = "file", !.left = run.load.files,
                        !.diagnosed = FALSE, !.sound = TRUE, !.upgraded = FALSE,
                        !.cargo = ~run.load.direct, !.verdict = None, !.summed = FALSE,
                        !.mishaps = {}]
  /\ \E s \in {Spawned, Unspawned} : call' = Background(s)
  /\ UNCHANGED <<cache, host>>

(***************************************************************************)
(* The files, instrumented one by one (common.rs, instrument_files; Zig    *)
(* has its own copy of the loop).                                          *)
(***************************************************************************)
\* record_metadata: the probes of a file, or why it has none.
Recorded(failed, mishaps) ==
  [run EXCEPT !.pc = "file", !.left = @ - 1, !.diagnosed = @ \/ failed,
              !.mishaps = @ \cup mishaps]

\* Zig writes the root of the tests first; if it cannot, the run ends there.
RootNotWritten ==
  /\ run.pc = "file" /\ run.left = run.load.files /\ Lang = "zig"
  /\ EndsAfter("compile_error", {"disk"})

\* The worker of the language answered; when it does not, the CLI is next.
FileByWorker ==
  /\ run.pc = "file" /\ run.left > 0 /\ Lang \in {"c", "ts", "py"}
  /\ IF token THEN Ends("cancelled")
     ELSE run' = Recorded(run.load.source = "unparsable", {}) /\ UNCHANGED call

FileByCommand ==
  /\ run.pc = "file" /\ run.left > 0
  /\ At("instrument")

FileDone ==
  /\ Gone("instrument")
  /\ IF Superseded THEN Ends("cancelled")
     ELSE /\ run' = Recorded(ExitCode(main) # "zero" \/ run.load.source = "unparsable",
                             Undone(main))
          /\ UNCHANGED call

\* The catalog and the diagnostics go out; any diagnostic ends the run.
Published ==
  /\ run.pc = "file" /\ run.left = 0
  /\ IF run.diagnosed THEN Ends("compile_error") ELSE Moves("compile")

InstrumentFiles ==
  /\ RootNotWritten \/ FileByWorker \/ FileByCommand \/ FileDone \/ Published
  /\ UNCHANGED <<token, cache, host>>

(***************************************************************************)
(* Compiling, language by language.  `load.direct' says that the manifest  *)
(* asks for nothing only the package manager can do.                       *)
(***************************************************************************)
\* What every compiled runner does with its last compile call.
Compiled ==
  CASE Superseded -> Ends("cancelled")
    [] ~Superseded /\ (ExitCode(main) # "zero" \/ call[main].limit # None) ->
         EndsAfter("compile_error", Undone(main))
    [] OTHER -> At("program")

\* rustc directly; cargo when it is not eligible or rustc did not run.
RustCompiles ==
  /\ Lang = "rust"
  /\ \/ run.pc = "compile" /\ At(IF run.load.direct THEN "rustc" ELSE "cargo")
     \/ Gone("rustc") /\ IF DidNotRun(main) THEN At("cargo") ELSE Compiled
     \/ Gone("cargo") /\ Compiled
  /\ UNCHANGED <<token, cache, host>>

\* The tests are built beside it the same way, by the task of start_test_build.
CargoIsNext == Lang = "rust" /\ ~run.cargo /\ DidNotRun(side)

RustTestBuild ==
  /\ run.pc # "over" /\ CargoIsNext
  /\ \E s \in {Spawned, Unspawned} : call' = [call EXCEPT ![side] = s]
  /\ run' = [run EXCEPT !.cargo = TRUE]
  /\ UNCHANGED <<token, cache, host>>

\* What the runner falls back to.
GoBuild == At("go build")

\* An export file the build cache has trimmed reads like a broken import:
\* the configuration is stale, not the program.
GoCompileDone ==
  LET kept == call[main].cancelled \/ call[main].timedOut
      failed == ExitCode(main) # "zero"
  IN  CASE kept -> Compiled /\ UNCHANGED cache
        [] ~kept /\ failed /\ run.cached /\ ~run.sound /\ ExitCode(main) # None ->
             GoBuild /\ cache' = [cache EXCEPT !.importcfg = None]
        [] ~kept /\ ExitCode(main) = None -> GoBuild /\ UNCHANGED cache
        [] ~kept /\ failed /\ ExitCode(main) # None /\ ~(run.cached /\ ~run.sound) ->
             Compiled /\ UNCHANGED cache
        [] ~kept /\ ~failed -> At("go link") /\ UNCHANGED cache

GoLinkDone ==
  IF ~call[main].cancelled /\ ~call[main].timedOut /\ ExitCode(main) # "zero"
  THEN GoBuild /\ cache' = [cache EXCEPT !.importcfg = None]
  ELSE Compiled /\ UNCHANGED cache

\* go/direct.rs: the packages listed (unless a configuration for these
\* imports is kept), then compile, then link; `go build' when it gives up.
GoCompiles ==
  /\ Lang = "go"
  /\ \/ /\ run.pc = "compile" /\ ~run.load.direct
        /\ GoBuild /\ UNCHANGED cache
     \/ /\ run.pc = "compile" /\ run.load.direct
        /\ \E same \in BOOLEAN :
             IF same /\ cache.importcfg # None
             THEN \E s \in {Spawned, Unspawned} :
                    Starts([run EXCEPT !.pc = "go compile", !.cached = TRUE,
                                       !.sound = cache.importcfg = host.packages], s)
             ELSE At("go list")
        /\ UNCHANGED cache
     \/ /\ Gone("go list") /\ ExitCode(main) # "zero"
        /\ GoBuild /\ UNCHANGED cache
     \/ /\ Gone("go list") /\ ExitCode(main) = "zero"
        /\ cache' = [cache EXCEPT !.importcfg = host.packages]
        /\ \E s \in {Spawned, Unspawned} :
             Starts([run EXCEPT !.pc = "go compile", !.cached = FALSE, !.sound = TRUE], s)
     \/ Gone("go compile") /\ GoCompileDone
     \/ Gone("go link") /\ GoLinkDone
     \/ Gone("go build") /\ Compiled /\ UNCHANGED cache
  /\ UNCHANGED <<token, host>>

\* Mutation: the header's age alone.
PchIsNewer == cache.pch # None /\ cache.pch.built >= host.dated

\* The compiler and the place of the header.
Stamp == [compiler |-> host.compiler, place |-> host.place]

\* runtime_pch_is_fresh: dated no earlier than the header, and stamped.
PchIsFresh ==
  /\ cache.pch # None /\ cache.pch.built >= host.dated
  /\ cache.stamp = Stamp

\* clang accepts what this compiler made of this header.
PchWorks == /\ cache.pch.whole
            /\ cache.pch.header = host.header /\ cache.pch.compiler = host.compiler

\* The header has been replaced where it was, by a file that is dated before
\* what was built from the one it replaced.
Misdated ==
  /\ cache.stamp = Stamp
  /\ cache.pch.built >= host.dated /\ cache.pch.header # host.header

\* Time, in changes of what is installed.
Now == host.compiler + host.header + host.packages

Unbuilt ==
  [header |-> host.header, compiler |-> host.compiler, built |-> Now, whole |-> FALSE]

\* The precompiled header of an earlier run.
HeaderKept ==
  /\ run.pc = "compile" /\ PchIsFresh
  /\ \E s \in {Spawned, Unspawned} :
       Starts([run EXCEPT !.pc = "clang", !.sound = PchWorks,
                          !.mishaps = IF Misdated THEN @ \cup {"misdated"} ELSE @], s)
  /\ UNCHANGED cache

\* runtime_pch: the header is built again when it is not fresh, its stamp
\* removed before and written after; clang does without it when the stamp
\* cannot be removed or the header not be built.
Header ==
  \/ HeaderKept
  \/ /\ run.pc = "compile" /\ ~PchIsFresh
     /\ At("header")
     /\ cache' = [cache EXCEPT !.stamp = None, !.pch = Unbuilt]
  \/ /\ run.pc = "compile" /\ ~PchIsFresh
     /\ AtWith("clang", TRUE) /\ UNCHANGED cache
  \/ /\ Gone("header") /\ ExitCode(main) = "zero"
     /\ AtWith("clang", cache.pch.compiler = host.compiler)
     /\ \E stamp \in {None, [compiler |-> cache.pch.compiler, place |-> host.place]} :
          cache' = [cache EXCEPT !.pch.whole = TRUE, !.stamp = stamp]
  \/ /\ Gone("header") /\ ExitCode(main) # "zero"
     /\ AtWith("clang", TRUE) /\ UNCHANGED cache

\* cfamily: the precompiled header first, then clang with or without it.
CCompiles ==
  /\ Lang = "c"
  /\ Header \/ (Gone("clang") /\ Compiled /\ UNCHANGED cache)
  /\ UNCHANGED <<token, host>>

\* What the compile servers say of the program and of the tests: built,
\* failed, or nothing (no server, an answer that did not come).
ServerAnswers ==
  [program : {"built", "failed", None}, tests : {"built", "failed", None}]

Truthful(a) ==
  /\ a.program = "built" => run.load.source = "good"
  /\ a.program = "failed" => run.load.source = "ill"
  /\ a.tests = "failed" => HasTests /\ (run.load.tests = "ill" \/ run.load.source = "ill")
  /\ a.tests = "built" => ~HasTests \/ (run.load.tests = "good" /\ run.load.source = "good")
  /\ ~HasTests => a.tests = "built"

\* classic_compile: one build of the program and the tests.
ZigBuild == At("zig build")

\* zig: both servers at once, and the classic build when either is silent.
ZigCompiles ==
  /\ Lang = "zig"
  /\ \/ /\ run.pc = "compile" /\ run.load.direct
        /\ Moves("servers")
     \/ /\ run.pc = "servers"
        /\ \E a \in ServerAnswers :
             /\ Truthful(a)
             /\ CASE token -> Ends("cancelled")
                  [] ~token /\ None \in {a.program, a.tests} -> ZigBuild
                  [] ~token /\ None \notin {a.program, a.tests} ->
                       IF a.program = "built" /\ a.tests = "built"
                       THEN At("program") ELSE Ends("compile_error")
     \/ run.pc = "compile" /\ ~run.load.direct /\ ZigBuild
     \/ Gone("zig build") /\ Compiled
  /\ UNCHANGED <<token, cache, host>>

\* Python has nothing to compile; TypeScript is checked beside the program.
Interpreted ==
  /\ Lang \in {"ts", "py"} /\ run.pc = "compile"
  /\ \E s, t \in {Spawned, Unspawned} :
       call' = [call EXCEPT ![main] = s, ![check] = IF Lang = "ts" THEN t ELSE @]
  /\ run' = [run EXCEPT !.pc = "program"]
  /\ UNCHANGED <<token, cache, host>>

(***************************************************************************)
(* Running the program, and the tests after it.                            *)
(***************************************************************************)
Finishes(summary) ==
  /\ run' = [run EXCEPT !.pc = "over", !.summed = @ \/ summary]
  /\ call' = [call EXCEPT ![side] = Dropped(@)]

\* cargo built the tests and names no binary of theirs.
FindsNoBinary ==
  /\ run.cargo
  /\ run' = [run EXCEPT !.pc = "over", !.mishaps = @ \cup {"unfound"}]
  /\ call' = [call EXCEPT ![side] = Dropped(@)]

\* What the program did is the verdict, kept while the tests run.
Kept ==
  /\ run' = [run EXCEPT !.pc = "tests",
       !.verdict = IF ExitCode(main) = "zero" THEN "succeeded" ELSE "abnormal exit"]
  /\ UNCHANGED call

\* classify_execution, then the exit code.
Classified ==
  LET s == call[main] IN
  CASE Superseded -> Ends("cancelled")
    [] ~Superseded /\ s.timedOut -> Ends("timed_out")
    [] ~Superseded /\ ~s.timedOut /\ s.limit # None -> Ends("limit exceeded")
    [] OTHER -> Kept

\* run_executable, the same decision made once more for Zig.
ZigProgram == Lang = "zig" /\ Gone("program") /\ Classified

\* TypeScript: neither the checker nor the program is left behind.
TsProgram == Lang = "ts" /\ Gone("program") /\ Returned(check) /\ Classified

RustProgram == Lang = "rust" /\ Gone("program") /\ Classified
GoProgram == Lang = "go" /\ Gone("program") /\ Classified
CProgram == Lang = "c" /\ Gone("program") /\ Classified
PyProgram == Lang = "py" /\ Gone("program") /\ Classified

ProgramEnds ==
  /\ RustProgram \/ GoProgram \/ CProgram \/ ZigProgram \/ TsProgram \/ PyProgram
  /\ UNCHANGED <<token, cache, host>>

NoTests == run.pc = "tests" /\ (~HasTests \/ token) /\ Finishes(FALSE)

Tested(stage) == run.pc = "tests" /\ HasTests /\ ~token /\ At(stage)

\* rust: the build that started with the run, then its binary.
RustTests ==
  /\ Lang = "rust"
  /\ \/ NoTests
     \/ /\ run.pc = "tests" /\ HasTests /\ ~token
        /\ Moves("await")
     \/ /\ run.pc = "await" /\ Returned(side) /\ ~CargoIsNext
        /\ CASE call[side].cancelled \/ token -> Finishes(FALSE)
             [] ~call[side].cancelled /\ ~token /\ ExitCode(side) # "zero" -> Finishes(TRUE)
             [] OTHER -> At("suite") \/ FindsNoBinary
     \/ Gone("suite") /\ Finishes(~Superseded)
  /\ UNCHANGED <<token, cache, host>>

\* Mutation: a suite that failed is not summed up.
AwaitedTestsThatPass ==
  /\ Lang \in {"go", "ts"}
  /\ \/ NoTests
     \/ /\ run.pc = "tests" /\ HasTests /\ ~token
        /\ Moves("await")
     \/ /\ run.pc = "await" /\ Returned(side)
        /\ Finishes(~call[side].cancelled /\ ~token /\ ExitCode(side) = "zero")
  /\ UNCHANGED <<token, cache, host>>

\* go and ts: the suite has been running since the start; its output is read
\* once it has ended.
AwaitedTests ==
  /\ Lang \in {"go", "ts"}
  /\ \/ NoTests
     \/ /\ run.pc = "tests" /\ HasTests /\ ~token
        /\ Moves("await")
     \/ /\ run.pc = "await" /\ Returned(side)
        /\ Finishes(~call[side].cancelled /\ ~token)
  /\ UNCHANGED <<token, cache, host>>

\* zig and py: the suite is run now.
RunnerTests ==
  /\ Lang \in {"zig", "py"}
  /\ \/ NoTests
     \/ Tested("suite")
     \/ Gone("suite") /\ Finishes(~Superseded)
  /\ UNCHANGED <<token, cache, host>>

\* cfamily: the sources compiled again, one by one and without probes, then
\* linked with the tests.
CompilesObject(n) ==
  \E s \in {Spawned, Unspawned} : Starts([run EXCEPT !.pc = "object", !.left = n], s)

CTestsBuilt ==
  /\ ~Superseded /\ ExitCode(main) = "zero"
  /\ \/ Gone("object") /\ run.left > 1 /\ CompilesObject(run.left - 1)
     \/ Gone("object") /\ run.left <= 1 /\ At("link")
     \/ Gone("link") /\ At("suite")

CTestsNotBuilt ==
  /\ Gone("object") \/ Gone("link")
  /\ \/ Superseded /\ Finishes(FALSE)
     \/ ~Superseded /\ ExitCode(main) # "zero" /\ Finishes(TRUE)

CTests ==
  /\ Lang = "c"
  /\ \/ NoTests
     \/ run.pc = "tests" /\ HasTests /\ ~token /\ CompilesObject(run.load.files)
     \/ CTestsBuilt
     \/ CTestsNotBuilt
     \/ Gone("suite") /\ Finishes(~Superseded)
  /\ UNCHANGED <<token, cache, host>>

(***************************************************************************)
(* Dependency commands: the only calls that may reach the network.         *)
(***************************************************************************)
\* languages/deps.rs: zig has no command that removes, and Atomis edits the
\* manifest itself; `cargo add' downloads nothing, and a fetch follows.
EditsManifest == run.load.deps = "remove" /\ Lang = "zig"
FetchAfterAdd == run.load.deps = "add" /\ Lang = "rust"

\* One at a time (the gate), all under the connection's token: once that is
\* cancelled no other begins.
DepsBegins ==
  /\ run.pc = "over" /\ run.n < run.load.runs /\ run.load.deps # None
  /\ ~token
  /\ run' = [run EXCEPT !.n = @ + 1, !.pc = "deps", !.verdict = None]
  /\ UNCHANGED <<call, token, cache, host>>

\* The manifest without the entry, or one it was not in, or one that cannot
\* be read or written.
DepsEdits ==
  /\ run.pc = "deps" /\ EditsManifest
  /\ \E v \in DepsState \cup {None} : Ends(v)

DepsCommand ==
  /\ run.pc = "deps" /\ ~EditsManifest
  /\ At(IF run.load.deps = "add" THEN "add" ELSE "remove")

\* The fetch does not look at the token first: the call it makes does.
DepsFetch ==
  /\ Gone("add") /\ FetchAfterAdd /\ ExitCode(main) = "zero"
  /\ At("fetch")

DepsDone ==
  /\ \/ Gone("add") /\ ~(FetchAfterAdd /\ ExitCode(main) = "zero")
     \/ Gone("remove") \/ Gone("fetch")
  /\ Ends(IF ExitCode(main) = "zero" THEN "deps idle" ELSE "deps failed")

Dependencies ==
  /\ DepsEdits \/ DepsCommand \/ DepsFetch \/ DepsDone
  /\ UNCHANGED <<token, cache, host>>

(***************************************************************************)
(* What happens around a run.                                              *)
(***************************************************************************)
Going == run.pc # "over"

Cancels ==
  /\ Going /\ ~token
  /\ token' = TRUE
  /\ UNCHANGED <<call, run, cache, host>>

\* What a cache was made with changes: the compiler at any time; the header,
\* and the packages of Go's own compile path, between runs, with the server or
\* while it is idle.  The new header is dated now, or when it was packaged,
\* long ago; it is where the old one was, or where another install has put it.
HeaderReplaced ==
  \E dated \in {0, Now + 1}, place \in {host.place, host.place + 1} :
    host' = [host EXCEPT !.header = @ + 1, !.dated = dated, !.place = place]

Upgrades ==
  /\ Now < MaxUpgrades
  /\ Going \/ run.n < run.load.runs
  /\ \/ Lang = "c" /\ host' = [host EXCEPT !.compiler = @ + 1]
     \/ Lang = "c" /\ ~Going /\ HeaderReplaced
     \/ Lang = "go" /\ run.load.direct /\ ~Going /\ host' = [host EXCEPT !.packages = @ + 1]
  /\ run' = [run EXCEPT !.upgraded = @ \/ Going]
  /\ UNCHANGED <<call, token, cache>>

\* How the child of a stage may end.  A tool with its inputs in order ends
\* as the source deserves, unless it was told to stop or was killed.
Compiles == {"rustc", "cargo", "go compile", "go build", "header", "clang", "zig build"}

Works ==
  /\ run.pc \in {"go compile", "clang"} => run.sound
  /\ run.pc \in Compiles \ {"header"} => run.load.source = "good"
  /\ run.pc = "zig build" => run.load.tests # "ill"

EndsWith(code) ==
  \/ code = "signal" \/ call[main].terminating
  \/ run.pc \notin Compiles \cup {"instrument", "go list", "go link"}
  \/ code = IF Works THEN "zero" ELSE "nonzero"

\* One call of a run is followed through everything a child can leave behind;
\* of the runner's own calls, the program's or the package manager's.  The
\* others' children end alone.
Followed(c) == c = run.load.follow /\ (c = main => run.pc \in {"program", "add"})

Around(c) ==
  /\ \/ Arms(c)
     \/ Kills(c)
     \/ c = main /\ run.load.chatty /\ run.pc \in Compiles \cup {"program", "add"}
        /\ PassesLimit(c)
     \/ \E code \in Code :
          /\ c = main => EndsWith(code)
          /\ IF Followed(c) THEN Exits(c, code) ELSE ExitsAlone(c, code)
     \/ Followed(c) /\ (Forks(c) \/ IdReused(c))
     \/ DescendantEnds(c)
  /\ UNCHANGED <<token, run, cache, host>>

Steps == InstrumentFiles \/ RustCompiles \/ GoCompiles \/ CCompiles \/ ZigCompiles
         \/ Interpreted \/ ProgramEnds \/ RustTestBuild
         \/ RustTests \/ AwaitedTests \/ RunnerTests \/ CTests \/ Dependencies

RunnerNext ==
  \/ Begins \/ DepsBegins \/ Steps \/ Cancels \/ Upgrades
  \/ \E c \in Call : Around(c)

RunnerSpec == RunnerInit /\ [][RunnerNext]_rvars

\* The server's own tasks go on.  A program owes nothing: it may ignore
\* SIGTERM and never end, and so may what it leaves behind.
RunnerFairSpec ==
  /\ RunnerSpec
  /\ WF_rvars(Steps)
  /\ \A c \in Call :
       /\ WF_rvars(Arms(c) /\ UNCHANGED <<token, run, cache, host>>)
       /\ WF_rvars(Kills(c) /\ UNCHANGED <<token, run, cache, host>>)

-----------------------------------------------------------------------------
RunnerTypeOK ==
  /\ call \in [Call -> CallState]
  /\ token \in BOOLEAN
  /\ run.verdict \in Verdict \cup DepsState \cup {None}

\* A program that compiles is told so: what a fast path keeps from run to
\* run, and a tool that another one can stand in for, never make a compile
\* error of it.  What may: a last tool that was stopped, killed or not there,
\* a file that could not be written, a compiler replaced in the middle, and a
\* header replaced by one dated before what was built from its predecessor.
CompileErrorIsTheSources ==
  (run.verdict = "compile_error" /\ run.load.source = "good" /\ ~run.upgraded)
  => \/ run.mishaps \cap {"tool", "disk", "misdated"} # {}
     \/ Lang = "zig" /\ run.load.tests = "ill"

\* A run with tests that was not stopped says what became of them, whatever
\* the program did and wherever building or running them failed; but for the
\* binary that cargo built and does not name.
TestsAreSummed ==
  (/\ run.pc = "over" /\ HasTests /\ ~token
   /\ run.verdict \in {"succeeded", "abnormal exit"})
  => run.summed \/ "unfound" \in run.mishaps

\* The leader of every process group has ended when its run has: a build of
\* tests nobody will run does not go on.
LeadersEndWithTheRun ==
  run.pc = "over" => \A c \in Call : ~Alive(c)

\* A call that ends by itself kills no stranger.  A descendant out of reach
\* may keep it waiting after its leader was waited for, the number given away
\* meanwhile and, when the drain is over, signalled; but the call has then
\* finished before the killer comes.  Who is killed by number has taken it over
\* from a call that was told to stop, or dropped.
StrangersAreSpared ==
  \A c \in Call :
    call[c].stranger = "killed" =>
      \/ call[c].pc = "dropped"
      \/ call[c].cancelled \/ call[c].timedOut \/ call[c].limit # None

\* What stays in the group and holds a pipe dies of the first SIGTERM that
\* was sent while the leader was there, or of the SIGKILL after it.
PipeHoldersDie ==
  \A c \in Call :
    (call[c].killer = "armed" /\ call[c].mates = "holding") ~> (call[c].mates # "holding")

\* A run ends, whatever the program does and leaves behind.
RunReturns == []<>(run.pc = "over")
=============================================================================
