------------------------------ MODULE TestSuite ------------------------------
(***************************************************************************)
(* What a run says of its tests: one process runs them in order, what it   *)
(* writes reaches the runner over two pipes that are read in any order,    *)
(* and the runner turns it into one result per test and a summary          *)
(* (run_tests in languages/*/run.rs, the readers of ndjson.rs, the shared  *)
(* accounting of common.rs).  Zig, Python and the C family send records on *)
(* fd 3 and are read as they come; Rust prints lines, Go and TypeScript    *)
(* report on stdout, and those are read when the process has ended.        *)
(***************************************************************************)
EXTENDS Naturals, Sequences, FiniteSets, SequencesExt

CONSTANTS
  N,        \* the catalog has the rows 1 .. N, in the order their tests run
  Langs,    \* the languages of the run
  Lookups,  \* which row each test is taken for, by the name it reports
  Writes,   \* bound: writes to stderr of one test
  Keep,     \* of these, how many a message holds (1200 characters)
  None

Test == 1 .. N
Catalog == [t \in Test |-> t]
Text == Seq(Test \X Nat)          \* what was written, in order
Records == {"zig", "py", "c"}     \* languages with records on fd 3

ASSUME SuiteAssumption ==
  /\ N \in Nat \ {0} /\ Writes \in Nat /\ Keep \in Nat \ {0}
  /\ Langs \subseteq {"zig", "py", "c", "rust", "go", "ts"}
  /\ Lookups \subseteq [Test -> Test \cup {None}]
  /\ None \notin Test \cup (Nat \X Nat) \cup Text

VARIABLES
  lang,
  row,      \* match_runner_name and its like: one row may stand for two
            \* tests, when names are ambiguous, another for none
  child,    \* the process: where it is, what it has written
  fd3,      \* what is on its way on the channel of the results
  err,      \* and on stderr
  reader,   \* what the runner holds of it
  ended     \* how the call ended, and the run's token

suite == <<lang, row, child, fd3, err, reader, ended>>

SuiteInit ==
  /\ lang \in Langs
  /\ row \in Lookups
  /\ child = [alive |-> TRUE, at |-> 0, inside |-> FALSE, wrote |-> 0, sub |-> FALSE,
              garbled |-> FALSE, done |-> <<0, 0>>, missed |-> {}, summed |-> FALSE]
  /\ fd3 = <<>> /\ err = <<>>
  /\ reader = [started |-> {}, error |-> FALSE, buffer |-> <<>>, whole |-> <<>>,
               reported |-> {}, counts |-> <<0, 0>>, summary |-> None,
               sent |-> <<>>, total |-> None, over |-> FALSE]
  /\ ended = [timedOut |-> FALSE, signal |-> FALSE, failed |-> FALSE,
              capped |-> {}, cancelled |-> FALSE]

Rec(kind, t, status) == [kind |-> kind, test |-> t, status |-> status]

\* (passed, failed), one more of a status.
Plus(counts, status) ==
  IF status = "passed" THEN <<counts[1] + 1, counts[2]>> ELSE <<counts[1], counts[2] + 1>>

(***************************************************************************)
(* The process.                                                            *)
(***************************************************************************)
Alone == UNCHANGED <<lang, row, reader, ended>>

BeginsTest ==
  /\ child.alive /\ ~child.inside /\ child.at < N
  /\ child' = [child EXCEPT !.at = @ + 1, !.inside = TRUE, !.wrote = 0, !.sub = FALSE]
  /\ fd3' = Append(fd3, Rec("start", child.at + 1, None))
  /\ UNCHANGED err /\ Alone

PrintsText ==
  /\ child.alive /\ child.inside /\ lang \in Records /\ child.wrote < Writes
  /\ child' = [child EXCEPT !.wrote = @ + 1]
  /\ err' = Append(err, <<child.at, child.wrote + 1>>)
  /\ UNCHANGED fd3 /\ Alone

\* A subtest of Go (t.Run) reports under its parent's name.
EndsSubtest ==
  /\ child.alive /\ child.inside /\ lang = "go" /\ ~child.sub
  /\ child' = [child EXCEPT !.sub = TRUE]
  /\ fd3' = Append(fd3, Rec("sub", child.at, "passed"))
  /\ UNCHANGED err /\ Alone

EndsTest ==
  /\ child.alive /\ child.inside
  /\ \E status \in {"passed", "failed"} :
       /\ child' = [child EXCEPT !.inside = FALSE, !.done = Plus(@, status)]
       /\ fd3' = Append(fd3, Rec("result", child.at, status))
  /\ UNCHANGED err /\ Alone

\* A line of libtest's that parse_libtest_line does not take for a result: of
\* a test that should panic, or broken by what a test prints past the capture.
EndsUnread ==
  /\ child.alive /\ child.inside /\ lang = "rust"
  /\ \E status \in {"passed", "failed"} :
       /\ child' = [child EXCEPT !.inside = FALSE, !.done = Plus(@, status),
                                 !.missed = @ \cup {child.at}]
       /\ fd3' = Append(fd3, Rec("unread", child.at, status))
  /\ UNCHANGED err /\ Alone

\* The program under test writes to the channel what is not a record.
Garbles ==
  /\ child.alive /\ child.inside /\ lang \in Records /\ ~child.garbled
  /\ child' = [child EXCEPT !.garbled = TRUE]
  /\ fd3' = Append(fd3, Rec("garbage", child.at, None))
  /\ UNCHANGED err /\ Alone

SumsUp ==
  /\ child.alive /\ ~child.inside /\ child.at = N /\ ~child.summed
  /\ child' = [child EXCEPT !.summed = TRUE]
  /\ fd3' = Append(fd3, Rec("summary", None, child.done))
  /\ UNCHANGED err /\ Alone

\* It exits, or a test takes it down; or the supervisor ends it, at the
\* deadline, at a byte limit (of that pipe nothing more is delivered), or
\* with the run.
Stops ==
  /\ child.alive
  /\ child' = [child EXCEPT !.alive = FALSE]
  /\ \/ child.summed /\ UNCHANGED ended
     \/ ended' = [ended EXCEPT !.signal = TRUE, !.failed = TRUE]
     \/ ended' = [ended EXCEPT !.failed = TRUE]
     \/ \E s \in BOOLEAN : ended' = [ended EXCEPT !.timedOut = TRUE, !.signal = s, !.failed = TRUE]
     \/ \E pipe \in {"fd3", "err"} :
          ended' = [ended EXCEPT !.capped = {pipe}, !.signal = TRUE, !.failed = TRUE]
  /\ UNCHANGED <<lang, row, fd3, err, reader>>

Cancelled ==
  /\ ~ended.cancelled /\ ~reader.over
  /\ ended' = [ended EXCEPT !.cancelled = TRUE, !.signal = @ \/ child.alive]
  /\ child' = [child EXCEPT !.alive = FALSE]
  /\ UNCHANGED <<lang, row, fd3, err, reader>>

(***************************************************************************)
(* Reading.                                                                *)
(***************************************************************************)
\* A result as it is sent: of a test that ran, under the row it is taken for,
\* or of a row of which nothing was heard.
Result(t, status, message) ==
  [test |-> t, row |-> row[t], status |-> status, message |-> message, sub |-> FALSE]

Blank(r, status) ==
  [test |-> None, row |-> r, status |-> status, message |-> None, sub |-> FALSE]

Matched(t) == {row[t]} \ {None}

\* truncate_chars and tail_chars.
FirstOf(text) == SubSeq(text, 1, IF Len(text) < Keep THEN Len(text) ELSE Keep)
LastOf(text) == SubSeq(text, IF Len(text) < Keep THEN 1 ELSE Len(text) - Keep + 1, Len(text))

\* The stderr of the test, or the error its record carries.
OwnMessage(status) ==
  IF status # "failed" \/ lang = "c" THEN None ELSE FirstOf(reader.buffer)

\* TestReader: a line that is no record stops the reading for good.
OnRecord(rec) ==
  CASE reader.error -> reader
    [] ~reader.error /\ rec.kind = "garbage" -> [reader EXCEPT !.error = TRUE]
    [] ~reader.error /\ rec.kind = "start" ->
         [reader EXCEPT !.started = @ \cup {rec.test}, !.buffer = <<>>]
    [] ~reader.error /\ rec.kind = "result" ->
         [reader EXCEPT !.started = @ \ {rec.test}, !.buffer = <<>>,
                        !.counts = Plus(@, rec.status),
                        !.reported = @ \cup Matched(rec.test),
                        !.sent = Append(@, Result(rec.test, rec.status, OwnMessage(rec.status)))]
    [] ~reader.error /\ rec.kind = "summary" -> [reader EXCEPT !.summary = rec.status]

\* The callbacks that keep the output for later: what is read is appended.
OnLine(rec) == [reader EXCEPT !.sent = Append(@, rec)]

ReadsRecord ==
  /\ fd3 # <<>>
  /\ fd3' = Tail(fd3)
  /\ reader' = IF "fd3" \in ended.capped THEN reader
               ELSE IF lang \in Records THEN OnRecord(Head(fd3)) ELSE OnLine(Head(fd3))
  /\ UNCHANGED <<lang, row, child, err, ended>>

ReadsText ==
  /\ err # <<>>
  /\ err' = Tail(err)
  /\ reader' = IF "err" \in ended.capped THEN reader
               ELSE [reader EXCEPT !.buffer = Append(@, Head(err)), !.whole = Append(@, Head(err))]
  /\ UNCHANGED <<lang, row, child, fd3, ended>>

(***************************************************************************)
(* Accounting, when the call has returned.                                 *)
(***************************************************************************)
\* Mutation: without the text of the whole run.
OwnTextOnly(perTest, wholeRun) == IF perTest # <<>> THEN FirstOf(perTest) ELSE None

\* aborted_message: the text of the test, or else of the whole run.
AbortedMessage(perTest, wholeRun) ==
  IF perTest # <<>> THEN FirstOf(perTest)
  ELSE IF wholeRun # <<>> THEN LastOf(wholeRun) ELSE None

Unended == IF ended.timedOut THEN "timed_out" ELSE "failed"

\* Mutation: what is reported for a test that never ended is not counted.
ReportAbortedUncounted(r) ==
  LET Fails(s, t) ==
        IF t \notin r.started THEN s
        ELSE [s EXCEPT !.sent = Append(@, Result(t, Unended, AbortedMessage(s.buffer, s.whole))),
                       !.reported = @ \cup Matched(t), !.buffer = <<>>]
  IN  FoldLeft(Fails, r, Catalog)

\* The tests that reported a start and never a result.
ReportAborted(r) ==
  LET Fails(s, t) ==
        IF t \notin r.started THEN s
        ELSE [s EXCEPT !.sent = Append(@, Result(t, Unended, AbortedMessage(s.buffer, s.whole))),
                       !.counts = Plus(@, Unended), !.reported = @ \cup Matched(t),
                       !.buffer = <<>>]
  IN  FoldLeft(Fails, r, Catalog)

\* Mutation: every row of the catalog.
ReportCatalog(r, status) ==
  LET Adds(s, c) ==
        [s EXCEPT !.sent = Append(@, Blank(c, status)), !.counts = Plus(@, status)]
  IN  FoldLeft(Adds, r, Catalog)

\* The rows of the catalog that are not in `reported'.
ReportRemainder(r, status) ==
  LET Adds(s, c) ==
        IF c \in r.reported THEN s
        ELSE [s EXCEPT !.sent = Append(@, Blank(c, status)), !.counts = Plus(@, status)]
  IN  FoldLeft(Adds, r, Catalog)

\* Zig, Python, the C family.
RecordsAccount ==
  LET aborted == ReportAborted(reader)
      all == IF ended.timedOut THEN ReportRemainder(aborted, "timed_out") ELSE aborted
  IN  [all EXCEPT !.total = IF all.summary # None THEN all.summary ELSE all.counts]

\* The lines of a finished run, read in order into results.
FromLines(kinds) ==
  LET Line(s, rec) ==
        IF rec.kind \notin kinds THEN s
        ELSE [s EXCEPT !.sent = Append(@, [Result(rec.test, rec.status, None)
                                             EXCEPT !.sub = rec.kind = "sub"]),
                       !.counts = Plus(@, rec.status), !.reported = @ \cup Matched(rec.test)]
  IN  FoldLeft(Line, [reader EXCEPT !.sent = <<>>], reader.sent)

\* Rust: a process that ran out of time or died leaves no test blank; the
\* failures are libtest's own count unless it ran out of time.
RustAccount ==
  LET seen == FromLines({"result"})
      all == IF ended.timedOut THEN ReportRemainder(seen, "timed_out")
             ELSE IF ended.signal THEN ReportRemainder(seen, "failed") ELSE seen
      summaries == {i \in DOMAIN reader.sent : reader.sent[i].kind = "summary"}
      summary == reader.sent[CHOOSE i \in summaries : TRUE].status
  IN  [all EXCEPT !.total =
         IF summaries = {} THEN all.counts
         ELSE <<summary[1], IF ended.timedOut THEN all.counts[2] ELSE summary[2]>>]

\* Mutation: what the output says and no more.
OutputOnly ==
  LET seen == FromLines({"result", "sub"}) IN [seen EXCEPT !.total = seen.counts]

\* Go and TypeScript.
OutputAccount ==
  LET seen == FromLines({"result", "sub"})
      all == IF ended.timedOut THEN ReportRemainder(seen, "timed_out") ELSE seen
  IN  [all EXCEPT !.total = all.counts]

\* A cancelled run says nothing more.
Accounts ==
  /\ ~child.alive /\ fd3 = <<>> /\ err = <<>> /\ ~reader.over
  /\ reader' =
       IF ended.cancelled THEN [reader EXCEPT !.over = TRUE]
       ELSE [(CASE lang \in Records -> RecordsAccount
                [] lang = "rust" -> RustAccount
                [] lang \in {"go", "ts"} -> OutputAccount) EXCEPT !.over = TRUE]
  /\ UNCHANGED <<lang, row, child, fd3, err, ended>>

SuiteNext ==
  \/ BeginsTest \/ PrintsText \/ EndsSubtest \/ EndsTest \/ EndsUnread \/ Garbles \/ SumsUp
  \/ Stops \/ Cancelled
  \/ ReadsRecord \/ ReadsText \/ Accounts

SuiteSpec == SuiteInit /\ [][SuiteNext]_suite

-----------------------------------------------------------------------------
Told == reader.over /\ ~ended.cancelled
Shown == {i \in DOMAIN reader.sent : Told}

\* No test is given two results, however its records and the end of its
\* process fall together; and a row has two only if two tests that ran are
\* taken for it, never one of a test and one for having heard nothing.
OneResultPerTest ==
  \A i, j \in Shown :
    LET a == reader.sent[i]
        b == reader.sent[j]
    IN  (i # j /\ ~a.sub /\ ~b.sub) =>
          /\ a.test = b.test => a.test = None
          /\ (a.row = b.row /\ a.row # None) => a.test # None /\ b.test # None

\* When the clock ends a suite no row of the catalog is left blank, not even
\* one whose test is taken for another.
TimedOutSuiteIsWhole ==
  Told /\ ended.timedOut => Test \subseteq {reader.sent[i].row : i \in Shown}

\* The result of a test that took the process down after writing something.
Explains(r) ==
  /\ lang \in Records /\ ~reader.error /\ ended.capped = {}
  /\ r.test = child.at /\ child.inside /\ child.wrote > 0

\* It has a message, with the last thing the test wrote in it or else with as
\* much as it holds, whichever pipe was read first.
FailureIsExplained ==
  \A i \in Shown :
    LET r == reader.sent[i] IN
    Explains(r) =>
      /\ r.message # None
      /\ <<child.at, child.wrote>> \in Range(r.message) \/ Len(r.message) = Keep

\* As the comment of aborted_message has it: what the process wrote survives
\* the race of the two pipes.  So the first thing the test wrote is shown too,
\* at least when a message has room for all that was written.
ReasonIsShown ==
  \A i \in Shown :
    LET r == reader.sent[i] IN
    Explains(r) /\ Len(reader.whole) <= Keep => <<child.at, 1>> \in Range(r.message)

\* The totals of the summary are those of the results that were sent, unless
\* they are the process's own and it counts what the runner could not read, or
\* the runner has filled in rows no test was taken for.  Passed tests are never
\* more than counted.
SummaryAgrees ==
  LET passed == Cardinality({i \in Shown : reader.sent[i].status = "passed"})
      failed == Cardinality({i \in Shown : reader.sent[i].status # "passed"})
      filled == (ended.timedOut \/ ended.signal) /\ Test \ {row[t] : t \in Test} # {}
  IN  Told =>
        /\ passed <= reader.total[1]
        /\ \/ reader.total = <<passed, failed>>
           \/ child.summed /\ (child.missed # {} \/ filled)
=============================================================================
