--------------------------- MODULE TestSuiteProofs ---------------------------
(***************************************************************************)
(* What a run says of its tests, for any number of tests and every         *)
(* language: one result per test (OneResultPerTest), a whole catalog when  *)
(* the clock ended it (TimedOutSuiteIsWhole), the reason of a test that    *)
(* took the process down (FailureIsExplained), and totals that are those   *)
(* of the results (SummaryAgrees).                                         *)
(*                                                                         *)
(* The argument is where the process and the reader are.  The records on   *)
(* their way lead, none missing and none twice, from the place of the      *)
(* reader to that of the process (Chain, Followed), and what the reader    *)
(* holds follows from its place (RecordsHeld, LinesHeld), whatever rows    *)
(* the tests are taken for.  Stderr is read in the order it was written,   *)
(* so the last thing written is the last thing held (Texts).  The          *)
(* accounting goes over the catalog or over the lines with FoldLeft; what  *)
(* it leaves (RemainderGives, AbortedGives, LinesGives) is shown for each  *)
(* length from the least length at which it would be false (FromZero).     *)
(***************************************************************************)
EXTENDS TestSuite, FiniteSetTheorems, SequenceTheorems, TLAPS

\* Every non-empty set of naturals has a least element.
LEMMA Least ==
  ASSUME NEW S \in SUBSET Nat, S # {}
  PROVE  \E n \in S : \A m \in S : n <= m
<1> DEFINE R == OpToRel(<, Nat)
<1>1. IsWellFoundedOn(R, Nat)
  BY NatLessThanWellFounded
<1>2. PICK n \in S : \A m \in S : ~(<<m, n>> \in R)
  <2> HIDE DEF R
  <2> QED BY <1>1, WFMin
<1>3. \A m \in S : <<m, n>> \in R <=> m < n
  BY DEF OpToRel
<1>4. \A m \in S : ~(m < n)
  BY <1>2, <1>3
<1> QED BY <1>4

\* What holds of zero and of the next of every one below k holds of k.
LEMMA FromZero ==
  ASSUME NEW S \in SUBSET Nat, NEW k \in Nat, 0 \in S, \A n \in S : n < k => n + 1 \in S
  PROVE  k \in S
<1> SUFFICES ASSUME k \notin S PROVE FALSE
  OBVIOUS
<1> DEFINE B == {n \in 0..k : n \notin S}
<1>1. PICK n \in B : \A m \in B : n <= m
  <2>1. B \in SUBSET Nat /\ B # {}
    OBVIOUS
  <2> HIDE DEF B
  <2> QED BY <2>1, Least
<1>2. n \in 1..k /\ n - 1 \in 0..k /\ n - 1 \notin B
  BY <1>1
<1> QED BY <1>1, <1>2


\* The element that a fold over a set of indices takes first is the largest.
LEMMA MaxIs ==
  ASSUME NEW n \in Nat, NEW s \in SUBSET (1..n), s # {}
  PROVE  Max(s) \in s /\ \A m \in s : m <= Max(s)
<1> DEFINE B == {k \in 0..n : \A m \in s : m <= k}
<1>1. PICK k \in B : \A j \in B : k <= j
  <2>1. n \in B
    OBVIOUS
  <2> HIDE DEF B
  <2>2. B \in SUBSET Nat
    BY DEF B
  <2>3. B # {}
    BY <2>1
  <2> QED BY <2>2, <2>3, Least
<1>2. k \in s
  <2> SUFFICES ASSUME k \notin s PROVE FALSE
    OBVIOUS
  <2>1. k \in Nat /\ k <= n /\ \A m \in s : m \in Nat /\ m <= k /\ m >= 1
    BY <1>1
  <2>2. k >= 1
    <3>1. PICK m \in s : TRUE
      OBVIOUS
    <3> QED BY <2>1, <3>1
  <2>3. k - 1 \in 0..n
    BY <2>1, <2>2
  <2>4. \A m \in s : m <= k - 1
    BY <2>1, <2>2
  <2>5. k - 1 \in B
    BY <2>3, <2>4
  <2>6. k <= k - 1
    BY <1>1, <2>5
  <2> QED BY <2>1, <2>6
<1>3. k \in s /\ \A m \in s : k >= m
  BY <1>1, <1>2
<1>4. Max(s) \in s /\ \A m \in s : Max(s) >= m
  BY <1>3 DEF Max
<1> QED BY <1>4

\* A function that steps through a set.
Steps(g, n, base, F) ==
  g = [s \in SUBSET (1..n) |-> IF s = {} THEN base ELSE F[<<g[s \ {Max(s)}], Max(s)>>]]

\* There is one for every base and every step.
LEMMA StepsExist ==
  ASSUME NEW S, NEW base \in S, NEW n \in Nat, NEW F \in [S \X (1..n) -> S]
  PROVE  \E g \in [SUBSET (1..n) -> S] : Steps(g, n, base, F)
<1> DEFINE T == {k \in 0..n : \E g \in [SUBSET (1..k) -> S] : Steps(g, k, base, F)}
<1>1. 0 \in T
  <2> DEFINE g == [s \in SUBSET (1..0) |-> base]
  <2>1. \A s \in SUBSET (1..0) : s = {}
    OBVIOUS
  <2>2. Steps(g, 0, base, F)
    BY <2>1 DEF Steps
  <2>3. g \in [SUBSET (1..0) -> S]
    OBVIOUS
  <2> QED BY <2>2, <2>3
<1>2. ASSUME NEW k \in T, k < n PROVE k + 1 \in T
  <2>1. PICK g \in [SUBSET (1..k) -> S] : Steps(g, k, base, F)
    OBVIOUS
  <2>2. k \in Nat /\ k + 1 \in 1..n
    BY <1>2
  <2> DEFINE D == SUBSET (1..(k + 1))
             h == [s \in D |-> IF k + 1 \in s THEN F[<<g[s \ {k + 1}], k + 1>>] ELSE g[s]]
  <2>3. \A s \in D : s \ {k + 1} \in SUBSET (1..k) /\ (k + 1 \notin s => s \in SUBSET (1..k))
    BY <2>2
  <2>4. h \in [D -> S]
    BY <2>2, <2>3
  <2>5. \A s \in D : k + 1 \in s => Max(s) = k + 1
    <3> SUFFICES ASSUME NEW s \in D, k + 1 \in s PROVE Max(s) = k + 1
      OBVIOUS
    <3>1. k + 1 \in Nat
      BY <2>2
    <3>2. Max(s) \in s /\ \A m \in s : m <= Max(s)
      BY <3>1, MaxIs
    <3>3. Max(s) \in 1..(k + 1) /\ k + 1 <= Max(s)
      BY <3>2
    <3> QED BY <2>2, <3>3
  <2>6. \A s \in D : s # {} => Max(s) \in s
    <3>1. k + 1 \in Nat
      BY <2>2
    <3> QED BY <3>1, MaxIs
  <2>7. ASSUME NEW s \in D
        PROVE h[s] = IF s = {} THEN base ELSE F[<<h[s \ {Max(s)}], Max(s)>>]
    <3>1. CASE k + 1 \in s
      <4>1. h[s] = F[<<g[s \ {k + 1}], k + 1>>]
        BY <3>1
      <4>2. h[s \ {k + 1}] = g[s \ {k + 1}]
        <5>1. s \ {k + 1} \in D /\ k + 1 \notin s \ {k + 1}
          OBVIOUS
        <5> QED BY <5>1
      <4>3. Max(s) = k + 1 /\ s # {}
        BY <2>5, <3>1
      <4> QED BY <4>1, <4>2, <4>3
    <3>2. CASE k + 1 \notin s
      <4>1. s \in SUBSET (1..k) /\ h[s] = g[s]
        BY <2>3, <3>2
      <4>2. g[s] = IF s = {} THEN base ELSE F[<<g[s \ {Max(s)}], Max(s)>>]
        BY ONLY <2>1, <4>1 DEF Steps
      <4>3. h[s \ {Max(s)}] = g[s \ {Max(s)}]
        <5>1. s \ {Max(s)} \in D /\ k + 1 \notin s \ {Max(s)}
          BY <3>2
        <5> QED BY <5>1
      <4> QED BY <4>1, <4>2, <4>3
    <3> QED BY <3>1, <3>2
  <2>8. Steps(h, k + 1, base, F)
    <3> HIDE DEF h
    <3>1. h = [s \in D |-> h[s]]
      BY <2>4
    <3> QED BY <2>7, <3>1 DEF Steps
  <2>9. h \in [SUBSET (1..(k + 1)) -> S] /\ k + 1 \in 0..n
    BY <2>2, <2>4
  <2> QED BY <2>8, <2>9
<1>3. T \in SUBSET Nat
  OBVIOUS
<1> HIDE DEF T
<1>4. n \in T
  BY <1>1, <1>2, <1>3, FromZero
<1> QED BY <1>4 DEF T


-----------------------------------------------------------------------------
(* Types, and what is counted.                                             *)

\* (passed, failed).
Pair == Nat \X Nat

\* A result that is sent, a record of the channel.
Row == [test : Test \cup {None}, row : Test \cup {None},
        status : {"passed", "failed", "timed_out"}, message : Text \cup {None}, sub : BOOLEAN]

Record ==
  [kind : {"start", "garbage"}, test : Test, status : {None}]
    \cup [kind : {"result", "sub", "unread"}, test : Test, status : {"passed", "failed"}]
    \cup [kind : {"summary"}, test : {None}, status : Pair]

\* The reader, while it keeps rows or raw records.
Reader(X) ==
  [started : SUBSET Test, error : BOOLEAN, buffer : Text, whole : Text,
   reported : SUBSET Test, counts : Pair, summary : Pair \cup {None},
   sent : Seq(X), total : Pair \cup {None}, over : BOOLEAN]

\* What the results of q count, the tests they are of and the rows they are for.
Tally(q) ==
  <<Cardinality({i \in DOMAIN q : q[i].status = "passed"}),
    Cardinality({i \in DOMAIN q : q[i].status # "passed"})>>

Tests(q) == {q[i].test : i \in DOMAIN q}
Rows(q) == {q[i].row : i \in DOMAIN q}

\* Two results may stand side by side: a subtest is not its test, and a row has
\* two only of two tests that ran.
Apart(a, b) ==
  ~a.sub /\ ~b.sub =>
    /\ a.test = b.test => a.test = None
    /\ (a.row = b.row /\ a.row # None) => a.test # None /\ b.test # None

Distinct(q) == \A i, j \in DOMAIN q : i # j => Apart(q[i], q[j])

\* What is matched is a row.
Matching == row \in [Test -> Test \cup {None}]

\* What Append does to the length, the indices and the elements.
LEMMA Appended ==
  ASSUME NEW X, NEW q \in Seq(X), NEW e \in X
  PROVE  LET n == Append(q, e) IN
         /\ n \in Seq(X) /\ Len(q) \in Nat /\ Len(n) = Len(q) + 1
         /\ DOMAIN q = 1..Len(q) /\ DOMAIN n = DOMAIN q \cup {Len(q) + 1}
         /\ Len(q) + 1 \notin DOMAIN q
         /\ \A i \in DOMAIN q : n[i] = q[i]
         /\ n[Len(q) + 1] = e
OBVIOUS

\* One index more, or none.
LEMMA OneMore ==
  ASSUME NEW n \in Nat, NEW I \in SUBSET (1..n)
  PROVE  /\ Cardinality(I) \in Nat
         /\ Cardinality(I \cup {n + 1}) = Cardinality(I) + 1
<1>1. IsFiniteSet(1..n)
  BY FS_Interval
<1>2. IsFiniteSet(I)
  BY <1>1, FS_Subset
<1>3. n + 1 \notin I
  OBVIOUS
<1> QED BY <1>2, <1>3, FS_CardinalityType, FS_AddElement

\* One row more is one more passed or one more failed.
LEMMA TallyAppend ==
  ASSUME NEW q \in Seq(Row), NEW e \in Row
  PROVE  Tally(q) \in Pair /\ Tally(Append(q, e)) = Plus(Tally(q), e.status)
<1> DEFINE n == Append(q, e)
           P(s) == {i \in DOMAIN s : s[i].status = "passed"}
           F(s) == {i \in DOMAIN s : s[i].status # "passed"}
<1>1. /\ Len(q) \in Nat /\ DOMAIN q = 1..Len(q) /\ DOMAIN n = DOMAIN q \cup {Len(q) + 1}
      /\ \A i \in DOMAIN q : n[i] = q[i]
      /\ n[Len(q) + 1] = e
  BY Appended
<1>2. /\ P(n) = IF e.status = "passed" THEN P(q) \cup {Len(q) + 1} ELSE P(q)
      /\ F(n) = IF e.status = "passed" THEN F(q) ELSE F(q) \cup {Len(q) + 1}
  <2> HIDE DEF n
  <2> QED BY <1>1
<1>3. P(q) \in SUBSET (1..Len(q)) /\ F(q) \in SUBSET (1..Len(q))
  BY <1>1
<1>4. /\ Cardinality(P(q)) \in Nat /\ Cardinality(F(q)) \in Nat
      /\ Cardinality(P(q) \cup {Len(q) + 1}) = Cardinality(P(q)) + 1
      /\ Cardinality(F(q) \cup {Len(q) + 1}) = Cardinality(F(q)) + 1
  BY <1>1, <1>3, OneMore
<1>5. Tally(q) = <<Cardinality(P(q)), Cardinality(F(q))>> /\ Tally(n) = <<Cardinality(P(n)), Cardinality(F(n))>>
  BY DEF Tally
<1> HIDE DEF P, F, n
<1> QED BY <1>2, <1>4, <1>5 DEF Plus, Pair, n

\* Nothing is counted before the first row.
LEMMA TallyEmpty == Tally(<<>>) = <<0, 0>>
<1>1. DOMAIN <<>> = {}
  OBVIOUS
<1>2. Cardinality({}) = 0
  BY FS_EmptySet
<1> QED BY <1>1, <1>2 DEF Tally

\* A message holds as much of a text as it can, from its start or its end.
LEMMA Shortened ==
  ASSUME NEW text \in Text
  PROVE  /\ FirstOf(text) \in Text /\ LastOf(text) \in Text
         /\ text # <<>> =>
              /\ text[Len(text)] \in Range(FirstOf(text)) \/ Len(FirstOf(text)) = Keep
              /\ text[Len(text)] \in Range(LastOf(text))
<1> DEFINE n == Len(text)
           f == FirstOf(text)
           l == LastOf(text)
<1>1. /\ Keep \in Nat /\ Keep >= 1 /\ n \in Nat /\ text \in Seq(Test \X Nat)
      /\ text # <<>> => n >= 1
      /\ \A i \in 1..n : text[i] \in Test \X Nat
  BY SuiteAssumption DEF Text
<1> DEFINE m == IF n < Keep THEN n ELSE Keep
           k == IF n < Keep THEN 1 ELSE n - Keep + 1
<1>2. m \in 0..n /\ k \in 1..(n + 1) /\ (n >= 1 => k <= n)
  BY <1>1
<1>3. f = SubSeq(text, 1, m) /\ l = SubSeq(text, k, n)
  BY DEF FirstOf, LastOf
<1> HIDE DEF f, l, n
<1>4. /\ f \in Seq(Test \X Nat) /\ Len(f) = m /\ \A i \in 1..m : f[i] = text[i]
  <2>1. \A i \in 1..m : text[i] \in Test \X Nat
    BY <1>1, <1>2
  <2> HIDE DEF m
  <2>2. m \in Int /\ 1 \in Int
    BY <1>1, <1>2
  <2>3. /\ SubSeq(text, 1, m) \in Seq(Test \X Nat)
        /\ Len(SubSeq(text, 1, m)) = IF 1 <= m THEN m - 1 + 1 ELSE 0
        /\ \A i \in 1..(m - 1 + 1) : SubSeq(text, 1, m)[i] = text[1 + i - 1]
    BY <2>1, <2>2, SubSeqProperties
  <2> QED BY <1>1, <1>2, <1>3, <2>3
<1>5. /\ l \in Seq(Test \X Nat) /\ Len(l) = n - k + 1
      /\ \A i \in 1..(n - k + 1) : l[i] = text[k + i - 1]
  <2>1. \A i \in k..n : text[i] \in Test \X Nat
    BY <1>1, <1>2
  <2> HIDE DEF k
  <2>2. k \in Int /\ n \in Int
    BY <1>1, <1>2
  <2>3. /\ SubSeq(text, k, n) \in Seq(Test \X Nat)
        /\ Len(SubSeq(text, k, n)) = IF k <= n THEN n - k + 1 ELSE 0
        /\ \A i \in 1..(n - k + 1) : SubSeq(text, k, n)[i] = text[k + i - 1]
    BY <2>1, <2>2, SubSeqProperties
  <2> QED BY <1>1, <1>2, <1>3, <2>3
<1>6. ASSUME text # <<>>, m # Keep PROVE text[n] \in Range(f)
  <2>1. m = n /\ n \in 1..m /\ DOMAIN f = 1..m
    BY <1>1, <1>4, <1>6
  <2> QED BY <1>4, <2>1 DEF Range
<1>7. ASSUME text # <<>> PROVE text[n] \in Range(l)
  <2>1. DOMAIN l = 1..(n - k + 1) /\ n - k + 1 \in 1..(n - k + 1) /\ k + (n - k + 1) - 1 = n
    BY <1>1, <1>2, <1>5, <1>7
  <2> QED BY <1>5, <2>1 DEF Range
<1> QED BY <1>4, <1>5, <1>6, <1>7 DEF f, l, n, Text

\* The message of a test that did not end.
LEMMA MessageType ==
  ASSUME NEW b \in Text, NEW w \in Text
  PROVE  AbortedMessage(b, w) \in Text \cup {None}
BY Shortened DEF AbortedMessage

-----------------------------------------------------------------------------
(* The folds, as functions of how far they have come.                      *)

\* The last index of the first k, and those before it.
LEMMA UpTo ==
  ASSUME NEW k \in Nat
  PROVE  /\ k >= 1 => 1..k # {} /\ Max(1..k) = k /\ (1..k) \ {k} = 1..(k - 1)
         /\ k = 0 => 1..k = {}
<1>1. ASSUME k >= 1 PROVE Max(1..k) = k
  <2>1. 1..k # {} /\ k \in 1..k
    BY <1>1
  <2>2. Max(1..k) \in 1..k /\ \A m \in 1..k : m <= Max(1..k)
    BY <2>1, MaxIs
  <2> QED BY <2>1, <2>2
<1> QED BY <1>1

\* A count stays a count.
LEMMA PlusType == \A c \in Pair : \A s : Plus(c, s) \in Pair
BY DEF Plus, Pair

\* A row more that is reported blank.
Blanked(s, t, status) ==
  [s EXCEPT !.sent = Append(@, Blank(t, status)), !.counts = Plus(@, status)]

\* report_timed_out_remainder, row by row: f[k] is the reader when the first
\* k rows of the catalog have been looked at.
LEMMA RemainderFold ==
  ASSUME NEW r \in Reader(Row), NEW status \in {"failed", "timed_out"}
  PROVE  \E f : /\ f[0] = r
                /\ \A k \in Test : f[k] = IF k \in r.reported THEN f[k - 1]
                                          ELSE Blanked(f[k - 1], k, status)
                /\ ReportRemainder(r, status) = f[N]
<1> DEFINE Is(g) == g = [s \in SUBSET Test |->
                      IF s = {} THEN r
                      ELSE IF Catalog[Max(s)] \in r.reported THEN g[s \ {Max(s)}]
                      ELSE [g[s \ {Max(s)}] EXCEPT
                             !.sent = Append(@, Blank(Catalog[Max(s)], status)),
                             !.counts = Plus(@, status)]]
           S == Reader(Row)
           Step(v, k) == IF k \in r.reported THEN v ELSE Blanked(v, k, status)
           F == [x \in S \X Test |-> Step(x[1], x[2])]
<1>1. DOMAIN Catalog = Test /\ N \in Nat /\ \A k \in Test : Catalog[k] = k
  BY SuiteAssumption DEF Catalog, Test
<1>2. ReportRemainder(r, status) = (CHOOSE g : Is(g))[Test]
  BY <1>1 DEF ReportRemainder, FoldLeft, MapThenFoldSet
<1>3. \A v \in S, k \in Test : Step(v, k) \in S
  <2> SUFFICES ASSUME NEW v \in S, NEW k \in Test PROVE Blanked(v, k, status) \in S
    OBVIOUS
  <2>1. v.counts \in Pair /\ v.sent \in Seq(Row)
    BY DEF Reader
  <2>2. Blank(k, status) \in Row /\ Plus(v.counts, status) \in Pair
    <3>1. Blank(k, status) \in Row
      BY DEF Blank, Row
    <3>2. Plus(v.counts, status) \in Pair
      BY <2>1 DEF Plus, Pair
    <3> QED BY <3>1, <3>2
  <2>3. Append(v.sent, Blank(k, status)) \in Seq(Row)
    BY <2>1, <2>2
  <2> QED BY <2>2, <2>3 DEF Blanked, Reader
<1>4. F \in [S \X (1..N) -> S]
  <2> HIDE DEF Step, S
  <2> QED BY <1>3 DEF Test
<1>5. PICK g \in [SUBSET (1..N) -> S] : Steps(g, N, r, F)
  <2> HIDE DEF F, S
  <2>1. r \in S
    BY DEF S
  <2> QED BY <1>1, <1>4, <2>1, StepsExist
<1>6. Is(g)
  <2>1. ASSUME NEW s \in SUBSET Test, s # {}
        PROVE  F[<<g[s \ {Max(s)}], Max(s)>>] = Step(g[s \ {Max(s)}], Max(s)) /\ Max(s) \in Test
    <3>1. Max(s) \in Test /\ g[s \ {Max(s)}] \in S
      BY <1>1, <2>1, MaxIs DEF Test
    <3> HIDE DEF Step, S
    <3> QED BY <3>1
  <2>2. \A s \in SUBSET Test : g[s] = IF s = {} THEN r ELSE Step(g[s \ {Max(s)}], Max(s))
    <3> HIDE DEF F, Step
    <3> QED BY <1>5, <2>1 DEF Steps, Test
  <2>3. \A s \in SUBSET Test : g[s] =
          IF s = {} THEN r
          ELSE IF Catalog[Max(s)] \in r.reported THEN g[s \ {Max(s)}]
          ELSE [g[s \ {Max(s)}] EXCEPT
                 !.sent = Append(@, Blank(Catalog[Max(s)], status)),
                 !.counts = Plus(@, status)]
    <3> SUFFICES ASSUME NEW s \in SUBSET Test
                 PROVE g[s] =
          IF s = {} THEN r
          ELSE IF Catalog[Max(s)] \in r.reported THEN g[s \ {Max(s)}]
          ELSE [g[s \ {Max(s)}] EXCEPT
                 !.sent = Append(@, Blank(Catalog[Max(s)], status)),
                 !.counts = Plus(@, status)]
      OBVIOUS
    <3>1. s # {} => Catalog[Max(s)] = Max(s)
      <4> HIDE DEF F
      <4> QED BY <1>1, <2>1
    <3>2. g[s] = IF s = {} THEN r ELSE Step(g[s \ {Max(s)}], Max(s))
      BY ONLY <2>2, s \in SUBSET Test
    <3> QED BY ONLY <3>1, <3>2 DEF Blanked
  <2>4. g = [s \in SUBSET Test |-> g[s]]
    BY DEF Test
  <2> QED BY ONLY <2>3, <2>4
<1> DEFINE h == CHOOSE x : Is(x)
<1>7. Is(h)
  <2> HIDE DEF Is
  <2> QED BY <1>6
<1>8. ASSUME NEW s \in SUBSET Test, s # {}
      PROVE h[s] = IF Catalog[Max(s)] \in r.reported THEN h[s \ {Max(s)}]
                      ELSE [h[s \ {Max(s)}] EXCEPT
                             !.sent = Append(@, Blank(Catalog[Max(s)], status)),
                             !.counts = Plus(@, status)]
  <2> HIDE DEF h
  <2> QED BY ONLY <1>7, <1>8
<1> DEFINE f == [k \in 0..N |-> h[1..k]]
<1>9. f[0] = r /\ f[N] = h[Test]
  <2> HIDE DEF h
  <2>1. h[{}] = r
    BY ONLY <1>7
  <2>2. 1..0 = {} /\ 0 \in 0..N /\ N \in 0..N
    BY <1>1
  <2> QED BY ONLY <2>1, <2>2 DEF Test
<1>10. ASSUME NEW k \in Test
      PROVE  f[k] = IF k \in r.reported THEN f[k - 1] ELSE Blanked(f[k - 1], k, status)
  <2>1. k \in Nat /\ k >= 1 /\ 1..k \in SUBSET Test /\ k \in 0..N /\ k - 1 \in 0..N
    BY <1>1 DEF Test
  <2>2. 1..k # {} /\ Max(1..k) = k /\ (1..k) \ {k} = 1..(k - 1)
    BY <2>1, UpTo
  <2> HIDE DEF h
  <2>3. f[k] = h[1..k] /\ f[k - 1] = h[1..(k - 1)]
    BY ONLY <2>1
  <2>4. h[1..k] = IF Catalog[k] \in r.reported THEN h[1..(k - 1)]
          ELSE [h[1..(k - 1)] EXCEPT
                 !.sent = Append(@, Blank(Catalog[k], status)),
                 !.counts = Plus(@, status)]
    <3> DEFINE s == 1..k
               p == 1..(k - 1)
    <3>1. s \in SUBSET Test /\ s # {} /\ Max(s) = k /\ s \ {Max(s)} = p
      BY ONLY <2>1, <2>2
    <3> HIDE DEF s, p
    <3>2. h[s] = IF Catalog[k] \in r.reported THEN h[p]
          ELSE [h[p] EXCEPT
                 !.sent = Append(@, Blank(Catalog[k], status)),
                 !.counts = Plus(@, status)]
      BY ONLY <1>8, <3>1
    <3> QED BY ONLY <3>2 DEF s, p
  <2>5. Catalog[k] = k
    BY ONLY <1>1, k \in Test
  <2> QED BY ONLY <2>3, <2>4, <2>5 DEF Blanked
<1> HIDE DEF h, f, Is
<1> QED BY <1>2, <1>9, <1>10 DEF h

\* A test that is reported because it never ended.
Aborted(s, t) ==
  [s EXCEPT !.sent = Append(@, Result(t, Unended, AbortedMessage(s.buffer, s.whole))),
            !.counts = Plus(@, Unended), !.reported = @ \cup Matched(t), !.buffer = <<>>]

\* What such a test leaves in the reader.
LEMMA AbortedType ==
  ASSUME Matching, NEW v \in Reader(Row), NEW k \in Test
  PROVE  LET new == Result(k, Unended, AbortedMessage(v.buffer, v.whole))
             e == Aborted(v, k)
         IN  /\ new \in Row /\ new.test = k /\ new.row = row[k] /\ new.status = Unended
             /\ new.message = AbortedMessage(v.buffer, v.whole) /\ ~new.sub
             /\ e \in Reader(Row) /\ e.sent = Append(v.sent, new)
             /\ e.counts = Plus(v.counts, Unended) /\ e.reported = v.reported \cup Matched(k)
             /\ e.summary = v.summary /\ e.error = v.error
<1> DEFINE message == AbortedMessage(v.buffer, v.whole)
           new == Result(k, Unended, message)
           e == Aborted(v, k)
<1>1. /\ v.counts \in Pair /\ v.sent \in Seq(Row) /\ v.buffer \in Text /\ v.whole \in Text
      /\ v.reported \in SUBSET Test /\ <<>> \in Text
  BY DEF Reader, Text
<1>2. Unended \in {"failed", "timed_out"}
  BY DEF Unended
<1>3. message \in Text \cup {None}
  BY <1>1, MessageType
<1>4. row[k] \in Test \cup {None}
  BY DEF Matching
<1> HIDE DEF message
<1>5. /\ new \in Row /\ new.test = k /\ new.row = row[k] /\ new.status = Unended
      /\ new.message = message /\ ~new.sub
  BY <1>2, <1>3, <1>4 DEF Result, Row
<1>6. e = [v EXCEPT !.sent = Append(v.sent, new), !.counts = Plus(v.counts, Unended),
                    !.reported = v.reported \cup Matched(k), !.buffer = <<>>]
  BY DEF Aborted, message, Reader
<1> HIDE DEF new, e
<1>7. /\ Append(v.sent, new) \in Seq(Row) /\ Plus(v.counts, Unended) \in Pair
      /\ v.reported \cup Matched(k) \in SUBSET Test
  BY <1>1, <1>4, <1>5, PlusType DEF Matched
<1>8. e \in Reader(Row)
  BY <1>1, <1>6, <1>7 DEF Reader
<1>9. /\ e.sent = Append(v.sent, new)
      /\ e.counts = Plus(v.counts, Unended) /\ e.reported = v.reported \cup Matched(k)
      /\ e.summary = v.summary /\ e.error = v.error
  BY <1>6 DEF Reader
<1> QED BY <1>5, <1>8, <1>9 DEF new, e, message

\* report_aborted_tests, test by test.
LEMMA AbortedFold ==
  ASSUME Matching, NEW r \in Reader(Row)
  PROVE  \E f : /\ f[0] = r
                /\ \A k \in Test : f[k] = IF k \notin r.started THEN f[k - 1]
                                          ELSE Aborted(f[k - 1], k)
                /\ ReportAborted(r) = f[N]
<1> DEFINE Is(g) == g = [s \in SUBSET Test |->
                      IF s = {} THEN r
                      ELSE IF Catalog[Max(s)] \notin r.started THEN g[s \ {Max(s)}]
                      ELSE [g[s \ {Max(s)}] EXCEPT
                             !.sent = Append(@, Result(Catalog[Max(s)],
                                        Unended,
                                        AbortedMessage(g[s \ {Max(s)}].buffer,
                                                       g[s \ {Max(s)}].whole))),
                             !.counts = Plus(@, Unended),
                             !.reported = @ \cup Matched(Catalog[Max(s)]), !.buffer = <<>>]]
           S == Reader(Row)
           Step(v, k) == IF k \notin r.started THEN v ELSE Aborted(v, k)
           F == [x \in S \X Test |-> Step(x[1], x[2])]
<1>1. DOMAIN Catalog = Test /\ N \in Nat /\ \A k \in Test : Catalog[k] = k
  BY SuiteAssumption DEF Catalog, Test
<1>2. ReportAborted(r) = (CHOOSE g : Is(g))[Test]
  BY <1>1 DEF ReportAborted, FoldLeft, MapThenFoldSet
<1>3. \A v \in S, k \in Test : Step(v, k) \in S
  <2> SUFFICES ASSUME NEW v \in S, NEW k \in Test PROVE Aborted(v, k) \in S
    OBVIOUS
  <2> QED BY AbortedType
<1>4. F \in [S \X (1..N) -> S]
  <2> HIDE DEF Step, S
  <2> QED BY <1>3 DEF Test
<1>5. PICK g \in [SUBSET (1..N) -> S] : Steps(g, N, r, F)
  <2> HIDE DEF F, S
  <2>1. r \in S
    BY DEF S
  <2> QED BY <1>1, <1>4, <2>1, StepsExist
<1>6. Is(g)
  <2>1. ASSUME NEW s \in SUBSET Test, s # {}
        PROVE  F[<<g[s \ {Max(s)}], Max(s)>>] = Step(g[s \ {Max(s)}], Max(s)) /\ Max(s) \in Test
    <3>1. Max(s) \in Test /\ g[s \ {Max(s)}] \in S
      BY <1>1, <2>1, MaxIs DEF Test
    <3> HIDE DEF Step, S
    <3> QED BY <3>1
  <2>2. \A s \in SUBSET Test : g[s] = IF s = {} THEN r ELSE Step(g[s \ {Max(s)}], Max(s))
    <3> HIDE DEF F, Step
    <3> QED BY <1>5, <2>1 DEF Steps, Test
  <2>3. \A s \in SUBSET Test : g[s] =
          IF s = {} THEN r
          ELSE IF Catalog[Max(s)] \notin r.started THEN g[s \ {Max(s)}]
          ELSE Aborted(g[s \ {Max(s)}], Catalog[Max(s)])
    <3> SUFFICES ASSUME NEW s \in SUBSET Test
                 PROVE g[s] =
          IF s = {} THEN r
          ELSE IF Catalog[Max(s)] \notin r.started THEN g[s \ {Max(s)}]
          ELSE Aborted(g[s \ {Max(s)}], Catalog[Max(s)])
      OBVIOUS
    <3>1. s # {} => Catalog[Max(s)] = Max(s)
      <4> HIDE DEF F
      <4> QED BY <1>1, <2>1
    <3>2. g[s] = IF s = {} THEN r ELSE Step(g[s \ {Max(s)}], Max(s))
      BY ONLY <2>2, s \in SUBSET Test
    <3> QED BY ONLY <3>1, <3>2
  <2>4. g = [s \in SUBSET Test |-> g[s]]
    BY DEF Test
  <2> QED BY ONLY <2>3, <2>4 DEF Aborted
<1> DEFINE h == CHOOSE x : Is(x)
<1>7. Is(h)
  <2> HIDE DEF Is
  <2> QED BY <1>6
<1>8. ASSUME NEW s \in SUBSET Test, s # {}
      PROVE h[s] = IF Catalog[Max(s)] \notin r.started THEN h[s \ {Max(s)}]
                      ELSE Aborted(h[s \ {Max(s)}], Catalog[Max(s)])
  <2> HIDE DEF h
  <2> QED BY ONLY <1>7, <1>8 DEF Aborted
<1> DEFINE f == [k \in 0..N |-> h[1..k]]
<1>9. f[0] = r /\ f[N] = h[Test]
  <2> HIDE DEF h
  <2>1. h[{}] = r
    BY ONLY <1>7
  <2>2. 1..0 = {} /\ 0 \in 0..N /\ N \in 0..N
    BY <1>1
  <2> QED BY ONLY <2>1, <2>2 DEF Test
<1>10. ASSUME NEW k \in Test
      PROVE  f[k] = IF k \notin r.started THEN f[k - 1] ELSE Aborted(f[k - 1], k)
  <2>1. k \in Nat /\ k >= 1 /\ 1..k \in SUBSET Test /\ k \in 0..N /\ k - 1 \in 0..N
    BY <1>1 DEF Test
  <2>2. 1..k # {} /\ Max(1..k) = k /\ (1..k) \ {k} = 1..(k - 1)
    BY <2>1, UpTo
  <2> HIDE DEF h
  <2>3. f[k] = h[1..k] /\ f[k - 1] = h[1..(k - 1)]
    BY ONLY <2>1
  <2>4. h[1..k] = IF Catalog[k] \notin r.started THEN h[1..(k - 1)]
                  ELSE Aborted(h[1..(k - 1)], Catalog[k])
    <3> DEFINE s == 1..k
               p == 1..(k - 1)
    <3>1. s \in SUBSET Test /\ s # {} /\ Max(s) = k /\ s \ {Max(s)} = p
      BY ONLY <2>1, <2>2
    <3> HIDE DEF s, p
    <3>2. h[s] = IF Catalog[k] \notin r.started THEN h[p] ELSE Aborted(h[p], Catalog[k])
      BY ONLY <1>8, <3>1
    <3> QED BY ONLY <3>2 DEF s, p
  <2>5. Catalog[k] = k
    BY ONLY <1>1, k \in Test
  <2> QED BY ONLY <2>3, <2>4, <2>5
<1> HIDE DEF h, f, Is
<1> QED BY <1>2, <1>9, <1>10 DEF h

\* A line of a finished run becomes a row.
Lined(s, rec) ==
  [s EXCEPT !.sent = Append(@, [Result(rec.test, rec.status, None) EXCEPT !.sub = rec.kind = "sub"]),
            !.counts = Plus(@, rec.status), !.reported = @ \cup Matched(rec.test)]

\* What such a line leaves in the reader.
LEMMA LinedType ==
  ASSUME Matching, NEW s \in Reader(Row), NEW rec \in Record, rec.kind \in {"result", "sub"}
  PROVE  LET new == [Result(rec.test, rec.status, None) EXCEPT !.sub = rec.kind = "sub"]
             e == Lined(s, rec)
         IN  /\ new \in Row /\ new.test = rec.test /\ new.row = row[rec.test]
             /\ new.status = rec.status /\ new.sub = (rec.kind = "sub")
             /\ e \in Reader(Row) /\ e.sent = Append(s.sent, new)
             /\ e.counts = Plus(s.counts, rec.status)
             /\ e.reported = s.reported \cup Matched(rec.test)
<1> DEFINE e == Lined(s, rec)
           new == [Result(rec.test, rec.status, None) EXCEPT !.sub = rec.kind = "sub"]
<1>1. s.counts \in Pair /\ s.sent \in Seq(Row) /\ s.reported \in SUBSET Test
  BY DEF Reader
<1>2. rec.test \in Test /\ rec.status \in {"passed", "failed"}
  BY DEF Record
<1>3. row[rec.test] \in Test \cup {None}
  BY <1>2 DEF Matching
<1>4. /\ new \in Row /\ new.test = rec.test /\ new.row = row[rec.test]
      /\ new.status = rec.status /\ new.sub = (rec.kind = "sub")
  BY <1>2, <1>3 DEF Result, Row
<1> HIDE DEF new
<1>5. /\ Append(s.sent, new) \in Seq(Row) /\ Plus(s.counts, rec.status) \in Pair
      /\ s.reported \cup Matched(rec.test) \in SUBSET Test
  BY <1>1, <1>3, <1>4, PlusType DEF Matched
<1>6. e = [s EXCEPT !.sent = Append(s.sent, new), !.counts = Plus(s.counts, rec.status),
                    !.reported = s.reported \cup Matched(rec.test)]
  BY DEF Lined, new, Reader
<1> HIDE DEF e
<1>7. e \in Reader(Row)
  BY <1>5, <1>6 DEF Reader
<1>8. /\ e.sent = Append(s.sent, new) /\ e.counts = Plus(s.counts, rec.status)
      /\ e.reported = s.reported \cup Matched(rec.test)
  BY <1>6 DEF Reader
<1> QED BY <1>4, <1>7, <1>8 DEF e, new

\* The lines of a finished run, line by line.
LEMMA LinesFold ==
  ASSUME Matching, reader \in Reader(Record), NEW kinds \in {{"result"}, {"result", "sub"}}
  PROVE  \E f : /\ f[0] = [reader EXCEPT !.sent = <<>>]
                /\ \A k \in DOMAIN reader.sent :
                     f[k] = IF reader.sent[k].kind \notin kinds THEN f[k - 1]
                            ELSE Lined(f[k - 1], reader.sent[k])
                /\ FromLines(kinds) = f[Len(reader.sent)]
<1> DEFINE q == reader.sent
           n == Len(q)
           r == [reader EXCEPT !.sent = <<>>]
           Is(g) == g = [s \in SUBSET (1..n) |->
                      IF s = {} THEN r
                      ELSE IF q[Max(s)].kind \notin kinds THEN g[s \ {Max(s)}]
                      ELSE [g[s \ {Max(s)}] EXCEPT
                             !.sent = Append(@, [Result(q[Max(s)].test, q[Max(s)].status, None)
                                                  EXCEPT !.sub = q[Max(s)].kind = "sub"]),
                             !.counts = Plus(@, q[Max(s)].status),
                             !.reported = @ \cup Matched(q[Max(s)].test)]]
           S == Reader(Row)
           Step(v, k) == IF q[k].kind \notin kinds THEN v ELSE Lined(v, q[k])
           F == [x \in S \X (1..n) |-> Step(x[1], x[2])]
<1>1. q \in Seq(Record) /\ DOMAIN q = 1..n /\ n \in Nat
  BY DEF Reader
<1>2. FromLines(kinds) = (CHOOSE g : Is(g))[1..n]
  BY <1>1 DEF FromLines, FoldLeft, MapThenFoldSet
<1>3. \A v \in S, k \in 1..n : Step(v, k) \in S
  <2> SUFFICES ASSUME NEW v \in S, NEW k \in 1..n, q[k].kind \in kinds PROVE Lined(v, q[k]) \in S
    OBVIOUS
  <2>1. q[k] \in Record
    BY <1>1
  <2>2. \A rec \in Record : rec.kind \in {"result", "sub"} => Lined(v, rec) \in Reader(Row)
    BY LinedType
  <2>3. q[k].kind \in {"result", "sub"}
    OBVIOUS
  <2> HIDE DEF q
  <2> QED BY <2>1, <2>2, <2>3
<1>4. r \in S
  <2>1. <<>> \in Seq(Row)
    OBVIOUS
  <2> QED BY <2>1 DEF Reader
<1> HIDE DEF r
<1>5. F \in [S \X (1..n) -> S]
  <2> HIDE DEF Step, S
  <2> QED BY <1>3
<1>6. PICK g \in [SUBSET (1..n) -> S] : Steps(g, n, r, F)
  <2> HIDE DEF F, S, n
  <2> QED BY <1>1, <1>5, <1>4, StepsExist
<1>7. Is(g)
  <2>1. ASSUME NEW s \in SUBSET (1..n), s # {}
        PROVE  F[<<g[s \ {Max(s)}], Max(s)>>] = Step(g[s \ {Max(s)}], Max(s))
    <3>1. Max(s) \in 1..n /\ g[s \ {Max(s)}] \in S
      BY <1>1, <2>1, MaxIs
    <3> HIDE DEF Step, S, n
    <3> QED BY <3>1
  <2>2. \A s \in SUBSET (1..n) : g[s] = IF s = {} THEN r ELSE Step(g[s \ {Max(s)}], Max(s))
    <3> HIDE DEF F, Step, n
    <3> QED BY <1>6, <2>1 DEF Steps
  <2>3. g = [s \in SUBSET (1..n) |-> g[s]]
    OBVIOUS
  <2> HIDE DEF n, q
  <2> QED BY ONLY <2>2, <2>3 DEF Lined
<1> DEFINE h == CHOOSE x : Is(x)
<1>8. Is(h)
  <2> HIDE DEF Is
  <2> QED BY <1>7
<1>9. ASSUME NEW s \in SUBSET (1..n), s # {}
      PROVE h[s] = Step(h[s \ {Max(s)}], Max(s))
  <2> HIDE DEF h, n, q
  <2> QED BY ONLY <1>8, <1>9 DEF Lined
<1> DEFINE f == [k \in 0..n |-> h[1..k]]
<1>10. f[0] = r /\ f[n] = h[1..n]
  <2> HIDE DEF h, n
  <2>1. h[{}] = r
    BY ONLY <1>8
  <2>2. 1..0 = {} /\ 0 \in 0..n /\ n \in 0..n
    BY <1>1
  <2> QED BY ONLY <2>1, <2>2
<1>11. ASSUME NEW k \in 1..n
      PROVE  f[k] = Step(f[k - 1], k)
  <2> HIDE DEF n
  <2>1. k \in Nat /\ k >= 1 /\ 1..k \in SUBSET (1..n) /\ k \in 0..n /\ k - 1 \in 0..n
    BY <1>1
  <2>2. 1..k # {} /\ Max(1..k) = k /\ (1..k) \ {k} = 1..(k - 1)
    BY <2>1, UpTo
  <2> HIDE DEF h
  <2>3. f[k] = h[1..k] /\ f[k - 1] = h[1..(k - 1)]
    BY ONLY <2>1
  <2>4. h[1..k] = Step(h[1..(k - 1)], k)
    <3> DEFINE s == 1..k
               p == 1..(k - 1)
    <3>1. s \in SUBSET (1..n) /\ s # {} /\ Max(s) = k /\ s \ {Max(s)} = p
      BY ONLY <2>1, <2>2
    <3> HIDE DEF s, p, Step
    <3>2. h[s] = Step(h[p], k)
      BY ONLY <1>9, <3>1
    <3> QED BY ONLY <3>2 DEF s, p
  <2> HIDE DEF Step
  <2> QED BY ONLY <2>3, <2>4
<1> HIDE DEF h, f, Is
<1> QED BY <1>1, <1>2, <1>10, <1>11 DEF h, r

-----------------------------------------------------------------------------
(* How far a reading of the channel has come: the start of test t is at    *)
(* 2t, its result (read as one or not) at 2t + 1, the summary after the    *)
(* last; and what the results were.                                        *)

\* A place, and the place after a record.
Place == Nat \X Pair

After(x, rec) ==
  <<IF rec.kind \in {"garbage", "sub"} THEN x[1] ELSE x[1] + 1,
    IF rec.kind \in {"result", "unread"} THEN Plus(x[2], rec.status) ELSE x[2]>>

\* The record may be the next one at place x.
Fits(x, rec) ==
  /\ rec.kind = "start" => x[1] + 1 = 2 * rec.test
  /\ rec.kind \in {"garbage", "sub", "result", "unread"} => x[1] = 2 * rec.test
  /\ rec.kind = "summary" => x[1] = 2 * N + 1 /\ rec.status = x[2]

\* The records of q lead from x to y, none missing and none twice.
Chain(x, q, y) ==
  \E v \in [0..Len(q) -> Place] :
    /\ v[0] = x /\ v[Len(q)] = y
    /\ \A i \in 1..Len(q) : Fits(v[i - 1], q[i]) /\ v[i] = After(v[i - 1], q[i])

\* The place after a record is a place.
LEMMA AfterType == \A x \in Place : \A rec : After(x, rec) \in Place
BY PlusType DEF After, Place

\* Nothing on its way: the two places are the same.
LEMMA ChainEmpty ==
  ASSUME NEW x \in Place, NEW y
  PROVE  Chain(x, <<>>, y) <=> x = y
<1>1. Len(<<>>) = 0 /\ 1..0 = {} /\ 0..0 = {0}
  OBVIOUS
<1>2. ASSUME Chain(x, <<>>, y) PROVE x = y
  BY <1>1, <1>2 DEF Chain
<1>3. ASSUME x = y PROVE Chain(x, <<>>, y)
  <2> DEFINE v == [i \in 0..0 |-> x]
  <2>1. v \in [0..0 -> Place] /\ v[0] = x
    BY <1>1
  <2> QED BY <1>1, <1>3, <2>1 DEF Chain
<1> QED BY <1>2, <1>3

\* A record written where the process is extends the chain.
LEMMA ChainAppend ==
  ASSUME NEW q \in Seq(Record), NEW rec \in Record, NEW x, NEW y \in Place,
         Chain(x, q, y), Fits(y, rec)
  PROVE  Chain(x, Append(q, rec), After(y, rec))
<1> DEFINE n == Len(q)
           m == Append(q, rec)
           z == After(y, rec)
<1>1. PICK v \in [0..n -> Place] :
        /\ v[0] = x /\ v[n] = y
        /\ \A i \in 1..n : Fits(v[i - 1], q[i]) /\ v[i] = After(v[i - 1], q[i])
  BY DEF Chain
<1>2. /\ n \in Nat /\ Len(m) = n + 1 /\ \A i \in 1..n : m[i] = q[i]
      /\ m[n + 1] = rec
  BY Appended
<1>3. z \in Place
  BY AfterType
<1> HIDE DEF n, m, z
<1> DEFINE w == [i \in 0..(n + 1) |-> IF i = n + 1 THEN z ELSE v[i]]
<1>4. w \in [0..(n + 1) -> Place] /\ w[0] = x /\ w[n + 1] = z
  BY <1>1, <1>2, <1>3
<1>5. ASSUME NEW i \in 1..(n + 1)
      PROVE  Fits(w[i - 1], m[i]) /\ w[i] = After(w[i - 1], m[i])
  <2>1. CASE i = n + 1
    <3>1. i - 1 = n /\ w[n] = y /\ w[i] = z /\ m[i] = rec
      BY <1>1, <1>2, <2>1
    <3> QED BY <3>1 DEF z
  <2>2. CASE i # n + 1
    <3>1. i \in 1..n /\ w[i - 1] = v[i - 1] /\ w[i] = v[i] /\ m[i] = q[i]
      BY <1>2, <2>2
    <3> QED BY <1>1, <3>1
  <2> QED BY <2>1, <2>2
<1> HIDE DEF w
<1> QED BY <1>2, <1>4, <1>5 DEF Chain, m, z

\* Reading the first record moves the reader past it.
LEMMA ChainTail ==
  ASSUME NEW q \in Seq(Record), NEW x, NEW y, q # <<>>, Chain(x, q, y)
  PROVE  Fits(x, Head(q)) /\ Chain(After(x, Head(q)), Tail(q), y)
<1> DEFINE n == Len(q)
           m == Tail(q)
<1>1. PICK v \in [0..n -> Place] :
        /\ v[0] = x /\ v[n] = y
        /\ \A i \in 1..n : Fits(v[i - 1], q[i]) /\ v[i] = After(v[i - 1], q[i])
  BY DEF Chain
<1>2. /\ n \in Nat /\ n >= 1 /\ Len(m) = n - 1 /\ \A i \in 1..(n - 1) : m[i] = q[i + 1]
      /\ Head(q) = q[1]
  OBVIOUS
<1> HIDE DEF n, m
<1> DEFINE w == [i \in 0..(n - 1) |-> v[i + 1]]
<1>3. Fits(x, Head(q)) /\ v[1] = After(x, Head(q))
  BY <1>1, <1>2
<1>4. w \in [0..(n - 1) -> Place] /\ w[0] = v[1] /\ w[n - 1] = y
  BY <1>1, <1>2
<1>5. ASSUME NEW i \in 1..(n - 1)
      PROVE  Fits(w[i - 1], m[i]) /\ w[i] = After(w[i - 1], m[i])
  <2>1. i + 1 \in 1..n /\ (i + 1) - 1 = i /\ w[i - 1] = v[i] /\ w[i] = v[i + 1] /\ m[i] = q[i + 1]
    BY <1>2
  <2>2. Fits(v[(i + 1) - 1], q[i + 1]) /\ v[i + 1] = After(v[(i + 1) - 1], q[i + 1])
    BY <1>1, <2>1
  <2> QED BY <2>1, <2>2
<1> HIDE DEF w
<1>6. Chain(v[1], m, y)
  BY <1>2, <1>4, <1>5 DEF Chain
<1> QED BY <1>3, <1>6 DEF m

-----------------------------------------------------------------------------
(* Rows.                                                                   *)

\* A result more: its test and its row are added, and the results still stand
\* apart.
LEMMA RowAppend ==
  ASSUME NEW q \in Seq(Row), NEW e \in Row
  PROVE  /\ Tests(Append(q, e)) = Tests(q) \cup {e.test}
         /\ Rows(Append(q, e)) = Rows(q) \cup {e.row}
         /\ Distinct(q) /\ (\A i \in DOMAIN q : Apart(q[i], e)) => Distinct(Append(q, e))
<1> DEFINE n == Append(q, e)
           k == Len(q) + 1
<1>1. /\ DOMAIN n = DOMAIN q \cup {k} /\ k \notin DOMAIN q
      /\ \A i \in DOMAIN q : n[i] = q[i]
      /\ n[k] = e
  BY Appended
<1> HIDE DEF n, k
<1>2. Tests(n) = Tests(q) \cup {e.test} /\ Rows(n) = Rows(q) \cup {e.row}
  BY <1>1 DEF Tests, Rows
<1>3. ASSUME Distinct(q), \A i \in DOMAIN q : Apart(q[i], e)
      PROVE  Distinct(n)
  <2> SUFFICES ASSUME NEW i \in DOMAIN n, NEW j \in DOMAIN n, i # j
               PROVE  Apart(n[i], n[j])
    BY DEF Distinct
  <2>1. CASE i \in DOMAIN q /\ j \in DOMAIN q
    BY <1>1, <1>3, <2>1 DEF Distinct
  <2>2. CASE i = k /\ j \in DOMAIN q
    BY <1>1, <1>3, <2>2 DEF Apart
  <2>3. CASE i \in DOMAIN q /\ j = k
    BY <1>1, <1>3, <2>3
  <2> QED BY <1>1, <2>1, <2>2, <2>3
<1> QED BY <1>2, <1>3 DEF n

-----------------------------------------------------------------------------
(* What the accounting sends.                                              *)

\* The results agree with the counts and the rows they are kept with, and each
\* is of a test.
Kept(r) ==
  /\ r.counts = Tally(r.sent) /\ Distinct(r.sent)
  /\ r.reported = Rows(r.sent) \ {None} /\ None \notin Tests(r.sent)

\* report_timed_out_remainder leaves a result for each row of the catalog, changes
\* no result of a test, and counts what it adds as failed.
LEMMA RemainderGives ==
  ASSUME NEW r \in Reader(Row), NEW status \in {"failed", "timed_out"}, Kept(r)
  PROVE  LET e == ReportRemainder(r, status) IN
         /\ e \in Reader(Row)
         /\ e.summary = r.summary /\ e.error = r.error
         /\ e.counts = Tally(e.sent) /\ Distinct(e.sent)
         /\ Test \subseteq Rows(e.sent)
         /\ e.counts[1] = r.counts[1]
         /\ \A i \in DOMAIN e.sent : e.sent[i].test # None =>
              \E j \in DOMAIN r.sent : e.sent[i] = r.sent[j]
         /\ Test \subseteq r.reported => e = r
<1>1. PICK f : /\ f[0] = r
               /\ \A k \in Test : f[k] = IF k \in r.reported THEN f[k - 1]
                                          ELSE Blanked(f[k - 1], k, status)
               /\ ReportRemainder(r, status) = f[N]
  BY RemainderFold
<1> DEFINE Good(e, k) ==
             /\ e \in Reader(Row)
             /\ e.summary = r.summary /\ e.error = r.error
             /\ e.counts = Tally(e.sent) /\ Distinct(e.sent)
             /\ Rows(e.sent) \ {None} = r.reported \cup 1..k
             /\ e.counts[1] = r.counts[1]
             /\ \A i \in DOMAIN e.sent : e.sent[i].test # None =>
                  \E j \in DOMAIN r.sent : e.sent[i] = r.sent[j]
             /\ Test \subseteq r.reported => e = r
           B == {k \in 0..N : Good(f[k], k)}
<1>2. N \in Nat /\ Test = 1..N /\ None \notin Test
  BY SuiteAssumption DEF Test
<1>3. 0 \in B
  <2>1. 1..0 = {}
    OBVIOUS
  <2> QED BY <1>1, <1>2, <2>1 DEF Kept
<1>4. ASSUME NEW k \in 0..N, k + 1 \in Test, Good(f[k], k)
      PROVE  Good(f[k + 1], k + 1)
  <2> DEFINE s == f[k]
             t == k + 1
             new == Blank(t, status)
             n == Blanked(s, t, status)
  <2>1. f[t] = IF t \in r.reported THEN s ELSE n
    <3>1. t - 1 = k
      BY <1>2
    <3> QED BY <1>1, <1>4, <3>1
  <2>2. 1..t = 1..k \cup {t} /\ t \notin 1..k
    BY <1>2
  <2>3. CASE t \in r.reported
    <3>1. f[t] = s /\ r.reported \cup 1..t = r.reported \cup 1..k
      BY <2>1, <2>2, <2>3
    <3> QED BY <1>4, <3>1
  <2>4. CASE t \notin r.reported
    <3>1. s \in Reader(Row) /\ s.sent \in Seq(Row) /\ s.counts \in Pair
      BY <1>4 DEF Reader
    <3>2. /\ new \in Row /\ new.test = None /\ new.row = t /\ new.status = status /\ ~new.sub
          /\ t \in Test
      BY <1>4 DEF Blank, Row
    <3> HIDE DEF s, t, new
    <3>3. n = [s EXCEPT !.sent = Append(s.sent, new), !.counts = Plus(s.counts, status)]
      BY <3>1 DEF Blanked, Reader, new
    <3>4. Append(s.sent, new) \in Seq(Row) /\ Plus(s.counts, status) \in Pair
      BY <3>1, <3>2, PlusType
    <3>5. /\ n \in Reader(Row) /\ n.sent = Append(s.sent, new)
          /\ n.counts = Plus(s.counts, status) /\ n.summary = s.summary /\ n.error = s.error
      BY <3>1, <3>3, <3>4 DEF Reader
    <3> HIDE DEF n
    <3>6. n.counts = Tally(n.sent) /\ n.counts[1] = s.counts[1]
      <4>1. n.counts = Tally(n.sent)
        BY <1>4, <3>1, <3>2, <3>5, TallyAppend DEF s
      <4>2. n.counts[1] = s.counts[1]
        BY <3>1, <3>5 DEF Plus, Pair
      <4> QED BY <4>1, <4>2
    <3>7. t \notin Rows(s.sent) /\ t # None
      BY <1>2, <1>4, <2>2, <2>4, <3>2 DEF s
    <3>8. Rows(n.sent) = Rows(s.sent) \cup {t} /\ Distinct(n.sent)
      <4>1. \A i \in DOMAIN s.sent : s.sent[i].row # t
        BY <3>7 DEF Rows
      <4>2. \A i \in DOMAIN s.sent : Apart(s.sent[i], new)
        BY <3>2, <4>1 DEF Apart
      <4> QED BY <1>4, <3>1, <3>2, <3>5, <4>2, RowAppend DEF s
    <3>9. ASSUME NEW i \in DOMAIN n.sent, n.sent[i].test # None
          PROVE  \E j \in DOMAIN r.sent : n.sent[i] = r.sent[j]
      <4>1. DOMAIN n.sent = DOMAIN s.sent \cup {Len(s.sent) + 1}
            /\ n.sent[Len(s.sent) + 1] = new
            /\ \A j \in DOMAIN s.sent : n.sent[j] = s.sent[j]
        BY <3>1, <3>2, <3>5, Appended
      <4>2. i \in DOMAIN s.sent
        BY <3>2, <3>9, <4>1
      <4> QED BY <1>4, <3>9, <4>1, <4>2 DEF s
    <3>10. ~(Test \subseteq r.reported)
      BY <2>4, <3>2
    <3>11. Rows(n.sent) \ {None} = r.reported \cup 1..t
      BY <1>4, <2>2, <3>7, <3>8 DEF s
    <3>12. Good(n, t)
      BY <1>4, <3>5, <3>6, <3>8, <3>9, <3>10, <3>11 DEF s
    <3> QED BY <2>1, <2>4, <3>12 DEF t
  <2> QED BY <2>3, <2>4
<1> HIDE DEF Good
<1>5. \A k \in B : k < N => k + 1 \in B
  BY <1>2, <1>4
<1>6. B \in SUBSET Nat
  BY <1>2
<1> HIDE DEF B
<1>7. N \in B
  BY <1>2, <1>3, <1>5, <1>6, FromZero
<1>8. Good(f[N], N)
  BY <1>7 DEF B
<1> QED BY <1>1, <1>2, <1>8 DEF Good

\* At most one test has started and not ended.
LEMMA AbortedGives ==
  ASSUME Matching, NEW r \in Reader(Row), Kept(r)
  PROVE  LET e == ReportAborted(r) IN
         /\ r.started = {} => e = r
         /\ \A u \in Test \ Tests(r.sent) : r.started = {u} =>
              /\ e \in Reader(Row) /\ Kept(e)
              /\ e.summary = r.summary /\ e.error = r.error
              /\ \A i \in DOMAIN e.sent : e.sent[i].test = u =>
                   e.sent[i].message = AbortedMessage(r.buffer, r.whole)
<1>1. PICK f : /\ f[0] = r
               /\ \A k \in Test : f[k] = IF k \notin r.started THEN f[k - 1]
                                          ELSE Aborted(f[k - 1], k)
               /\ ReportAborted(r) = f[N]
  BY AbortedFold
<1>2. N \in Nat /\ Test = 1..N
  BY SuiteAssumption DEF Test
<1>3. ASSUME r.started = {} PROVE f[N] = r
  <2> DEFINE B == {k \in 0..N : f[k] = r}
  <2>1. 0 \in B
    BY <1>1, <1>2
  <2>2. \A k \in B : k < N => k + 1 \in B
    <3> SUFFICES ASSUME NEW k \in B, k < N PROVE k + 1 \in B
      OBVIOUS
    <3>1. k + 1 \in Test /\ (k + 1) - 1 = k /\ k + 1 \in 0..N
      BY <1>2
    <3> QED BY <1>1, <1>3, <3>1
  <2>3. B \in SUBSET Nat
    BY <1>2
  <2> HIDE DEF B
  <2>4. N \in B
    BY <1>2, <2>1, <2>2, <2>3, FromZero
  <2> QED BY <2>4 DEF B
<1>4. ASSUME NEW u \in Test \ Tests(r.sent), r.started = {u}
      PROVE  f[N] = Aborted(r, u)
  <2> DEFINE B == {k \in 0..N : f[k] = IF u <= k THEN Aborted(r, u) ELSE r}
  <2>1. u \in 1..N
    BY <1>2
  <2>2. 0 \in B
    BY <1>1, <1>2, <2>1
  <2>3. \A k \in B : k < N => k + 1 \in B
    <3> SUFFICES ASSUME NEW k \in B, k < N PROVE k + 1 \in B
      OBVIOUS
    <3>1. k + 1 \in Test /\ (k + 1) - 1 = k /\ k + 1 \in 0..N
      BY <1>2
    <3>2. f[k + 1] = IF k + 1 # u THEN f[k] ELSE Aborted(f[k], k + 1)
      BY <1>1, <1>4, <3>1
    <3>3. f[k] = IF u <= k THEN Aborted(r, u) ELSE r
      OBVIOUS
    <3>4. f[k + 1] = IF u <= k + 1 THEN Aborted(r, u) ELSE r
      <4>1. CASE k + 1 = u
        BY <2>1, <3>1, <3>2, <3>3, <4>1
      <4>2. CASE k + 1 # u
        <5>1. k \in Nat /\ u \in Nat /\ (u <= k <=> u <= k + 1)
          BY <1>2, <2>1, <4>2
        <5> QED BY <3>2, <3>3, <4>2, <5>1
      <4> QED BY <4>1, <4>2
    <3> QED BY <3>1, <3>4
  <2>4. B \in SUBSET Nat
    BY <1>2
  <2> HIDE DEF B
  <2>5. N \in B
    BY <1>2, <2>2, <2>3, <2>4, FromZero
  <2> QED BY <2>1, <2>5 DEF B
<1>5. ASSUME NEW u \in Test \ Tests(r.sent)
      PROVE  LET e == Aborted(r, u) IN
             /\ e \in Reader(Row) /\ Kept(e)
             /\ e.summary = r.summary /\ e.error = r.error
             /\ \A i \in DOMAIN e.sent : e.sent[i].test = u =>
                  e.sent[i].message = AbortedMessage(r.buffer, r.whole)
  <2> DEFINE e == Aborted(r, u)
             new == Result(u, Unended, AbortedMessage(r.buffer, r.whole))
  <2>1. r.counts \in Pair /\ r.sent \in Seq(Row)
    BY DEF Reader
  <2>2. /\ new \in Row /\ new.test = u /\ new.row = row[u] /\ new.status = Unended
        /\ new.message = AbortedMessage(r.buffer, r.whole)
        /\ e \in Reader(Row) /\ e.sent = Append(r.sent, new)
        /\ e.counts = Plus(r.counts, Unended) /\ e.reported = r.reported \cup Matched(u)
        /\ e.summary = r.summary /\ e.error = r.error
    BY AbortedType
  <2> HIDE DEF e, new
  <2>3. e.counts = Tally(e.sent)
    BY <2>1, <2>2, TallyAppend DEF Kept
  <2>4. u # None /\ \A i \in DOMAIN r.sent : r.sent[i].test # u /\ r.sent[i].test # None
    BY <1>2, SuiteAssumption DEF Kept, Tests
  <2>5. \A i \in DOMAIN r.sent : Apart(r.sent[i], new)
    BY <2>2, <2>4 DEF Apart
  <2>6. Tests(e.sent) = Tests(r.sent) \cup {u} /\ Rows(e.sent) = Rows(r.sent) \cup {row[u]}
        /\ Distinct(e.sent)
    BY <2>1, <2>2, <2>5, RowAppend DEF Kept
  <2>7. Kept(e)
    BY <2>2, <2>3, <2>4, <2>6 DEF Kept, Matched
  <2>8. /\ DOMAIN e.sent = DOMAIN r.sent \cup {Len(r.sent) + 1}
        /\ e.sent[Len(r.sent) + 1] = new
        /\ \A i \in DOMAIN r.sent : e.sent[i] = r.sent[i]
    BY <2>1, <2>2, Appended
  <2>9. \A i \in DOMAIN e.sent : e.sent[i].test = u =>
           e.sent[i].message = AbortedMessage(r.buffer, r.whole)
    BY <2>2, <2>4, <2>8
  <2> QED BY <2>2, <2>7, <2>9 DEF e
<1> QED BY <1>1, <1>3, <1>4, <1>5

\* A line that becomes a result keeps results, counts and rows in agreement.
LEMMA LinedKept ==
  ASSUME Matching, NEW s \in Reader(Row), Kept(s),
         NEW rec \in Record, rec.kind \in {"result", "sub"},
         \/ rec.kind = "sub"
         \/ \A i \in DOMAIN s.sent : s.sent[i].test = rec.test => s.sent[i].sub
  PROVE  LET e == Lined(s, rec) IN
         /\ e \in Reader(Row) /\ Kept(e)
         /\ e.counts = Plus(s.counts, rec.status)
         /\ e.reported = s.reported \cup Matched(rec.test)
         /\ \A i \in DOMAIN e.sent :
              \/ i \in DOMAIN s.sent /\ e.sent[i] = s.sent[i]
              \/ e.sent[i].test = rec.test /\ e.sent[i].sub = (rec.kind = "sub")
<1> DEFINE e == Lined(s, rec)
           new == [Result(rec.test, rec.status, None) EXCEPT !.sub = rec.kind = "sub"]
<1>1. s.counts \in Pair /\ s.sent \in Seq(Row)
  BY DEF Reader
<1>2. rec.test \in Test /\ rec.test # None
  BY SuiteAssumption DEF Record
<1>3. /\ new \in Row /\ new.test = rec.test /\ new.row = row[rec.test]
      /\ new.status = rec.status /\ new.sub = (rec.kind = "sub")
      /\ e \in Reader(Row) /\ e.sent = Append(s.sent, new)
      /\ e.counts = Plus(s.counts, rec.status) /\ e.reported = s.reported \cup Matched(rec.test)
  BY LinedType
<1> HIDE DEF e, new
<1>4. e.counts = Tally(e.sent)
  BY <1>1, <1>3, TallyAppend DEF Kept
<1>5. \A i \in DOMAIN s.sent : s.sent[i].test # None
  BY DEF Kept, Tests
<1>6. \A i \in DOMAIN s.sent : Apart(s.sent[i], new)
  BY <1>2, <1>3, <1>5 DEF Apart
<1>7. /\ Tests(e.sent) = Tests(s.sent) \cup {rec.test}
      /\ Rows(e.sent) = Rows(s.sent) \cup {row[rec.test]} /\ Distinct(e.sent)
  BY <1>1, <1>3, <1>6, RowAppend DEF Kept
<1>8. Kept(e)
  BY <1>2, <1>3, <1>4, <1>7 DEF Kept, Matched
<1>9. /\ DOMAIN e.sent = DOMAIN s.sent \cup {Len(s.sent) + 1}
      /\ e.sent[Len(s.sent) + 1] = new
      /\ \A i \in DOMAIN s.sent : e.sent[i] = s.sent[i]
  BY <1>1, <1>3, Appended
<1> QED BY <1>3, <1>8, <1>9 DEF e

\* The tests whose result is before place x.
Before(x) == {t \in Test : 2 * t + 1 <= x[1]}

\* The languages whose output is read as lines (FromLines): they lead to place x, so
\* there is one result of each test up to x whose line could be read, and a summary
\* among the lines is the last and says what was counted by the process.
LEMMA LinesGives ==
  ASSUME Matching, reader \in Reader(Record), reader.reported = {}, reader.counts = <<0, 0>>,
         NEW x, Chain(<<1, <<0, 0>>>>, reader.sent, x),
         NEW kinds \in {{"result"}, {"result", "sub"}}
  PROVE  LET e == FromLines(kinds) IN
         /\ e \in Reader(Row) /\ Kept(e)
         /\ kinds = {"result"} => e.counts[1] <= x[2][1]
         /\ (\A i \in DOMAIN reader.sent : reader.sent[i].kind # "unread") =>
              /\ \A t \in Before(x) : Matched(t) \subseteq e.reported
              /\ kinds = {"result"} => e.counts = x[2]
         /\ \A i \in DOMAIN reader.sent :
              reader.sent[i].kind = "summary" => x = <<2 * N + 2, reader.sent[i].status>>
<1> DEFINE q == reader.sent
           n == Len(q)
<1>1. q \in Seq(Record) /\ DOMAIN q = 1..n /\ n \in Nat
  BY DEF Reader
<1>2. PICK f : /\ f[0] = [reader EXCEPT !.sent = <<>>]
               /\ \A k \in DOMAIN reader.sent :
                    f[k] = IF reader.sent[k].kind \notin kinds THEN f[k - 1]
                           ELSE Lined(f[k - 1], reader.sent[k])
               /\ FromLines(kinds) = f[Len(reader.sent)]
  BY LinesFold
<1>3. /\ f[0] = [reader EXCEPT !.sent = <<>>]
      /\ \A k \in 1..n :
           f[k] = IF q[k].kind \notin kinds THEN f[k - 1] ELSE Lined(f[k - 1], q[k])
      /\ FromLines(kinds) = f[n]
  BY <1>1, <1>2
<1>4. PICK v \in [0..n -> Place] :
        /\ v[0] = <<1, <<0, 0>>>> /\ v[n] = x
        /\ \A i \in 1..n : Fits(v[i - 1], q[i]) /\ v[i] = After(v[i - 1], q[i])
  BY DEF Chain
<1>5. N \in Nat /\ Test = 1..N
  BY SuiteAssumption DEF Test
<1> DEFINE Good(e, y, k) ==
             /\ e \in Reader(Row) /\ Kept(e)
             /\ \A i \in DOMAIN e.sent : ~e.sent[i].sub => 2 * e.sent[i].test + 1 <= y[1]
             /\ kinds = {"result"} => e.counts[1] <= y[2][1]
             /\ (\A i \in 1..k : q[i].kind # "unread") =>
                  /\ \A t \in Test : 2 * t + 1 <= y[1] => Matched(t) \subseteq e.reported
                  /\ kinds = {"result"} => e.counts = y[2]
             /\ \A i \in 1..k : q[i].kind = "summary" => y = <<2 * N + 2, q[i].status>>
           B == {k \in 0..n : Good(f[k], v[k], k)}
<1>6. 0 \in B
  <2> DEFINE e == [reader EXCEPT !.sent = <<>>]
  <2>1. <<>> \in Seq(Row) /\ DOMAIN <<>> = {}
    OBVIOUS
  <2>2. e \in Reader(Row)
    BY <2>1 DEF Reader
  <2>3. e.sent = <<>> /\ e.counts = <<0, 0>> /\ e.reported = {}
    BY DEF Reader
  <2>4. Kept(e)
    BY <2>1, <2>3, TallyEmpty DEF Kept, Tests, Rows, Distinct
  <2> HIDE DEF e
  <2>5. 1..0 = {} /\ 0 \in 0..n
    BY <1>1
  <2>6. v[0][1] = 1 /\ v[0][2] = <<0, 0>>
    BY <1>4
  <2>7. \A t \in Test : ~(2 * t + 1 <= 1)
    BY <1>5
  <2>8. f[0] = e
    BY <1>3 DEF e
  <2>9. Good(e, v[0], 0)
    BY <2>1, <2>2, <2>3, <2>4, <2>5, <2>6, <2>7
  <2> QED BY <2>5, <2>8, <2>9
<1>7. ASSUME NEW k \in 0..n, k + 1 \in 1..n, Good(f[k], v[k], k)
      PROVE  Good(f[k + 1], v[k + 1], k + 1)
  <2> DEFINE s == f[k]
             m == k + 1
             rec == q[m]
             y == v[k]
             z == v[m]
  <2>1. rec \in Record /\ m \in 1..n /\ m - 1 = k /\ \A i \in 1..m : i \in 1..k \/ i = m
    BY <1>1, <1>7
  <2>2. \A i \in 1..n : Fits(v[i - 1], q[i]) /\ v[i] = After(v[i - 1], q[i])
    BY <1>4
  <2>3. \A i \in 0..n : v[i] \in Place
    BY <1>4
  <2>4. f[m] = IF rec.kind \notin kinds THEN s ELSE Lined(s, rec)
    BY <1>3, <2>1
  <2>5. Fits(y, rec) /\ z = After(y, rec) /\ y \in Place /\ z \in Place
    <3>1. m \in 0..n /\ k \in 0..n
      BY <1>1, <2>1
    <3>2. Fits(v[m - 1], q[m]) /\ v[m] = After(v[m - 1], q[m])
      <4> HIDE DEF m
      <4> QED BY ONLY <2>2, <2>1
    <3> HIDE DEF m
    <3> QED BY ONLY <2>1, <3>1, <3>2, <2>3
  <2>6. y[1] \in Nat /\ z[1] \in Nat /\ y[2] \in Pair /\ z = <<z[1], z[2]>>
    BY <2>5 DEF Place
  <2>7. Good(s, y, k)
    BY <1>7
  <2> HIDE DEF s, m, y, z, q
  <2>8. \A i \in DOMAIN s.sent : s.sent[i].test \in Test /\ s.sent[i].sub \in BOOLEAN
    <3>1. s.sent \in Seq(Row)
      BY <2>7 DEF Reader
    <3>2. \A i \in DOMAIN s.sent : s.sent[i] \in Row
      BY <3>1
    <3> QED BY <2>7, <3>2 DEF Row, Kept, Tests
  <2>9. s.counts \in Pair /\ s.counts[1] \in Nat /\ y[2][1] \in Nat
    BY <2>6, <2>7 DEF Reader, Pair
  <2>10. (\A i \in 1..m : q[i].kind # "unread") => \A i \in 1..k : q[i].kind # "unread"
    <3>1. \A i \in 1..k : i \in 1..m
      BY <1>7, <2>1 DEF m
    <3> QED BY <3>1
  <2>11. ASSUME rec.kind = "start" PROVE Good(f[m], z, m)
    <3>1. rec.kind \notin kinds /\ rec.test \in Test
      BY <2>1, <2>11 DEF Record
    <3>2. z[1] = y[1] + 1 /\ z[2] = y[2] /\ z[1] = 2 * rec.test
      BY <2>5, <2>11 DEF Fits, After
    <3>3. \A t \in Test : 2 * t + 1 <= z[1] => 2 * t + 1 <= y[1]
      BY <1>5, <2>6, <3>1, <3>2
    <3>4. y[1] # 2 * N + 2
      BY <1>5, <2>6, <3>1, <3>2
    <3>5. \A i \in DOMAIN s.sent : 2 * s.sent[i].test + 1 <= y[1] => 2 * s.sent[i].test + 1 <= z[1]
      BY <1>5, <2>6, <2>8, <3>2
    <3>6. \A i \in 1..m : q[i].kind # "summary"
      BY <2>1, <2>7, <2>11, <3>4
    <3> HIDE DEF rec
    <3> QED BY <2>4, <2>7, <2>10, <3>1, <3>2, <3>3, <3>5, <3>6
  <2>12. ASSUME rec.kind = "garbage" PROVE Good(f[m], z, m)
    <3>1. rec.kind \notin kinds /\ z = y
      <4>1. z = <<y[1], y[2]>> /\ y = <<y[1], y[2]>>
        BY <2>5, <2>12 DEF After, Place
      <4> QED BY <2>12, <4>1
    <3>2. \A i \in 1..m : q[i].kind = "summary" => i \in 1..k
      BY <2>1, <2>12
    <3> HIDE DEF rec
    <3> QED BY <2>4, <2>7, <2>10, <3>1, <3>2
  <2>13. ASSUME rec.kind = "sub" PROVE Good(f[m], z, m)
    <3>1. z = y
      <4>1. z = <<y[1], y[2]>> /\ y = <<y[1], y[2]>>
        BY <2>5, <2>13 DEF After, Place
      <4> QED BY <4>1
    <3>2. \A i \in 1..m : q[i].kind = "summary" => i \in 1..k
      BY <2>1, <2>13
    <3>3. CASE rec.kind \notin kinds
      <4> HIDE DEF rec
      <4> QED BY <2>4, <2>7, <2>10, <3>1, <3>2, <3>3
    <3>4. CASE rec.kind \in kinds
      <4> DEFINE e == Lined(s, rec)
      <4>1. kinds # {"result"}
        BY <2>13, <3>4
      <4> HIDE DEF rec
      <4>2. /\ e \in Reader(Row) /\ Kept(e)
            /\ e.reported = s.reported \cup Matched(rec.test)
            /\ \A i \in DOMAIN e.sent :
                 \/ i \in DOMAIN s.sent /\ e.sent[i] = s.sent[i]
                 \/ e.sent[i].test = rec.test /\ e.sent[i].sub = (rec.kind = "sub")
        BY <2>1, <2>7, <2>13, LinedKept
      <4>3. f[m] = e
        BY <2>4, <3>4
      <4> HIDE DEF e
      <4>4. \A i \in DOMAIN e.sent : ~e.sent[i].sub => 2 * e.sent[i].test + 1 <= y[1]
        BY <2>7, <2>13, <4>2
      <4> QED BY <2>7, <2>10, <3>1, <3>2, <4>1, <4>2, <4>3, <4>4
    <3> QED BY <3>3, <3>4
  <2>14. ASSUME rec.kind = "result" PROVE Good(f[m], z, m)
    <3> DEFINE e == Lined(s, rec)
    <3>1. rec.test \in Test /\ rec.kind \in kinds
      BY <2>1, <2>14 DEF Record
    <3>2. y[1] = 2 * rec.test /\ z[1] = y[1] + 1 /\ z[2] = Plus(y[2], rec.status)
      BY <2>5, <2>14 DEF Fits, After
    <3>3. y[1] # 2 * N + 2
      BY <1>5, <2>6, <3>1, <3>2
    <3>4. \A i \in 1..m : q[i].kind # "summary"
      BY <2>1, <2>7, <2>14, <3>3
    <3> HIDE DEF rec
    <3>5. \A i \in DOMAIN s.sent : s.sent[i].test = rec.test => s.sent[i].sub
      BY <1>5, <2>6, <2>7, <2>8, <3>1, <3>2
    <3>6. /\ e \in Reader(Row) /\ Kept(e)
          /\ e.counts = Plus(s.counts, rec.status)
          /\ e.reported = s.reported \cup Matched(rec.test)
          /\ \A i \in DOMAIN e.sent :
               \/ i \in DOMAIN s.sent /\ e.sent[i] = s.sent[i]
               \/ e.sent[i].test = rec.test /\ e.sent[i].sub = (rec.kind = "sub")
      BY <2>1, <2>7, <2>14, <3>5, LinedKept
    <3>7. f[m] = e
      BY <2>4, <3>1
    <3> HIDE DEF e
    <3>8. \A t \in Test : 2 * t + 1 <= z[1] => t = rec.test \/ 2 * t + 1 <= y[1]
      BY <1>5, <2>6, <3>1, <3>2
    <3>9. ASSUME NEW i \in DOMAIN e.sent, ~e.sent[i].sub
          PROVE  2 * e.sent[i].test + 1 <= z[1]
      <4>1. CASE i \in DOMAIN s.sent /\ e.sent[i] = s.sent[i]
        <5>1. s.sent[i].test \in Nat /\ 2 * s.sent[i].test + 1 <= y[1]
          BY <1>5, <2>7, <2>8, <3>9, <4>1
        <5> QED BY <2>6, <3>2, <4>1, <5>1
      <4>2. CASE e.sent[i].test = rec.test
        BY <1>5, <3>1, <3>2, <4>2
      <4> QED BY <3>6, <4>1, <4>2
    <3>10. kinds = {"result"} => e.counts[1] <= z[2][1]
      BY <2>6, <2>7, <2>9, <3>2, <3>6 DEF Plus, Pair
    <3>11. ASSUME \A i \in 1..m : q[i].kind # "unread"
           PROVE  /\ \A t \in Test : 2 * t + 1 <= z[1] => Matched(t) \subseteq e.reported
                  /\ kinds = {"result"} => e.counts = z[2]
      BY <2>7, <2>10, <3>2, <3>6, <3>8, <3>11
    <3> QED BY <3>4, <3>6, <3>7, <3>9, <3>10, <3>11
  <2>15. ASSUME rec.kind = "unread" PROVE Good(f[m], z, m)
    <3>1. rec.kind \notin kinds /\ rec.test \in Test
      BY <2>1, <2>15 DEF Record
    <3>2. y[1] = 2 * rec.test /\ z[1] = y[1] + 1 /\ z[2] = Plus(y[2], rec.status)
      BY <2>5, <2>15 DEF Fits, After
    <3>3. y[1] # 2 * N + 2
      BY <1>5, <2>6, <3>1, <3>2
    <3>4. \A i \in 1..m : q[i].kind # "summary"
      BY <2>1, <2>7, <2>15, <3>3
    <3>5. \A i \in DOMAIN s.sent : 2 * s.sent[i].test + 1 <= y[1] => 2 * s.sent[i].test + 1 <= z[1]
      BY <1>5, <2>6, <2>8, <3>2
    <3>6. m \in 1..m /\ q[m].kind = "unread"
      BY <2>1, <2>15
    <3>7. kinds = {"result"} => s.counts[1] <= z[2][1]
      BY <2>6, <2>7, <2>9, <3>2 DEF Plus, Pair
    <3> HIDE DEF rec
    <3> QED BY <2>4, <2>7, <3>1, <3>4, <3>5, <3>6, <3>7
  <2>16. ASSUME rec.kind = "summary" PROVE Good(f[m], z, m)
    <3>1. rec.kind \notin kinds
      BY <2>16
    <3>2. z[1] = y[1] + 1 /\ z[2] = y[2] /\ y[1] = 2 * N + 1 /\ rec.status = y[2]
      BY <2>5, <2>16 DEF Fits, After
    <3>3. \A t \in Test : 2 * t + 1 <= z[1] => 2 * t + 1 <= y[1]
      BY <1>5, <2>6, <3>2
    <3>4. y[1] # 2 * N + 2
      BY <1>5, <2>6, <3>2
    <3>5. \A i \in DOMAIN s.sent : 2 * s.sent[i].test + 1 <= y[1] => 2 * s.sent[i].test + 1 <= z[1]
      BY <1>5, <2>6, <2>8, <3>2
    <3>6. z = <<2 * N + 2, rec.status>>
      BY <1>5, <2>6, <3>2
    <3>7. \A i \in 1..m : q[i].kind = "summary" => z = <<2 * N + 2, q[i].status>>
      BY <2>1, <2>7, <3>4, <3>6
    <3> HIDE DEF rec
    <3> QED BY <2>4, <2>7, <2>10, <3>1, <3>2, <3>3, <3>5, <3>7
  <2>17. rec.kind \in {"start", "garbage", "sub", "result", "unread", "summary"}
    BY <2>1 DEF Record
  <2>18. Good(f[m], z, m)
    BY <2>11, <2>12, <2>13, <2>14, <2>16, <2>17, <2>15
  <2> QED BY <2>18 DEF m, z
<1> HIDE DEF Good
<1>8. \A k \in B : k < n => k + 1 \in B
  BY <1>1, <1>7
<1>9. B \in SUBSET Nat
  BY <1>1
<1> HIDE DEF B
<1>10. n \in B
  BY <1>1, <1>6, <1>8, <1>9, FromZero
<1>11. Good(f[n], v[n], n)
  BY <1>10 DEF B
<1> QED BY <1>1, <1>3, <1>4, <1>11 DEF Good, Before

-----------------------------------------------------------------------------
(* The invariant.                                                          *)

\* A record on its way: only Go has subtests, only libtest's lines may go unread,
\* and a summary was written.
Said(rec) ==
  /\ rec.kind = "sub" => lang \notin Records
  /\ rec.kind = "unread" => lang \notin Records /\ child.missed # {}
  /\ rec.kind = "summary" => child.summed

\* The process.
Child == [alive : BOOLEAN, at : 0..N, inside : BOOLEAN, wrote : Nat, sub : BOOLEAN,
          garbled : BOOLEAN, done : Pair, missed : SUBSET Test, summed : BOOLEAN]

\* The reader keeps results, or the lines it has not looked at.
SuiteTypeOK ==
  /\ lang \in Langs /\ Matching
  /\ child \in Child
  /\ fd3 \in Seq(Record)
  /\ \A i \in DOMAIN fd3 : Said(fd3[i])
  /\ err \in Text
  /\ ~reader.over => reader \in Reader(IF lang \in Records THEN Row ELSE Record)
  /\ ended \in [timedOut : BOOLEAN, signal : BOOLEAN, failed : BOOLEAN,
                capped : SUBSET {"fd3", "err"}, cancelled : BOOLEAN]

\* A test is entered before it ends and summed up after the last one; the
\* accounting comes when both pipes are empty.
Ordered ==
  /\ child.inside => child.at >= 1
  /\ child.summed => child.at = N /\ ~child.inside
  /\ child.alive => ended.capped = {} /\ ~reader.over
  /\ reader.over => fd3 = <<>> /\ err = <<>>

\* Where the process is.
Here ==
  <<IF child.summed THEN 2 * N + 2
    ELSE IF child.inside THEN 2 * child.at ELSE 2 * child.at + 1, child.done>>

\* What is on its way will be read as records.
Flows == "fd3" \notin ended.capped /\ ~reader.error

\* Where the reading is: what the runner holds of the tests follows from it.
RecordsHeld(x) ==
  /\ Tests(reader.sent) = Before(x)
  /\ \A t \in Before(x) : Matched(t) \subseteq reader.reported
  /\ reader.started = {t \in Test : 2 * t = x[1]}
  /\ reader.counts = x[2] /\ Kept(reader)
  /\ reader.summary # None => x[1] = 2 * N + 2 /\ reader.summary = x[2] /\ child.summed

LinesHeld(x) ==
  /\ Chain(<<1, <<0, 0>>>>, reader.sent, x)
  /\ reader.reported = {} /\ reader.counts = <<0, 0>> /\ ~reader.error
  /\ \A i \in DOMAIN reader.sent : Said(reader.sent[i])

Held(x) == IF lang \in Records THEN RecordsHeld(x) ELSE LinesHeld(x)

\* What is on its way leads from the reader to the process.
Followed ==
  ~reader.over => \E x \in Place : Held(x) /\ (Flows => Chain(x, fd3, Here))

\* The last thing a test wrote is the last on its way, or the last that was read;
\* the start record may have cleared what was read of the test, but not what was
\* read of the run.
LastWritten == <<child.at, child.wrote>>

EndsWith(text) == text # <<>> /\ text[Len(text)] = LastWritten

Texts ==
  ~reader.over /\ "err" \notin ended.capped /\ child.wrote > 0 =>
    IF err # <<>> THEN EndsWith(err)
    ELSE EndsWith(reader.whole) /\ (reader.buffer = <<>> \/ EndsWith(reader.buffer))

\* What the runs check.
Sound == OneResultPerTest /\ TimedOutSuiteIsWhole /\ FailureIsExplained /\ SummaryAgrees

SuiteInv == SuiteTypeOK /\ Ordered /\ Followed /\ Texts /\ Sound

\* The catalog is not empty.
LEMMA NConstant == N \in Nat /\ N >= 1 /\ Test = 1..N /\ None \notin Test
BY SuiteAssumption DEF Test

\* Before the call has told its results there is nothing to show.
LEMMA Untold == ~Told => Sound
BY DEF Shown, Told, Sound, OneResultPerTest, TimedOutSuiteIsWhole, FailureIsExplained, SummaryAgrees

\* The same of the next state.
LEMMA UntoldNext == ~Told' => Sound'
BY DEF Shown, Told, Sound, OneResultPerTest, TimedOutSuiteIsWhole, FailureIsExplained, SummaryAgrees

\* Nothing is written, read or sent.
LEMMA InitHolds == SuiteInit => SuiteInv
<1> SUFFICES ASSUME SuiteInit PROVE SuiteInv
  OBVIOUS
<1>1. /\ fd3 = <<>> /\ err = <<>> /\ <<>> \in Seq(Row) /\ <<>> \in Seq(Record) /\ <<>> \in Text
      /\ DOMAIN <<>> = {}
  BY DEF SuiteInit, Text
<1>2. SuiteTypeOK
  <2>1. reader \in Reader(Row) /\ reader \in Reader(Record)
    BY <1>1 DEF SuiteInit, Reader, Pair
  <2>2. child \in Child
    BY NConstant DEF SuiteInit, Child, Pair
  <2>3. Matching
    BY SuiteAssumption DEF SuiteInit, Matching
  <2> QED BY <1>1, <2>1, <2>2, <2>3 DEF SuiteInit, SuiteTypeOK
<1>3. Ordered
  BY DEF SuiteInit, Ordered
<1>4. Followed
  <2> DEFINE x == <<1, <<0, 0>>>>
  <2>1. x \in Place /\ x = Here
    BY DEF SuiteInit, Place, Pair, Here
  <2>2. Chain(x, <<>>, x)
    BY <2>1, ChainEmpty
  <2>3. RecordsHeld(x)
    <3>1. \A t \in Test : ~(2 * t + 1 <= 1) /\ 2 * t # 1
      BY NConstant
    <3>2. Kept(reader) /\ Tests(reader.sent) = {}
      BY <1>1, TallyEmpty DEF SuiteInit, Kept, Tests, Rows, Distinct
    <3> QED BY <3>1, <3>2 DEF SuiteInit, RecordsHeld, Before
  <2>4. LinesHeld(x)
    BY <1>1, <2>2 DEF SuiteInit, LinesHeld
  <2>5. Held(x) /\ Chain(x, fd3, Here)
    BY <1>1, <2>1, <2>2, <2>3, <2>4 DEF Held
  <2> HIDE DEF x
  <2> QED BY <2>1, <2>5 DEF Followed
<1>5. Texts
  BY <1>1 DEF SuiteInit, Texts
<1>6. Sound
  BY Untold DEF SuiteInit, Told
<1> QED BY <1>2, <1>3, <1>4, <1>5, <1>6 DEF SuiteInv

\* The process says no less than before.
SaysMore ==
  /\ child.summed => child'.summed
  /\ child.missed # {} => child'.missed # {}

\* What the reader holds of the tests does not change with the process, or with what
\* it holds of stderr.
LEMMA HeldKeeps ==
  ASSUME NEW x, Held(x), UNCHANGED <<lang, row>>, SaysMore,
         reader'.sent = reader.sent, reader'.reported = reader.reported,
         reader'.started = reader.started, reader'.counts = reader.counts,
         reader'.summary = reader.summary, lang \notin Records => reader'.error = reader.error
  PROVE  Held(x)'
<1>1. CASE lang \in Records
  <2>1. RecordsHeld(x)
    BY <1>1 DEF Held
  <2>2. Kept(reader)' /\ Tests(reader.sent)' = Tests(reader.sent) /\ Before(x)' = Before(x)
    BY <2>1 DEF RecordsHeld, Kept, Before
  <2>3. RecordsHeld(x)'
    BY <2>1, <2>2 DEF RecordsHeld, SaysMore, Before, Matched
  <2> QED BY <1>1, <2>3 DEF Held
<1>2. CASE lang \notin Records
  <2>1. LinesHeld(x)
    BY <1>2 DEF Held
  <2>2. (\A i \in DOMAIN reader.sent : Said(reader.sent[i]))'
    BY <2>1 DEF LinesHeld, Said, SaysMore
  <2>3. LinesHeld(x)'
    BY <1>2, <2>1, <2>2 DEF LinesHeld, Chain
  <2> QED BY <1>2, <2>3 DEF Held
<1> QED BY <1>1, <1>2

\* A step of the process that writes a record, and one that writes none.
LEMMA WritesRecord ==
  ASSUME SuiteInv, ~reader.over, UNCHANGED <<lang, row, reader, ended>>, SaysMore,
         child'.done \in Pair,
         NEW rec \in Record, fd3' = Append(fd3, rec),
         Fits(Here, rec), Here' = After(Here, rec)
  PROVE  Followed'
<1>1. PICK x \in Place : Held(x) /\ (Flows => Chain(x, fd3, Here))
  BY DEF SuiteInv, Followed
<1>2. Held(x)' /\ Flows' = Flows
  BY <1>1, HeldKeeps DEF Flows
<1>3. Here \in Place
  <2>1. child.done \in Pair /\ child.at \in Nat
    BY NConstant DEF SuiteInv, SuiteTypeOK, Child
  <2> QED BY <2>1, NConstant DEF Here, Place
<1>4. fd3 \in Seq(Record)
  BY DEF SuiteInv, SuiteTypeOK, Child
<1>5. Flows' => Chain(x, fd3', Here')
  <2>1. Chain(x, fd3, Here) => Chain(x, Append(fd3, rec), After(Here, rec))
    BY <1>3, <1>4, ChainAppend
  <2> QED BY <1>1, <1>2, <2>1
<1> QED BY <1>2, <1>5 DEF Followed, Chain

\* What is on its way stays, wherever the process ends up.
LEMMA WritesNothing ==
  ASSUME SuiteInv, ~reader.over, UNCHANGED <<lang, row, fd3, reader>>, SaysMore,
         Here' = Here, ended.capped \subseteq ended'.capped
  PROVE  Followed'
<1>1. PICK x \in Place : Held(x) /\ (Flows => Chain(x, fd3, Here))
  BY DEF SuiteInv, Followed
<1>2. Held(x)' /\ (Flows' => Flows)
  BY <1>1, HeldKeeps DEF Flows
<1>3. Chain(x, fd3, Here)' = Chain(x, fd3, Here)
  BY DEF Chain, Fits
<1> QED BY <1>1, <1>2, <1>3 DEF Followed

\* A living process has not been cut off or accounted for.
LEMMA Alive ==
  ASSUME SuiteInv, child.alive
  PROVE  ~reader.over /\ ended.capped = {}
BY DEF SuiteInv, Ordered

\* The record that the process appends is one of the channel.
LEMMA Appends ==
  ASSUME SuiteInv, NEW rec \in Record, fd3' = Append(fd3, rec),
         lang' = lang, SaysMore, Said(rec)'
  PROVE  fd3' \in Seq(Record) /\ (\A i \in DOMAIN fd3 : Said(fd3[i]))'
<1>1. fd3 \in Seq(Record) /\ \A i \in DOMAIN fd3 : Said(fd3[i])
  BY DEF SuiteInv, SuiteTypeOK, Child
<1>2. /\ fd3' \in Seq(Record) /\ DOMAIN fd3' = DOMAIN fd3 \cup {Len(fd3) + 1}
      /\ \A i \in DOMAIN fd3 : fd3'[i] = fd3[i]
      /\ fd3'[Len(fd3) + 1] = rec
  BY <1>1, Appended
<1>3. \A e \in Record : Said(e) => Said(e)'
  BY DEF Said, SaysMore
<1>4. ASSUME NEW i \in DOMAIN fd3' PROVE Said(fd3[i])'
  <2>1. PICK e \in Record : e = fd3'[i] /\ Said(e)'
    BY <1>1, <1>2, <1>3
  <2> QED BY <2>1 DEF Said
<1> QED BY <1>2, <1>4

\* The start of a test is the record after the place 2t - 1.
LEMMA BeginsHolds == SuiteInv /\ BeginsTest => SuiteInv'
<1> SUFFICES ASSUME SuiteInv, BeginsTest PROVE SuiteInv'
  OBVIOUS
<1> USE NConstant
<1> DEFINE rec == Rec("start", child.at + 1, None)
<1>1. ~reader.over /\ ended.capped = {} /\ UNCHANGED <<lang, row, reader, ended, err>>
  BY Alive DEF BeginsTest, Alone
<1>2. /\ child.at \in 0..N /\ child.at < N /\ ~child.inside /\ ~child.summed
      /\ child.done \in Pair
  BY DEF SuiteInv, SuiteTypeOK, Child, Ordered, BeginsTest
<1>3. /\ child' = [child EXCEPT !.at = child.at + 1, !.inside = TRUE, !.wrote = 0,
                               !.sub = FALSE]
      /\ fd3' = Append(fd3, rec)
  BY DEF BeginsTest, SuiteInv, SuiteTypeOK, Child
<1>4. rec \in Record /\ rec.kind = "start" /\ rec.test = child.at + 1
  BY <1>2 DEF Rec, Record
<1> HIDE DEF rec
<1>5. /\ child'.at = child.at + 1 /\ child'.inside = TRUE /\ child'.summed = child.summed
      /\ child'.done = child.done /\ child'.wrote = 0 /\ child'.alive = child.alive
      /\ child'.missed = child.missed
  BY <1>3 DEF SuiteInv, SuiteTypeOK, Child
<1>6. SuiteTypeOK'
  <2>1. fd3' \in Seq(Record) /\ (\A i \in DOMAIN fd3 : Said(fd3[i]))'
    BY <1>1, <1>3, <1>4, <1>5, Appends DEF Said, SaysMore
  <2>2. child.at + 1 \in 0..N
    BY <1>2
  <2> QED BY <1>1, <1>3, <2>1, <2>2 DEF SuiteInv, SuiteTypeOK, Child, Matching
<1>7. Ordered'
  BY <1>1, <1>2, <1>5 DEF SuiteInv, Ordered
<1>8. Followed'
  <2>1. Fits(Here, rec)
    BY <1>2, <1>4 DEF Here, Fits
  <2>2. Here' = After(Here, rec)
    BY <1>2, <1>4, <1>5 DEF Here, After
  <2> QED BY <1>1, <1>2, <1>3, <1>4, <1>5, <2>1, <2>2, WritesRecord DEF SaysMore
<1>9. Texts'
  BY <1>5 DEF Texts
<1>10. Sound'
  BY <1>1, UntoldNext DEF Told
<1> QED BY <1>6, <1>7, <1>8, <1>9, <1>10 DEF SuiteInv

\* What a test writes is the last on its way.
LEMMA PrintsHolds == SuiteInv /\ PrintsText => SuiteInv'
<1> SUFFICES ASSUME SuiteInv, PrintsText PROVE SuiteInv'
  OBVIOUS
<1> USE NConstant
<1>1. ~reader.over /\ ended.capped = {} /\ UNCHANGED <<lang, row, reader, ended, fd3>>
  BY Alive DEF PrintsText, Alone
<1>2. child.at \in 1..N /\ child.inside /\ child.wrote + 1 \in Nat
  BY DEF SuiteInv, SuiteTypeOK, Child, Ordered, PrintsText
<1> DEFINE w == <<child.at, child.wrote + 1>>
<1>3. child' = [child EXCEPT !.wrote = child.wrote + 1] /\ err' = Append(err, w)
  BY DEF PrintsText, SuiteInv, SuiteTypeOK, Child
<1>4. /\ child'.at = child.at /\ child'.inside = child.inside /\ child'.summed = child.summed
      /\ child'.done = child.done /\ child'.alive = child.alive /\ child'.missed = child.missed
      /\ child'.wrote = child.wrote + 1
  BY <1>3 DEF SuiteInv, SuiteTypeOK, Child
<1>5. err \in Seq(Test \X Nat) /\ w \in Test \X Nat
  BY <1>2 DEF SuiteInv, SuiteTypeOK, Text
<1>6. w = LastWritten'
  BY <1>4 DEF LastWritten
<1> HIDE DEF w
<1>7. /\ err' \in Seq(Test \X Nat) /\ err' # <<>> /\ err'[Len(err')] = w
  <2>1. /\ err' \in Seq(Test \X Nat) /\ Len(err) \in Nat /\ Len(err') = Len(err) + 1
        /\ err'[Len(err) + 1] = w
    BY <1>3, <1>5, Appended
  <2> QED BY <2>1
<1>8. SuiteTypeOK'
  <2>1. child' \in Child
    BY <1>2, <1>3 DEF SuiteInv, SuiteTypeOK, Child
  <2>2. (\A i \in DOMAIN fd3 : Said(fd3[i]))'
    BY <1>1, <1>4 DEF SuiteInv, SuiteTypeOK, Said
  <2> QED BY <1>1, <1>7, <2>1, <2>2 DEF SuiteInv, SuiteTypeOK, Matching, Text
<1>9. Ordered'
  BY <1>1, <1>4 DEF SuiteInv, Ordered
<1>10. Followed'
  <2>1. Here' = Here /\ SaysMore
    BY <1>4 DEF Here, SaysMore
  <2> QED BY <1>1, <2>1, WritesNothing
<1>11. Texts'
  BY <1>6, <1>7 DEF Texts, EndsWith
<1>12. Sound'
  BY <1>1, UntoldNext DEF Told
<1> QED BY <1>8, <1>9, <1>10, <1>11, <1>12 DEF SuiteInv

\* A subtest's line leaves the place where it is.
LEMMA SubtestHolds == SuiteInv /\ EndsSubtest => SuiteInv'
<1> SUFFICES ASSUME SuiteInv, EndsSubtest PROVE SuiteInv'
  OBVIOUS
<1> USE NConstant
<1> DEFINE rec == Rec("sub", child.at, "passed")
<1>1. ~reader.over /\ ended.capped = {} /\ UNCHANGED <<lang, row, reader, ended, err>>
  BY Alive DEF EndsSubtest, Alone
<1>2. child.at \in 1..N /\ child.inside /\ ~child.summed /\ child.done \in Pair
  BY DEF SuiteInv, SuiteTypeOK, Child, Ordered, EndsSubtest
<1>3. child' = [child EXCEPT !.sub = TRUE] /\ fd3' = Append(fd3, rec)
  BY DEF EndsSubtest, SuiteInv, SuiteTypeOK, Child
<1>4. rec \in Record /\ rec.kind = "sub" /\ rec.test = child.at /\ lang \notin Records
  BY <1>2 DEF Rec, Record, EndsSubtest, Records
<1> HIDE DEF rec
<1>5. /\ child'.at = child.at /\ child'.inside = child.inside /\ child'.summed = child.summed
      /\ child'.done = child.done /\ child'.wrote = child.wrote /\ child'.alive = child.alive
      /\ child'.missed = child.missed
  BY <1>3 DEF SuiteInv, SuiteTypeOK, Child
<1>6. SuiteTypeOK'
  <2>1. fd3' \in Seq(Record) /\ (\A i \in DOMAIN fd3 : Said(fd3[i]))'
    BY <1>1, <1>3, <1>4, <1>5, Appends DEF Said, SaysMore
  <2> QED BY <1>1, <1>3, <2>1 DEF SuiteInv, SuiteTypeOK, Child, Matching
<1>7. Ordered'
  BY <1>1, <1>5 DEF SuiteInv, Ordered
<1>8. Followed'
  <2>1. Fits(Here, rec)
    BY <1>2, <1>4 DEF Here, Fits
  <2>2. Here' = After(Here, rec)
    BY <1>2, <1>4, <1>5 DEF Here, After
  <2> QED BY <1>1, <1>2, <1>3, <1>4, <1>5, <2>1, <2>2, WritesRecord DEF SaysMore
<1>9. Texts'
  BY <1>1, <1>5 DEF SuiteInv, Texts, EndsWith, LastWritten
<1>10. Sound'
  BY <1>1, UntoldNext DEF Told
<1> QED BY <1>6, <1>7, <1>8, <1>9, <1>10 DEF SuiteInv

\* So does what is no record.
LEMMA GarblesHolds == SuiteInv /\ Garbles => SuiteInv'
<1> SUFFICES ASSUME SuiteInv, Garbles PROVE SuiteInv'
  OBVIOUS
<1> USE NConstant
<1> DEFINE rec == Rec("garbage", child.at, None)
<1>1. ~reader.over /\ ended.capped = {} /\ UNCHANGED <<lang, row, reader, ended, err>>
  BY Alive DEF Garbles, Alone
<1>2. child.at \in 1..N /\ child.inside /\ ~child.summed /\ child.done \in Pair
  BY DEF SuiteInv, SuiteTypeOK, Child, Ordered, Garbles
<1>3. child' = [child EXCEPT !.garbled = TRUE] /\ fd3' = Append(fd3, rec)
  BY DEF Garbles, SuiteInv, SuiteTypeOK, Child
<1>4. rec \in Record /\ rec.kind = "garbage" /\ rec.test = child.at
  BY <1>2 DEF Rec, Record
<1> HIDE DEF rec
<1>5. /\ child'.at = child.at /\ child'.inside = child.inside /\ child'.summed = child.summed
      /\ child'.done = child.done /\ child'.wrote = child.wrote /\ child'.alive = child.alive
      /\ child'.missed = child.missed
  BY <1>3 DEF SuiteInv, SuiteTypeOK, Child
<1>6. SuiteTypeOK'
  <2>1. fd3' \in Seq(Record) /\ (\A i \in DOMAIN fd3 : Said(fd3[i]))'
    BY <1>1, <1>3, <1>4, <1>5, Appends DEF Said, SaysMore
  <2> QED BY <1>1, <1>3, <2>1 DEF SuiteInv, SuiteTypeOK, Child, Matching
<1>7. Ordered'
  BY <1>1, <1>5 DEF SuiteInv, Ordered
<1>8. Followed'
  <2>1. Fits(Here, rec)
    BY <1>2, <1>4 DEF Here, Fits
  <2>2. Here' = After(Here, rec)
    BY <1>2, <1>4, <1>5 DEF Here, After
  <2> QED BY <1>1, <1>2, <1>3, <1>4, <1>5, <2>1, <2>2, WritesRecord DEF SaysMore
<1>9. Texts'
  BY <1>1, <1>5 DEF SuiteInv, Texts, EndsWith, LastWritten
<1>10. Sound'
  BY <1>1, UntoldNext DEF Told
<1> QED BY <1>6, <1>7, <1>8, <1>9, <1>10 DEF SuiteInv

\* The result of a test is the record after its start.
LEMMA EndsHolds == SuiteInv /\ EndsTest => SuiteInv'
<1> SUFFICES ASSUME SuiteInv, EndsTest PROVE SuiteInv'
  OBVIOUS
<1> USE NConstant
<1>1. ~reader.over /\ ended.capped = {} /\ UNCHANGED <<lang, row, reader, ended, err>>
  BY Alive DEF EndsTest, Alone
<1>2. child.at \in 1..N /\ child.inside /\ ~child.summed /\ child.done \in Pair
  BY DEF SuiteInv, SuiteTypeOK, Child, Ordered, EndsTest
<1>3. PICK status \in {"passed", "failed"} :
        /\ child' = [child EXCEPT !.inside = FALSE, !.done = Plus(@, status)]
        /\ fd3' = Append(fd3, Rec("result", child.at, status))
  BY DEF EndsTest
<1> DEFINE rec == Rec("result", child.at, status)
<1>4. /\ child' = [child EXCEPT !.inside = FALSE, !.done = Plus(child.done, status)]
      /\ fd3' = Append(fd3, rec)
  BY <1>3 DEF SuiteInv, SuiteTypeOK, Child
<1>5. rec \in Record /\ rec.kind = "result" /\ rec.test = child.at /\ rec.status = status
  BY <1>2 DEF Rec, Record
<1> HIDE DEF rec
<1>6. /\ child'.at = child.at /\ child'.inside = FALSE /\ child'.summed = child.summed
      /\ child'.done = Plus(child.done, status) /\ child'.wrote = child.wrote
      /\ child'.missed = child.missed
      /\ child'.alive = child.alive
  BY <1>4 DEF SuiteInv, SuiteTypeOK, Child
<1>7. SuiteTypeOK'
  <2>1. fd3' \in Seq(Record) /\ (\A i \in DOMAIN fd3 : Said(fd3[i]))'
    BY <1>1, <1>4, <1>5, <1>6, Appends DEF Said, SaysMore
  <2>2. Plus(child.done, status) \in Pair
    BY <1>2, PlusType
  <2> QED BY <1>1, <1>4, <2>1, <2>2 DEF SuiteInv, SuiteTypeOK, Child, Matching
<1>8. Ordered'
  BY <1>1, <1>2, <1>6 DEF SuiteInv, Ordered
<1>9. Followed'
  <2>1. Fits(Here, rec)
    BY <1>2, <1>5 DEF Here, Fits
  <2>2. Here' = After(Here, rec)
    BY <1>2, <1>5, <1>6 DEF Here, After
  <2>3. child'.done \in Pair
    BY <1>2, <1>6, PlusType
  <2> QED BY <1>1, <1>4, <1>5, <2>1, <2>2, <2>3, WritesRecord DEF SaysMore
<1>10. Texts'
  BY <1>1, <1>6 DEF SuiteInv, Texts, EndsWith, LastWritten
<1>11. Sound'
  BY <1>1, UntoldNext DEF Told
<1> QED BY <1>7, <1>8, <1>9, <1>10, <1>11 DEF SuiteInv

\* So is a result that is not read as one; the process counts it.
LEMMA UnreadHolds == SuiteInv /\ EndsUnread => SuiteInv'
<1> SUFFICES ASSUME SuiteInv, EndsUnread PROVE SuiteInv'
  OBVIOUS
<1> USE NConstant
<1>1. ~reader.over /\ ended.capped = {} /\ UNCHANGED <<lang, row, reader, ended, err>>
  BY Alive DEF EndsUnread, Alone
<1>2. lang \notin Records /\ child.at \in 1..N /\ child.inside /\ ~child.summed /\ child.done \in Pair
  BY DEF SuiteInv, SuiteTypeOK, Child, Ordered, EndsUnread, Records
<1>3. PICK status \in {"passed", "failed"} :
        /\ child' = [child EXCEPT !.inside = FALSE, !.done = Plus(@, status),
                                  !.missed = @ \cup {child.at}]
        /\ fd3' = Append(fd3, Rec("unread", child.at, status))
  BY DEF EndsUnread
<1> DEFINE rec == Rec("unread", child.at, status)
<1>4. /\ child' = [child EXCEPT !.inside = FALSE, !.done = Plus(child.done, status),
                                  !.missed = child.missed \cup {child.at}]
      /\ fd3' = Append(fd3, rec)
  BY <1>3 DEF SuiteInv, SuiteTypeOK, Child
<1>5. rec \in Record /\ rec.kind = "unread" /\ rec.test = child.at /\ rec.status = status
  BY <1>2 DEF Rec, Record
<1> HIDE DEF rec
<1>6. /\ child'.at = child.at /\ child'.inside = FALSE /\ child'.summed = child.summed
      /\ child'.done = Plus(child.done, status) /\ child'.wrote = child.wrote
      /\ child'.missed = child.missed \cup {child.at}
      /\ child'.alive = child.alive
  BY <1>4 DEF SuiteInv, SuiteTypeOK, Child
<1>7. SuiteTypeOK'
  <2>1. fd3' \in Seq(Record) /\ (\A i \in DOMAIN fd3 : Said(fd3[i]))'
    BY <1>1, <1>2, <1>4, <1>5, <1>6, Appends DEF Said, SaysMore
  <2>2. PICK done \in Pair : done = Plus(child.done, status)
    BY <1>2, PlusType
  <2>3. PICK missed \in SUBSET Test : missed = child.missed \cup {child.at}
    BY <1>2 DEF SuiteInv, SuiteTypeOK, Child
  <2>4. child' = [child EXCEPT !.inside = FALSE, !.done = done, !.missed = missed]
    BY <1>4, <2>2, <2>3
  <2>5. child' \in Child
    BY <2>4 DEF SuiteInv, SuiteTypeOK, Child
  <2> QED BY <1>1, <2>1, <2>5 DEF SuiteInv, SuiteTypeOK, Matching
<1>8. Ordered'
  BY <1>1, <1>2, <1>6 DEF SuiteInv, Ordered
<1>9. Followed'
  <2>1. Fits(Here, rec)
    BY <1>2, <1>5 DEF Here, Fits
  <2>2. Here' = After(Here, rec)
    BY <1>2, <1>5, <1>6 DEF Here, After
  <2>3. child'.done \in Pair
    BY <1>2, <1>6, PlusType
  <2> QED BY <1>1, <1>4, <1>5, <2>1, <2>2, <2>3, WritesRecord DEF SaysMore
<1>10. Texts'
  BY <1>1, <1>6 DEF SuiteInv, Texts, EndsWith, LastWritten
<1>11. Sound'
  BY <1>1, UntoldNext DEF Told
<1> QED BY <1>7, <1>8, <1>9, <1>10, <1>11 DEF SuiteInv

\* The summary is the record after the last result, with what was counted.
LEMMA SumsHolds == SuiteInv /\ SumsUp => SuiteInv'
<1> SUFFICES ASSUME SuiteInv, SumsUp PROVE SuiteInv'
  OBVIOUS
<1> USE NConstant
<1> DEFINE rec == Rec("summary", None, child.done)
<1>1. ~reader.over /\ ended.capped = {} /\ UNCHANGED <<lang, row, reader, ended, err>>
  BY Alive DEF SumsUp, Alone
<1>2. child.at = N /\ ~child.inside /\ ~child.summed /\ child.done \in Pair
  BY DEF SuiteInv, SuiteTypeOK, Child, SumsUp
<1>3. child' = [child EXCEPT !.summed = TRUE] /\ fd3' = Append(fd3, rec)
  BY DEF SumsUp, SuiteInv, SuiteTypeOK, Child
<1>4. rec \in Record /\ rec.kind = "summary" /\ rec.status = child.done
  BY <1>2 DEF Rec, Record
<1> HIDE DEF rec
<1>5. /\ child'.at = child.at /\ child'.inside = child.inside /\ child'.summed = TRUE
      /\ child'.done = child.done /\ child'.wrote = child.wrote /\ child'.alive = child.alive
      /\ child'.missed = child.missed
  BY <1>3 DEF SuiteInv, SuiteTypeOK, Child
<1>6. SuiteTypeOK'
  <2>1. fd3' \in Seq(Record) /\ (\A i \in DOMAIN fd3 : Said(fd3[i]))'
    BY <1>1, <1>3, <1>4, <1>5, Appends DEF Said, SaysMore
  <2> QED BY <1>1, <1>3, <2>1 DEF SuiteInv, SuiteTypeOK, Child, Matching
<1>7. Ordered'
  BY <1>1, <1>2, <1>5 DEF SuiteInv, Ordered
<1>8. Followed'
  <2>1. Fits(Here, rec)
    BY <1>2, <1>4 DEF Here, Fits
  <2>2. Here' = After(Here, rec)
    BY <1>2, <1>4, <1>5 DEF Here, After
  <2> QED BY <1>1, <1>2, <1>3, <1>4, <1>5, <2>1, <2>2, WritesRecord DEF SaysMore
<1>9. Texts'
  BY <1>1, <1>5 DEF SuiteInv, Texts, EndsWith, LastWritten
<1>10. Sound'
  BY <1>1, UntoldNext DEF Told
<1> QED BY <1>6, <1>7, <1>8, <1>9, <1>10 DEF SuiteInv

\* The end of the process leaves what it wrote on its way, or cuts it off.
LEMMA StopsHolds == SuiteInv /\ Stops => SuiteInv'
<1> SUFFICES ASSUME SuiteInv, Stops PROVE SuiteInv'
  OBVIOUS
<1>1. ~reader.over /\ ended.capped = {} /\ UNCHANGED <<lang, row, reader, fd3, err>>
  BY Alive DEF Stops
<1>2. child' = [child EXCEPT !.alive = FALSE]
  BY DEF Stops
<1>3. /\ child'.at = child.at /\ child'.inside = child.inside /\ child'.summed = child.summed
      /\ child'.done = child.done /\ child'.wrote = child.wrote /\ ~child'.alive
      /\ child'.missed = child.missed
  BY <1>2 DEF SuiteInv, SuiteTypeOK, Child
<1>4. ended' \in [timedOut : BOOLEAN, signal : BOOLEAN, failed : BOOLEAN,
                  capped : SUBSET {"fd3", "err"}, cancelled : BOOLEAN]
  <2> DEFINE E == [timedOut : BOOLEAN, signal : BOOLEAN, failed : BOOLEAN,
                   capped : SUBSET {"fd3", "err"}, cancelled : BOOLEAN]
  <2>1. ended \in E
    BY DEF SuiteInv, SuiteTypeOK, Child
  <2>2. \/ ended' = ended
        \/ ended' = [ended EXCEPT !.signal = TRUE, !.failed = TRUE]
        \/ ended' = [ended EXCEPT !.failed = TRUE]
        \/ \E s \in BOOLEAN : ended' = [ended EXCEPT !.timedOut = TRUE, !.signal = s, !.failed = TRUE]
        \/ \E pipe \in {"fd3", "err"} :
             ended' = [ended EXCEPT !.capped = {pipe}, !.signal = TRUE, !.failed = TRUE]
    BY DEF Stops
  <2>3. ASSUME NEW s \in BOOLEAN,
               ended' = [ended EXCEPT !.timedOut = TRUE, !.signal = s, !.failed = TRUE]
        PROVE  ended' \in E
    BY <2>1, <2>3
  <2>4. ASSUME NEW pipe \in {"fd3", "err"},
               ended' = [ended EXCEPT !.capped = {pipe}, !.signal = TRUE, !.failed = TRUE]
        PROVE  ended' \in E
    <3>1. {pipe} \in SUBSET {"fd3", "err"}
      OBVIOUS
    <3> QED BY <2>1, <2>4, <3>1
  <2> QED BY <2>1, <2>2, <2>3, <2>4
<1>5. SuiteTypeOK'
  BY <1>1, <1>2, <1>3, <1>4 DEF SuiteInv, SuiteTypeOK, Child, Matching, Said
<1>6. Ordered'
  BY <1>1, <1>3 DEF SuiteInv, Ordered
<1>7. Followed'
  <2>1. Here' = Here /\ SaysMore
    BY <1>3 DEF Here, SaysMore
  <2> QED BY <1>1, <2>1, WritesNothing
<1>8. Texts'
  BY <1>1, <1>3 DEF SuiteInv, Texts, EndsWith, LastWritten
<1>9. Sound'
  BY <1>1, UntoldNext DEF Told
<1> QED BY <1>5, <1>6, <1>7, <1>8, <1>9 DEF SuiteInv

\* A cancelled run keeps what was read.
LEMMA CancelledHolds == SuiteInv /\ Cancelled => SuiteInv'
<1> SUFFICES ASSUME SuiteInv, Cancelled PROVE SuiteInv'
  OBVIOUS
<1>1. ~reader.over /\ UNCHANGED <<lang, row, reader, fd3, err>>
  BY DEF Cancelled
<1>2. child' = [child EXCEPT !.alive = FALSE]
  BY DEF Cancelled
<1>3. /\ child'.at = child.at /\ child'.inside = child.inside /\ child'.summed = child.summed
      /\ child'.done = child.done /\ child'.wrote = child.wrote /\ ~child'.alive
      /\ child'.missed = child.missed
  BY <1>2 DEF SuiteInv, SuiteTypeOK, Child
<1>4. /\ ended' \in [timedOut : BOOLEAN, signal : BOOLEAN, failed : BOOLEAN,
                     capped : SUBSET {"fd3", "err"}, cancelled : BOOLEAN]
      /\ ended'.capped = ended.capped
  <2>1. ended' = [ended EXCEPT !.cancelled = TRUE, !.signal = ended.signal \/ child.alive]
    BY DEF Cancelled, SuiteInv, SuiteTypeOK
  <2>2. (ended.signal \/ child.alive) \in BOOLEAN
    OBVIOUS
  <2> QED BY <2>1, <2>2 DEF SuiteInv, SuiteTypeOK, Child
<1>5. SuiteTypeOK'
  BY <1>1, <1>2, <1>3, <1>4 DEF SuiteInv, SuiteTypeOK, Child, Matching, Said
<1>6. Ordered'
  BY <1>1, <1>3 DEF SuiteInv, Ordered
<1>7. Followed'
  <2>1. Here' = Here /\ SaysMore
    BY <1>3 DEF Here, SaysMore
  <2> QED BY <1>1, <1>4, <2>1, WritesNothing
<1>8. Texts'
  BY <1>1, <1>3, <1>4 DEF SuiteInv, Texts, EndsWith, LastWritten
<1>9. Sound'
  BY <1>1, UntoldNext DEF Told
<1> QED BY <1>5, <1>6, <1>7, <1>8, <1>9 DEF SuiteInv

\* What is read last of stderr is what was written last.
LEMMA TextHolds == SuiteInv /\ ReadsText => SuiteInv'
<1> SUFFICES ASSUME SuiteInv, ReadsText PROVE SuiteInv'
  OBVIOUS
<1>1. /\ ~reader.over /\ err # <<>> /\ err' = Tail(err)
      /\ UNCHANGED <<lang, row, child, fd3, ended>>
  BY DEF ReadsText, SuiteInv, Ordered
<1> DEFINE w == Head(err)
           X == IF lang \in Records THEN Row ELSE Record
<1>2. /\ err \in Seq(Test \X Nat) /\ w \in Test \X Nat /\ err' \in Seq(Test \X Nat)
      /\ err' = <<>> => w = err[Len(err)]
      /\ err' # <<>> => err'[Len(err')] = err[Len(err)]
  <2>1. err \in Seq(Test \X Nat)
    BY DEF SuiteInv, SuiteTypeOK, Text
  <2>2. /\ Head(err) \in Test \X Nat /\ Tail(err) \in Seq(Test \X Nat)
        /\ Len(err) \in Nat /\ Len(err) >= 1 /\ Len(Tail(err)) = Len(err) - 1
        /\ \A i \in 1..(Len(err) - 1) : Tail(err)[i] = err[i + 1]
        /\ Head(err) = err[1]
    BY <1>1, <2>1
  <2>3. CASE Len(err) = 1
    <3>1. err' = <<>>
      BY <1>1, <2>2, <2>3
    <3> QED BY <1>1, <2>1, <2>2, <2>3, <3>1
  <2>4. CASE Len(err) # 1
    <3>1. Len(err) - 1 \in 1..(Len(err) - 1) /\ (Len(err) - 1) + 1 = Len(err)
      BY <2>2, <2>4
    <3>2. err'[Len(err')] = err[Len(err)]
      BY <1>1, <2>2, <3>1
    <3>3. err' # <<>>
      <4>1. Len(err') # 0
        BY <1>1, <2>2, <3>1
      <4> QED BY <4>1
    <3> QED BY <1>1, <2>1, <2>2, <3>2, <3>3
  <2> QED BY <2>3, <2>4
<1>3. /\ reader \in Reader(X) /\ reader.buffer \in Seq(Test \X Nat)
      /\ reader.whole \in Seq(Test \X Nat)
  BY <1>1 DEF SuiteInv, SuiteTypeOK, Reader, Text
<1> HIDE DEF w, X
<1>4. PICK b \in Text, h \in Text :
        /\ b = Append(reader.buffer, w) /\ h = Append(reader.whole, w)
        /\ b # <<>> /\ b[Len(b)] = w /\ h # <<>> /\ h[Len(h)] = w
  <2>1. ASSUME NEW q \in Seq(Test \X Nat)
        PROVE  LET n == Append(q, w) IN n \in Text /\ n # <<>> /\ n[Len(n)] = w
    <3>1. /\ Append(q, w) \in Seq(Test \X Nat) /\ Len(q) \in Nat
          /\ Len(Append(q, w)) = Len(q) + 1 /\ Append(q, w)[Len(q) + 1] = w
      BY <1>2, Appended
    <3> QED BY <3>1 DEF Text
  <2> QED BY <1>3, <2>1
<1>5. IF "err" \in ended.capped THEN reader' = reader
      ELSE reader' = [reader EXCEPT !.buffer = b, !.whole = h]
  BY <1>3, <1>4 DEF ReadsText, Reader, w
<1>6. /\ reader' \in Reader(X)
      /\ reader'.over = reader.over /\ reader'.error = reader.error
      /\ reader'.sent = reader.sent /\ reader'.reported = reader.reported
      /\ reader'.started = reader.started /\ reader'.counts = reader.counts
      /\ reader'.summary = reader.summary
      /\ "err" \notin ended.capped => reader'.buffer = b /\ reader'.whole = h
  BY <1>3, <1>5 DEF Reader
<1>7. SuiteTypeOK'
  <2>1. (\A i \in DOMAIN fd3 : Said(fd3[i]))'
    BY <1>1 DEF SuiteInv, SuiteTypeOK, Said
  <2> QED BY <1>1, <1>2, <1>6, <2>1 DEF SuiteInv, SuiteTypeOK, Matching, Text, X
<1>8. Ordered'
  BY <1>1, <1>6 DEF SuiteInv, Ordered
<1>9. Followed'
  <2>1. PICK x \in Place : Held(x) /\ (Flows => Chain(x, fd3, Here))
    BY <1>1 DEF SuiteInv, Followed
  <2>2. Held(x)'
    BY <1>1, <1>6, <2>1, HeldKeeps DEF SaysMore
  <2>3. Flows' = Flows /\ Here' = Here
    BY <1>1, <1>6 DEF Flows, Here
  <2>4. Flows' => Chain(x, fd3', Here')
    BY <1>1, <2>1, <2>3
  <2> QED BY <2>2, <2>4 DEF Followed, Chain
<1>10. Texts'
  <2> SUFFICES ASSUME "err" \notin ended.capped, child.wrote > 0
               PROVE  IF err' # <<>> THEN EndsWith(err)'
                      ELSE EndsWith(reader.whole)' /\ EndsWith(reader.buffer)'
    BY <1>1 DEF Texts
  <2>1. LastWritten' = LastWritten /\ err[Len(err)] = LastWritten
    BY <1>1 DEF SuiteInv, Texts, EndsWith, LastWritten
  <2> QED BY <1>2, <1>4, <1>6, <2>1 DEF EndsWith
<1>11. Sound'
  BY <1>1, <1>6, UntoldNext DEF Told
<1> QED BY <1>7, <1>8, <1>9, <1>10, <1>11 DEF SuiteInv

\* A record that the reader takes moves it to the record's place.
LEMMA TakesRecord ==
  ASSUME Matching, reader \in Reader(Row), ~reader.error, NEW x \in Place, RecordsHeld(x),
         NEW rec \in Record, rec.kind \notin {"sub", "unread", "garbage"}, Fits(x, rec),
         rec.kind = "summary" => child.summed, reader' = OnRecord(rec),
         UNCHANGED <<row, child>>
  PROVE  /\ reader' \in Reader(Row) /\ RecordsHeld(After(x, rec))'
         /\ reader'.over = reader.over
<1> USE NConstant
<1> DEFINE t == rec.test
           y == After(x, rec)
<1>1. x[1] \in Nat /\ x[2] \in Pair
  BY DEF Place
<1>2. /\ Tests(reader.sent) = Before(x) /\ \A u \in Before(x) : Matched(u) \subseteq reader.reported
      /\ reader.started = {u \in Test : 2 * u = x[1]}
      /\ reader.counts = x[2] /\ Kept(reader)
      /\ reader.summary # None => x[1] = 2 * N + 2 /\ reader.summary = x[2] /\ child.summed
  BY DEF RecordsHeld
<1>3. /\ reader.counts \in Pair /\ reader.sent \in Seq(Row) /\ reader.buffer \in Text
      /\ reader.started \in SUBSET Test /\ reader.reported \in SUBSET Test
      /\ <<>> \in Text
  BY DEF Reader, Text
<1>4. CASE rec.kind = "start"
  <2>1. t \in Test /\ y[1] = x[1] + 1 /\ y[2] = x[2] /\ y[1] = 2 * t
    BY <1>4 DEF Record, After, Fits
  <2> HIDE DEF t, y
  <2>2. reader' = [reader EXCEPT !.started = reader.started \cup {t}, !.buffer = <<>>]
    BY <1>4 DEF OnRecord, Reader, t
  <2>3. reader.started \cup {t} \in SUBSET Test
    BY <1>3, <2>1
  <2>4. /\ reader'.started = reader.started \cup {t} /\ reader'.reported = reader.reported
        /\ reader'.counts = reader.counts /\ reader'.sent = reader.sent
        /\ reader'.summary = reader.summary /\ reader'.over = reader.over
    BY <2>2 DEF Reader
  <2>5. reader' \in Reader(Row)
    BY <1>3, <2>2, <2>3 DEF Reader
  <2>6. /\ reader.started \cup {t} = {u \in Test : 2 * u = y[1]}
        /\ Before(x) = Before(y)
        /\ x[1] # 2 * N + 2
    BY <1>1, <1>2, <2>1 DEF Before
  <2>7. RecordsHeld(y)'
    <3>1. Kept(reader') /\ reader'.counts = y[2]
      BY <1>2, <2>1, <2>4 DEF Kept
    <3>2. \A u \in Before(y) : {row'[u]} \ {None} \subseteq reader'.reported
      BY <1>2, <2>4, <2>6 DEF Matched
    <3>3. Before(y)' = Before(y)
      BY DEF Before, y, After
    <3> QED BY <1>2, <2>4, <2>6, <3>1, <3>2, <3>3 DEF RecordsHeld, Matched, Kept, y, After
  <2> QED BY <2>4, <2>5, <2>7 DEF y
<1>5. CASE rec.kind = "result"
  <2> DEFINE new == Result(t, rec.status, OwnMessage(rec.status))
  <2>1. /\ t \in Test /\ rec.status \in {"passed", "failed"}
        /\ y[1] = x[1] + 1 /\ y[2] = Plus(x[2], rec.status) /\ x[1] = 2 * t
    BY <1>5 DEF Record, After, Fits
  <2>2. OwnMessage(rec.status) \in Text \cup {None} /\ row[t] \in Test \cup {None}
    BY <1>3, <2>1, Shortened DEF OwnMessage, Matching
  <2>3. /\ new \in Row /\ new.test = t /\ new.row = row[t] /\ new.status = rec.status
        /\ ~new.sub
    BY <2>1, <2>2 DEF Result, Row
  <2>4. reader' = [reader EXCEPT !.started = reader.started \ {t}, !.buffer = <<>>,
                                 !.counts = Plus(reader.counts, rec.status),
                                 !.reported = reader.reported \cup Matched(t),
                                 !.sent = Append(reader.sent, new)]
    BY <1>5 DEF OnRecord, Reader
  <2> HIDE DEF t, y, new
  <2>5. /\ reader.started \ {t} \in SUBSET Test /\ reader.reported \cup Matched(t) \in SUBSET Test
        /\ Append(reader.sent, new) \in Seq(Row) /\ Plus(reader.counts, rec.status) \in Pair
    BY <1>3, <2>1, <2>2, <2>3, PlusType DEF Matched
  <2>6. /\ reader'.started = reader.started \ {t}
        /\ reader'.reported = reader.reported \cup Matched(t)
        /\ reader'.counts = Plus(reader.counts, rec.status)
        /\ reader'.sent = Append(reader.sent, new)
        /\ reader'.summary = reader.summary /\ reader'.over = reader.over
    BY <2>4 DEF Reader
  <2>7. reader' \in Reader(Row)
    BY <1>3, <2>4, <2>5 DEF Reader
  <2>8. /\ reader.started \ {t} = {u \in Test : 2 * u = y[1]}
        /\ Before(y) = Before(x) \cup {t}
        /\ x[1] # 2 * N + 2 /\ t \notin Before(x)
    BY <1>1, <1>2, <2>1 DEF Before
  <2>9. \A i \in DOMAIN reader.sent : Apart(reader.sent[i], new)
    <3>1. \A i \in DOMAIN reader.sent : reader.sent[i].test # t /\ reader.sent[i].test # None
      BY <1>2, <2>8 DEF Kept, Tests
    <3> QED BY <2>1, <2>3, <3>1 DEF Apart
  <2>10. /\ Tests(reader'.sent) = Tests(reader.sent) \cup {t}
         /\ Rows(reader'.sent) = Rows(reader.sent) \cup {row[t]}
         /\ Distinct(reader'.sent) /\ reader'.counts = Tally(reader'.sent)
    BY <1>2, <1>3, <2>3, <2>6, <2>9, RowAppend, TallyAppend DEF Kept
  <2>11. Kept(reader')
    BY <1>2, <2>1, <2>6, <2>10 DEF Kept, Matched
  <2>12. RecordsHeld(y)'
    <3>1. \A u \in Before(y) : {row'[u]} \ {None} \subseteq reader'.reported
      BY <1>2, <2>6, <2>8 DEF Matched
    <3>2. Before(y)' = Before(y)
      BY DEF Before, y, After
    <3>3. Tests(reader'.sent) = Before(y) /\ reader'.counts = y[2]
      BY <1>2, <2>1, <2>6, <2>8, <2>10
    <3> QED BY <1>2, <2>6, <2>8, <2>11, <3>1, <3>2, <3>3
            DEF RecordsHeld, Matched, Kept, y, After
  <2> QED BY <2>6, <2>7, <2>12 DEF y
<1>6. CASE rec.kind = "summary"
  <2>1. /\ rec.status \in Pair /\ y[1] = x[1] + 1 /\ y[2] = x[2]
        /\ x[1] = 2 * N + 1 /\ rec.status = x[2]
    BY <1>6 DEF Record, After, Fits
  <2>2. reader' = [reader EXCEPT !.summary = rec.status]
    BY <1>6 DEF OnRecord
  <2> HIDE DEF y
  <2>3. /\ reader'.started = reader.started /\ reader'.reported = reader.reported
        /\ reader'.counts = reader.counts /\ reader'.sent = reader.sent
        /\ reader'.summary = rec.status /\ reader'.over = reader.over
    BY <2>2 DEF Reader
  <2>4. reader' \in Reader(Row)
    BY <2>1, <2>2 DEF Reader
  <2>5. /\ reader.started = {u \in Test : 2 * u = y[1]}
        /\ Before(x) = Before(y)
        /\ y[1] = 2 * N + 2
    BY <1>1, <1>2, <2>1 DEF Before
  <2>6. RecordsHeld(y)'
    <3>1. Kept(reader') /\ reader'.counts = y[2]
      BY <1>2, <2>1, <2>3 DEF Kept
    <3>2. \A u \in Before(y) : {row'[u]} \ {None} \subseteq reader'.reported
      BY <1>2, <2>3, <2>5 DEF Matched
    <3>3. Before(y)' = Before(y)
      BY DEF Before, y, After
    <3>4. child'.summed
      BY <1>6
    <3> QED BY <1>2, <2>1, <2>3, <2>5, <3>1, <3>2, <3>3, <3>4
            DEF RecordsHeld, Matched, Kept, y, After
  <2> QED BY <2>3, <2>4, <2>6 DEF y
<1>7. rec.kind \in {"start", "result", "summary"}
  BY DEF Record
<1> QED BY <1>4, <1>5, <1>6, <1>7

\* TestReader, or the callback that keeps the output, takes the next record.
LEMMA RecordHolds == SuiteInv /\ ReadsRecord => SuiteInv'
<1> SUFFICES ASSUME SuiteInv, ReadsRecord PROVE SuiteInv'
  OBVIOUS
<1> DEFINE X == IF lang \in Records THEN Row ELSE Record
<1>1. ~reader.over /\ fd3 # <<>> /\ fd3' = Tail(fd3) /\ UNCHANGED <<lang, row, child, err, ended>>
  BY DEF ReadsRecord, SuiteInv, Ordered
<1>2. fd3 \in Seq(Record) /\ \A i \in DOMAIN fd3 : Said(fd3[i])
  BY DEF SuiteInv, SuiteTypeOK, Child
<1>3. PICK rec \in Record : rec = Head(fd3)
  BY <1>1, <1>2
<1>4. /\ fd3' \in Seq(Record) /\ 1 \in DOMAIN fd3 /\ rec = fd3[1]
      /\ \A i \in DOMAIN fd3' : i + 1 \in DOMAIN fd3 /\ fd3'[i] = fd3[i + 1]
  BY <1>1, <1>2, <1>3
<1>5. reader \in Reader(X)
  BY <1>1 DEF SuiteInv, SuiteTypeOK, Child
<1>6. PICK x \in Place : Held(x) /\ (Flows => Chain(x, fd3, Here))
  BY <1>1 DEF SuiteInv, Followed
<1>7. Flows => Fits(x, rec) /\ Chain(After(x, rec), fd3', Here)
  BY <1>1, <1>2, <1>6, <1>3, ChainTail
<1>8. After(x, rec) \in Place /\ Here' = Here
  BY <1>1, AfterType DEF Here
<1>9. reader' = IF "fd3" \in ended.capped THEN reader
                ELSE IF lang \in Records THEN OnRecord(rec) ELSE OnLine(rec)
  BY <1>3 DEF ReadsRecord
<1>10. Said(rec)
  BY <1>2, <1>4
<1>11. Matching
  BY DEF SuiteInv, SuiteTypeOK
<1> DEFINE Goal == /\ reader' \in Reader(X) /\ ~reader'.over /\ Followed'
<1>12. ASSUME "fd3" \in ended.capped PROVE Goal
  <2>1. reader' = reader /\ ~Flows'
    BY <1>1, <1>9, <1>12 DEF Flows
  <2>2. Held(x)'
    BY <1>1, <1>6, <2>1, HeldKeeps DEF SaysMore
  <2> QED BY <1>1, <1>5, <2>1, <2>2 DEF Followed
<1>13. ASSUME "fd3" \notin ended.capped /\ lang \in Records
       PROVE  Goal
  <2>1. reader \in Reader(Row) /\ X = Row /\ reader' = OnRecord(rec) /\ RecordsHeld(x)
    BY <1>5, <1>6, <1>9, <1>13 DEF Held
  <2>2. CASE reader.error
    <3>1. reader' = reader /\ ~Flows'
      BY <2>1, <2>2 DEF OnRecord, Flows
    <3>2. Held(x)'
      BY <1>1, <1>6, <3>1, HeldKeeps DEF SaysMore
    <3> QED BY <1>1, <1>5, <3>1, <3>2 DEF Followed
  <2>3. CASE ~reader.error /\ rec.kind = "garbage"
    <3>1. reader' = [reader EXCEPT !.error = TRUE]
      BY <2>1, <2>3 DEF OnRecord
    <3>2. /\ reader' \in Reader(Row) /\ reader'.over = reader.over /\ reader'.error
          /\ reader'.sent = reader.sent /\ reader'.reported = reader.reported
          /\ reader'.started = reader.started /\ reader'.counts = reader.counts
          /\ reader'.summary = reader.summary
      BY <2>1, <3>1 DEF Reader
    <3>3. Held(x)' /\ ~Flows'
      BY <1>1, <1>6, <1>13, <3>2, HeldKeeps DEF SaysMore, Flows
    <3> QED BY <1>1, <2>1, <3>2, <3>3 DEF Followed
  <2>4. CASE ~reader.error /\ rec.kind # "garbage"
    <3>1. Flows
      BY <1>13, <2>4 DEF Flows
    <3>2. /\ reader' \in Reader(Row) /\ RecordsHeld(After(x, rec))'
          /\ reader'.over = reader.over
      BY <1>1, <1>4, <1>7, <1>10, <1>13, <1>11, <2>1, <2>4, <3>1, TakesRecord DEF Said
    <3>3. Held(After(x, rec))' /\ Chain(After(x, rec), fd3', Here')
      BY <1>1, <1>7, <1>8, <1>13, <3>1, <3>2 DEF Held
    <3>4. Followed'
      BY <1>8, <3>3 DEF Followed, Chain
    <3> QED BY <1>1, <2>1, <3>2, <3>4
  <2> QED BY <2>2, <2>3, <2>4
<1>14. ASSUME "fd3" \notin ended.capped /\ lang \notin Records
       PROVE  Goal
  <2>1. /\ reader \in Reader(Record) /\ X = Record /\ LinesHeld(x)
        /\ reader' = [reader EXCEPT !.sent = Append(reader.sent, rec)]
    BY <1>5, <1>6, <1>9, <1>14 DEF Held, OnLine, Reader
  <2>2. reader.sent \in Seq(Record) /\ Append(reader.sent, rec) \in Seq(Record)
    BY <1>4, <2>1 DEF Reader
  <2>3. reader' \in Reader(Record)
    BY <2>1, <2>2 DEF Reader
  <2>4. /\ reader'.over = reader.over /\ reader'.error = reader.error
        /\ reader'.sent = Append(reader.sent, rec) /\ reader'.reported = reader.reported
        /\ reader'.counts = reader.counts
    BY <2>1 DEF Reader
  <2>5. CASE reader.error
    BY <2>1, <2>5 DEF LinesHeld
  <2>6. CASE ~reader.error
    <3>1. Flows
      BY <1>14, <2>6 DEF Flows
    <3>2. Chain(<<1, <<0, 0>>>>, Append(reader.sent, rec), After(x, rec))
      BY <1>4, <1>7, <2>1, <2>2, <3>1, ChainAppend DEF LinesHeld
    <3> DEFINE z == After(x, rec)
    <3>3. PICK y \in Place : y = z
      BY <1>8
    <3>4. LinesHeld(y)'
      <4>1. Chain(<<1, <<0, 0>>>>, reader'.sent, y)
        BY <2>4, <3>2, <3>3
      <4> HIDE DEF z
      <4>2. Chain(<<1, <<0, 0>>>>, reader.sent, y)'
        BY ONLY <4>1 DEF Chain
      <4>3. /\ DOMAIN reader'.sent = DOMAIN reader.sent \cup {Len(reader.sent) + 1}
            /\ \A i \in DOMAIN reader.sent : reader'.sent[i] = reader.sent[i]
            /\ reader'.sent[Len(reader.sent) + 1] = rec
        BY <1>4, <2>2, <2>4, Appended
      <4>4. (\A i \in DOMAIN reader.sent : Said(reader.sent[i]))'
        BY <1>1, <1>10, <2>1, <4>3 DEF LinesHeld, Said
      <4> QED BY <2>1, <2>4, <2>6, <4>2, <4>4 DEF LinesHeld
    <3>5. Held(y)' /\ Chain(y, fd3', Here')
      BY <1>1, <1>7, <1>8, <1>14, <3>1, <3>4, <3>3 DEF Held
    <3>6. Followed'
      BY <3>5 DEF Followed, Chain
    <3> QED BY <1>1, <2>1, <2>3, <2>4, <3>6
  <2> QED BY <2>5, <2>6
<1>15. Goal
  BY <1>12, <1>13, <1>14
<1>16. SuiteTypeOK'
  <2>1. (\A i \in DOMAIN fd3 : Said(fd3[i]))'
    BY <1>1, <1>2, <1>4 DEF Said
  <2> QED BY <1>1, <1>4, <1>15, <2>1 DEF SuiteInv, SuiteTypeOK, Matching
<1>17. Ordered'
  BY <1>1, <1>15 DEF SuiteInv, Ordered
<1>18. Texts'
  <2>1. reader'.whole = reader.whole /\ (reader'.buffer = reader.buffer \/ reader'.buffer = <<>>)
    BY <1>5, <1>9, <1>10, <1>4 DEF OnRecord, OnLine, Reader, Record, Said
  <2> QED BY <1>1, <1>15, <2>1 DEF SuiteInv, Texts, EndsWith, LastWritten
<1>19. Sound'
  BY <1>15, UntoldNext DEF Told
<1> QED BY <1>15, <1>16, <1>17, <1>18, <1>19 DEF SuiteInv

\* The message of a test that took the process down has the last thing that the test
\* wrote, or as much as it holds.
Tells(message) ==
  /\ message # None
  /\ LastWritten \in Range(message) \/ Len(message) = Keep

\* The remainder adds rows that no test was taken for.
Filled == (ended.timedOut \/ ended.signal) /\ Test \ {row[t] : t \in Test} # {}

\* What the accounting has to leave for the four properties to hold of it.
LEMMA Accounted ==
  ASSUME NEW e \in Reader(Row), NEW total,
         reader' = [[e EXCEPT !.total = total] EXCEPT !.over = TRUE],
         UNCHANGED <<lang, row, child, ended>>,
         Distinct(e.sent), Tally(e.sent)[1] <= total[1],
         \/ total = Tally(e.sent)
         \/ child.summed /\ (child.missed # {} \/ Filled),
         ended.timedOut => Test \subseteq Rows(e.sent),
         \A i \in DOMAIN e.sent :
           (/\ lang \in Records /\ ~e.error /\ ended.capped = {}
            /\ e.sent[i].test = child.at /\ child.inside /\ child.wrote > 0)
           => Tells(e.sent[i].message)
  PROVE  Sound' /\ reader'.over = TRUE
<1>1. /\ reader'.sent = e.sent /\ reader'.total = total /\ reader'.over = TRUE
      /\ reader'.error = e.error
  BY DEF Reader
<1>2. CASE ~Told'
  BY <1>1, <1>2, UntoldNext
<1>3. CASE Told'
  <2>1. Shown' = DOMAIN e.sent
    BY <1>1, <1>3 DEF Shown
  <2>2. OneResultPerTest'
    BY <1>1, <2>1 DEF OneResultPerTest, Distinct, Apart
  <2>3. TimedOutSuiteIsWhole'
    BY <1>1, <2>1 DEF TimedOutSuiteIsWhole, Rows
  <2>4. FailureIsExplained'
    BY <1>1, <2>1 DEF FailureIsExplained, Explains, Tells, LastWritten
  <2>5. SummaryAgrees'
    BY <1>1, <2>1 DEF SummaryAgrees, Tally, Filled
  <2> QED BY <1>1, <2>2, <2>3, <2>4, <2>5 DEF Sound
<1> QED BY <1>2, <1>3

\* The accounting of Zig, Python and the C family (report_aborted_tests, then
\* report_timed_out_remainder).
LEMMA RecordsAccounted ==
  ASSUME SuiteInv, ~reader.over, fd3 = <<>>, err = <<>>, UNCHANGED <<lang, row, child, ended>>,
         lang \in Records, reader' = [RecordsAccount EXCEPT !.over = TRUE]
  PROVE  Sound' /\ reader'.over = TRUE
<1> USE NConstant
<1> DEFINE r == reader
           a == ReportAborted(r)
           e == IF ended.timedOut THEN ReportRemainder(a, "timed_out") ELSE a
           total == IF e.summary # None THEN e.summary ELSE e.counts
<1>1. r \in Reader(Row) /\ Matching
  BY DEF SuiteInv, SuiteTypeOK
<1>2. PICK x \in Place : RecordsHeld(x) /\ (Flows => Chain(x, <<>>, Here))
  BY DEF SuiteInv, Followed, Held
<1>3. /\ Tests(r.sent) = Before(x) /\ \A t \in Before(x) : Matched(t) \subseteq r.reported
      /\ r.started = {t \in Test : 2 * t = x[1]}
      /\ r.counts = x[2] /\ Kept(r)
      /\ r.summary # None => x[1] = 2 * N + 2 /\ r.summary = x[2] /\ child.summed
      /\ x[1] \in Nat
  BY <1>2 DEF RecordsHeld, Place
<1>4. reader' = [[e EXCEPT !.total = total] EXCEPT !.over = TRUE]
  BY DEF RecordsAccount
<1> HIDE DEF r
<1>5. r.started = {} \/ \E u \in Test \ Tests(r.sent) : r.started = {u}
  <2> SUFFICES ASSUME NEW u \in r.started PROVE u \in Test \ Tests(r.sent) /\ r.started = {u}
    OBVIOUS
  <2> QED BY <1>3 DEF Before
<1>6. /\ a \in Reader(Row) /\ Kept(a)
      /\ a.summary = r.summary /\ a.error = r.error
      /\ r.started = {} => a = r
      /\ \A u \in r.started : \A i \in DOMAIN a.sent :
           a.sent[i].test = u => a.sent[i].message = AbortedMessage(r.buffer, r.whole)
  <2>1. CASE r.started = {}
    <3>1. a = r
      BY <1>1, <1>3, <2>1, AbortedGives
    <3> HIDE DEF a
    <3> QED BY <1>1, <1>3, <2>1, <3>1
  <2>2. ASSUME NEW u \in Test \ Tests(r.sent), r.started = {u}
        PROVE  /\ a \in Reader(Row) /\ Kept(a)
               /\ a.summary = r.summary /\ a.error = r.error
               /\ \A i \in DOMAIN a.sent : a.sent[i].test = u =>
                    a.sent[i].message = AbortedMessage(r.buffer, r.whole)
    BY <1>1, <1>3, <2>2, AbortedGives
  <2> HIDE DEF a
  <2> QED BY <1>5, <2>1, <2>2
<1> HIDE DEF a
<1>7. /\ e \in Reader(Row) /\ e.summary = r.summary /\ e.error = r.error
      /\ e.counts = Tally(e.sent) /\ Distinct(e.sent) /\ e.counts[1] = a.counts[1]
      /\ ended.timedOut => Test \subseteq Rows(e.sent)
      /\ \A i \in DOMAIN e.sent : e.sent[i].test # None =>
           \E j \in DOMAIN a.sent : e.sent[i] = a.sent[j]
      /\ ~ended.timedOut \/ Test \subseteq a.reported => e = a
  <2>1. CASE ~ended.timedOut
    <3>1. e = a
      BY <2>1
    <3> HIDE DEF e
    <3> QED BY <1>6, <2>1, <3>1 DEF Kept
  <2>2. CASE ended.timedOut
    <3>1. e = ReportRemainder(a, "timed_out")
      BY <2>2
    <3> HIDE DEF e
    <3> QED BY <1>6, <2>2, <3>1, RemainderGives
  <2> QED BY <2>1, <2>2
<1> HIDE DEF e
<1>8. /\ Tally(e.sent)[1] <= total[1]
      /\ total = Tally(e.sent) \/ (child.summed /\ Filled)
  <2>1. e.counts[1] \in Nat /\ e.counts[1] <= e.counts[1]
    BY <1>7 DEF Reader, Pair
  <2>2. CASE r.summary = None
    <3>1. total = e.counts
      BY <1>7, <2>2
    <3> HIDE DEF total
    <3> QED BY <1>7, <2>1, <3>1
  <2>3. CASE r.summary # None
    <3>1. x[1] = 2 * N + 2 /\ r.summary = r.counts /\ child.summed
      BY <1>3, <2>3
    <3>2. r.started = {} /\ Before(x) = Test
      BY <1>3, <3>1 DEF Before
    <3>3. a = r /\ total = r.counts
      BY <1>6, <1>7, <2>3, <3>1, <3>2
    <3> HIDE DEF total
    <3>4. Filled \/ e = r
      <4>1. ASSUME ~Filled, ended.timedOut PROVE Test \subseteq r.reported
        <5>1. \A c \in Test : \E t \in Test : row[t] = c
          BY <4>1 DEF Filled
        <5> QED BY <1>3, <3>2, <5>1 DEF Matched
      <4> QED BY <1>7, <3>3, <4>1
    <3>5. Tally(e.sent)[1] <= total[1]
      BY <1>7, <2>1, <3>3
    <3>6. e = r => total = Tally(e.sent)
      BY <1>7, <3>3
    <3> QED BY <3>1, <3>4, <3>5, <3>6
  <2> QED BY <2>2, <2>3
<1> HIDE DEF total
<1>9. ASSUME NEW i \in DOMAIN e.sent, ~e.error, ended.capped = {},
             e.sent[i].test = child.at, child.inside, child.wrote > 0
      PROVE  Tells(e.sent[i].message)
  <2> DEFINE u == child.at
  <2>1. u \in Test /\ ~child.summed /\ child.inside /\ u # None
    BY <1>9 DEF SuiteInv, SuiteTypeOK, Child, Ordered
  <2>2. Flows
    BY <1>7, <1>9 DEF Flows, r
  <2>3. x = Here
    BY <1>2, <2>2, ChainEmpty
  <2>4. x[1] = 2 * u
    BY <2>1, <2>3 DEF Here
  <2> HIDE DEF u
  <2>5. u \in r.started
    BY <1>3, <2>1, <2>4
  <2>6. PICK j \in DOMAIN a.sent : e.sent[i] = a.sent[j]
    BY <1>7, <1>9, <2>1 DEF u
  <2>7. e.sent[i].message = AbortedMessage(r.buffer, r.whole)
    BY <1>6, <1>9, <2>5, <2>6 DEF u
  <2>8. EndsWith(r.whole) /\ (r.buffer = <<>> \/ EndsWith(r.buffer))
    BY <1>9 DEF SuiteInv, Texts, r
  <2>9. r.buffer \in Text /\ r.whole \in Text
    BY <1>1 DEF Reader
  <2>10. \A text \in Text : text # None
    BY SuiteAssumption
  <2>11. CASE r.buffer # <<>>
    <3>1. e.sent[i].message = FirstOf(r.buffer) /\ EndsWith(r.buffer)
      BY <2>7, <2>8, <2>11 DEF AbortedMessage
    <3> QED BY <2>9, <2>10, <3>1, Shortened DEF Tells, EndsWith
  <2>12. CASE r.buffer = <<>>
    <3>1. e.sent[i].message = LastOf(r.whole) /\ EndsWith(r.whole)
      BY <2>7, <2>8, <2>12 DEF AbortedMessage, EndsWith
    <3> QED BY <2>9, <2>10, <3>1, Shortened DEF Tells, EndsWith
  <2> QED BY <2>11, <2>12
<1> QED BY <1>4, <1>7, <1>8, <1>9, Accounted

\* That of Rust: libtest's summary counts every test whose line was written, read or
\* not; what could be read is no more.
LEMMA RustAccounted ==
  ASSUME SuiteInv, ~reader.over, UNCHANGED <<lang, row, child, ended>>,
         lang = "rust", reader' = [RustAccount EXCEPT !.over = TRUE]
  PROVE  Sound' /\ reader'.over = TRUE
<1> USE NConstant
<1> DEFINE q == reader.sent
           s == FromLines({"result"})
           e == IF ended.timedOut THEN ReportRemainder(s, "timed_out")
                ELSE IF ended.signal THEN ReportRemainder(s, "failed") ELSE s
           summaries == {i \in DOMAIN q : q[i].kind = "summary"}
           summary == q[CHOOSE i \in summaries : TRUE].status
           total == IF summaries = {} THEN e.counts
                    ELSE <<summary[1], IF ended.timedOut THEN e.counts[2] ELSE summary[2]>>
<1>1. lang \notin Records
  BY DEF Records
<1>2. reader \in Reader(Record) /\ Matching
  BY <1>1 DEF SuiteInv, SuiteTypeOK
<1>3. PICK x \in Place : LinesHeld(x)
  BY <1>1 DEF SuiteInv, Followed, Held
<1>4. /\ s \in Reader(Row) /\ Kept(s)
      /\ s.counts[1] <= x[2][1]
      /\ (\A i \in DOMAIN q : q[i].kind # "unread") =>
           /\ \A t \in Before(x) : Matched(t) \subseteq s.reported
           /\ s.counts = x[2]
      /\ \A i \in DOMAIN q : q[i].kind = "summary" => x = <<2 * N + 2, q[i].status>>
  BY <1>2, <1>3, LinesGives DEF LinesHeld
<1>5. \A i \in DOMAIN q : Said(q[i])
  BY <1>3 DEF LinesHeld
<1>6. reader' = [[e EXCEPT !.total = total] EXCEPT !.over = TRUE]
  BY DEF RustAccount
<1> HIDE DEF s, q
<1>7. /\ e \in Reader(Row) /\ e.counts = Tally(e.sent) /\ Distinct(e.sent)
      /\ e.counts[1] = s.counts[1]
      /\ ended.timedOut => Test \subseteq Rows(e.sent)
      /\ (~ended.timedOut /\ ~ended.signal) \/ Test \subseteq s.reported => e = s
  <2>1. CASE ended.timedOut
    <3>1. e = ReportRemainder(s, "timed_out")
      BY <2>1
    <3> HIDE DEF e
    <3> QED BY <1>4, <2>1, <3>1, RemainderGives
  <2>2. CASE ~ended.timedOut /\ ended.signal
    <3>1. e = ReportRemainder(s, "failed")
      BY <2>2
    <3> HIDE DEF e
    <3> QED BY <1>4, <2>2, <3>1, RemainderGives
  <2>3. CASE ~ended.timedOut /\ ~ended.signal
    <3>1. e = s
      BY <2>3
    <3> HIDE DEF e
    <3> QED BY <1>4, <2>3, <3>1 DEF Kept
  <2> QED BY <2>1, <2>2, <2>3
<1> HIDE DEF e
<1>8. /\ Tally(e.sent)[1] <= total[1]
      /\ total = Tally(e.sent) \/ (child.summed /\ (child.missed # {} \/ Filled))
  <2>1. e.counts[1] \in Nat /\ e.counts[1] <= e.counts[1] /\ x[1] \in Nat /\ x[2] \in Pair
    BY <1>3, <1>7 DEF Reader, Pair, Place
  <2>2. CASE summaries = {}
    <3>1. total = e.counts
      BY <2>2
    <3> HIDE DEF total
    <3> QED BY <1>7, <2>1, <3>1
  <2>3. CASE summaries # {}
    <3>1. PICK i \in summaries : i = CHOOSE k \in summaries : TRUE
      BY <2>3
    <3>2. x = <<2 * N + 2, summary>> /\ child.summed
      BY <1>4, <1>5, <3>1 DEF Said
    <3> HIDE DEF summary, summaries
    <3>3. summary = x[2] /\ summary = <<summary[1], summary[2]>> /\ Before(x) = Test
      <4>1. x[1] = 2 * N + 2 /\ x[2] = summary
        BY <3>2
      <4>2. x[2] = <<x[2][1], x[2][2]>>
        BY <2>1 DEF Pair
      <4>3. \A t \in Test : 2 * t + 1 <= x[1]
        BY <4>1
      <4> QED BY <4>1, <4>2, <4>3 DEF Before
    <3>4. Tally(e.sent)[1] <= total[1]
      BY <1>4, <1>7, <2>3, <3>3
    <3>5. CASE child.missed # {} \/ Filled
      BY <3>2, <3>4, <3>5
    <3>6. CASE child.missed = {} /\ ~Filled
      <4>1. s.counts = summary /\ \A t \in Test : Matched(t) \subseteq s.reported
        BY <1>4, <1>5, <3>3, <3>6 DEF Said
      <4>2. ASSUME ended.timedOut \/ ended.signal PROVE Test \subseteq s.reported
        <5>1. \A c \in Test : \E t \in Test : row[t] = c
          BY <3>6, <4>2 DEF Filled
        <5> QED BY <4>1, <5>1 DEF Matched
      <4>3. e = s
        BY <1>7, <4>2
      <4>4. total = summary
        BY <2>3, <3>3, <4>1, <4>3
      <4> HIDE DEF total
      <4>5. total = Tally(e.sent)
        BY <1>7, <4>1, <4>3, <4>4
      <4> QED BY <3>4, <4>5
    <3> QED BY <3>5, <3>6
  <2> QED BY <2>2, <2>3
<1> HIDE DEF total
<1> QED BY <1>1, <1>6, <1>7, <1>8, Accounted

\* That of Go and TypeScript.
LEMMA OutputAccounted ==
  ASSUME SuiteInv, ~reader.over, UNCHANGED <<lang, row, child, ended>>,
         lang \in {"go", "ts"}, reader' = [OutputAccount EXCEPT !.over = TRUE]
  PROVE  Sound' /\ reader'.over = TRUE
<1> DEFINE s == FromLines({"result", "sub"})
           e == IF ended.timedOut THEN ReportRemainder(s, "timed_out") ELSE s
<1>1. lang \notin Records
  BY DEF Records
<1>2. reader \in Reader(Record) /\ Matching
  BY <1>1 DEF SuiteInv, SuiteTypeOK, Child
<1>3. PICK x \in Place : LinesHeld(x)
  BY <1>1 DEF SuiteInv, Followed, Held
<1>4. s \in Reader(Row) /\ Kept(s)
  BY <1>2, <1>3, LinesGives DEF LinesHeld
<1>5. reader' = [[e EXCEPT !.total = e.counts] EXCEPT !.over = TRUE]
  BY DEF OutputAccount
<1> HIDE DEF s
<1>6. /\ e \in Reader(Row) /\ e.counts = Tally(e.sent) /\ Distinct(e.sent)
      /\ ended.timedOut => Test \subseteq Rows(e.sent)
  <2>1. CASE ended.timedOut
    <3>1. e = ReportRemainder(s, "timed_out")
      BY <2>1
    <3> HIDE DEF e
    <3> QED BY <1>4, <2>1, <3>1, RemainderGives
  <2>2. CASE ~ended.timedOut
    <3>1. e = s
      BY <2>2
    <3> HIDE DEF e
    <3> QED BY <1>4, <2>2, <3>1 DEF Kept
  <2> QED BY <2>1, <2>2
<1> HIDE DEF e
<1>7. e.counts[1] <= e.counts[1]
  BY <1>6 DEF Reader, Pair
<1> QED BY <1>1, <1>5, <1>6, <1>7, Accounted

\* The accounting leaves the four properties true of what it tells.
LEMMA AccountsHolds == SuiteInv /\ Accounts => SuiteInv'
<1> SUFFICES ASSUME SuiteInv, Accounts PROVE SuiteInv'
  OBVIOUS
<1>1. /\ ~child.alive /\ fd3 = <<>> /\ err = <<>> /\ ~reader.over
      /\ UNCHANGED <<lang, row, child, fd3, err, ended>>
  BY DEF Accounts
<1>2. lang \in Records \cup {"rust", "go", "ts"}
  BY SuiteAssumption DEF SuiteInv, SuiteTypeOK, Records
<1>3. reader'.over = TRUE /\ Sound'
  <2>1. CASE ended.cancelled
    <3>1. reader' = [reader EXCEPT !.over = TRUE]
      BY <2>1 DEF Accounts
    <3>2. reader'.over = TRUE
      <4> DEFINE X == IF lang \in Records THEN Row ELSE Record
      <4>1. reader \in Reader(X)
        BY <1>1 DEF SuiteInv, SuiteTypeOK, Child
      <4> HIDE DEF X
      <4> QED BY <3>1, <4>1 DEF Reader
    <3>3. ~Told'
      BY <1>1, <2>1 DEF Told
    <3> QED BY <3>2, <3>3, UntoldNext
  <2>2. CASE ~ended.cancelled /\ lang \in Records
    <3>1. reader' = [RecordsAccount EXCEPT !.over = TRUE]
      BY <2>2 DEF Accounts, Records
    <3> QED BY <1>1, <2>2, <3>1, RecordsAccounted
  <2>3. CASE ~ended.cancelled /\ lang = "rust"
    <3>1. reader' = [RustAccount EXCEPT !.over = TRUE]
      BY <2>3 DEF Accounts, Records
    <3> QED BY <1>1, <2>3, <3>1, RustAccounted
  <2>4. CASE ~ended.cancelled /\ lang \in {"go", "ts"}
    <3>1. reader' = [OutputAccount EXCEPT !.over = TRUE]
      BY <2>4 DEF Accounts, Records
    <3> QED BY <1>1, <2>4, <3>1, OutputAccounted
  <2> QED BY <1>2, <2>1, <2>2, <2>3, <2>4
<1>4. SuiteTypeOK' /\ Ordered' /\ Followed' /\ Texts'
  BY <1>1, <1>3 DEF SuiteInv, SuiteTypeOK, Ordered, Followed, Texts, Matching, Said
<1> QED BY <1>3, <1>4 DEF SuiteInv

\* And nothing changes by itself.
LEMMA SuiteStutters == SuiteInv /\ UNCHANGED suite => SuiteInv'
<1> SUFFICES ASSUME SuiteInv, UNCHANGED suite PROVE SuiteInv'
  OBVIOUS
<1>1. UNCHANGED <<lang, row, child, fd3, err, reader, ended>>
  BY DEF suite
<1>2. SuiteTypeOK'
  BY <1>1 DEF SuiteInv, SuiteTypeOK, Matching, Said
<1>3. Ordered'
  BY <1>1 DEF SuiteInv, Ordered
<1>4. Followed'
  <2>1. CASE reader.over
    BY <1>1, <2>1 DEF Followed
  <2>2. CASE ~reader.over
    <3>1. Here' = Here /\ SaysMore /\ ended.capped \subseteq ended'.capped
      BY <1>1 DEF Here, SaysMore
    <3> QED BY <1>1, <2>2, <3>1, WritesNothing
  <2> QED BY <2>1, <2>2
<1>5. Texts'
  BY <1>1 DEF SuiteInv, Texts, EndsWith, LastWritten
<1>6. Sound'
  BY <1>1 DEF SuiteInv, Sound, OneResultPerTest, TimedOutSuiteIsWhole, FailureIsExplained,
              Explains, SummaryAgrees, Shown, Told
<1> QED BY <1>2, <1>3, <1>4, <1>5, <1>6 DEF SuiteInv

\* The inductive invariant of a test run (run_tests, TestReader and the shared
\* accounting of common.rs): types, the order of its end, where the process and
\* the reader are, what is on its way on both pipes, and the four properties.
THEOREM SuiteInvariant == SuiteSpec => []SuiteInv
<1>1. SuiteInv /\ [SuiteNext]_suite => SuiteInv'
  BY BeginsHolds, PrintsHolds, SubtestHolds, EndsHolds, UnreadHolds,
     GarblesHolds, SumsHolds, StopsHolds,
     CancelledHolds, RecordHolds, TextHolds, AccountsHolds, SuiteStutters DEF SuiteNext
<1> QED BY <1>1, InitHolds, PTL DEF SuiteSpec

\* No test is given two results by report_aborted_tests,
\* report_timed_out_remainder and the results read before them, whichever record
\* was the last to be read; and no row has both the result of a test and a blank
\* one, whatever rows match_runner_name takes the tests for.
THEOREM OneResultPerTestHolds == SuiteSpec => []OneResultPerTest
<1>1. SuiteInv => OneResultPerTest
  BY DEF SuiteInv, Sound
<1> QED BY <1>1, SuiteInvariant, PTL

\* When the deadline ends a run, report_timed_out_remainder leaves a result for every
\* row of the catalog, in every language.
THEOREM TimedOutSuiteIsWholeHolds == SuiteSpec => []TimedOutSuiteIsWhole
<1>1. SuiteInv => TimedOutSuiteIsWhole
  BY DEF SuiteInv, Sound
<1> QED BY <1>1, SuiteInvariant, PTL

\* aborted_message shows, of the test that took the process down, the last thing it
\* wrote or as much as it shows of any, however many writes there were and whether
\* each was read before the start record, after it, or between others.
THEOREM FailureIsExplainedHolds == SuiteSpec => []FailureIsExplained
<1>1. SuiteInv => FailureIsExplained
  BY DEF SuiteInv, Sound
<1> QED BY <1>1, SuiteInvariant, PTL

\* The totals that run_tests returns are those of the results it sent, whether they
\* come from the summary record, from libtest's own line or from its counts, unless
\* the process counted what could not be read or rows were filled in; and no result
\* sent as passed is left out of them.
THEOREM SummaryAgreesHolds == SuiteSpec => []SummaryAgrees
<1>1. SuiteInv => SummaryAgrees
  BY DEF SuiteInv, Sound
<1> QED BY <1>1, SuiteInvariant, PTL
=============================================================================
