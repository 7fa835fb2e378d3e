--------------------------- MODULE SuiteRunnerProofs ---------------------------
(***************************************************************************)
(* Proofs about SuiteRunner, for any schedule, any benchmark output and    *)
(* any number of runs: every trial is accounted for once and as what it    *)
(* was, a stop is final, exit status and campaign validation tell the      *)
(* truth, and the runner implements TrialMatrix.                           *)
(*                                                                         *)
(* All of it rests on one picture of the raw file: what is there of an     *)
(* item is the beginning of what the runner made of the item's output.     *)
(***************************************************************************)
EXTENDS SuiteRunner, SequenceTheorems, WellFoundedInduction, TLAPS

Trials(i) == schedule[i].trials
AllSucceed(rows) == \A k \in DOMAIN rows : rows[k].status = "success"
Prefix(rows, all) == Len(rows) <= Len(all) /\ \A k \in DOMAIN rows : rows[k] = all[k]

\* What the runner may make of an item: of the output of its benchmark, or without one.
MadeOf(planned, h, form, rows) ==
    IF h.launched
    THEN planned.entry = "usable" /\ rows = Materialized(h.out, planned.trials, form, h.failed)
    ELSE /\ h = NotLaunched
         /\ \E origin \in UnstartedOrigins :
               /\ planned.entry # "usable" => origin = "prerequisite"
               /\ rows = AllSkipped(planned.trials, origin)

Whole(i, rows) == MadeOf(schedule[i], history[i], format, rows)

\* Only the first run works; a later one finds the file.
OneRun ==
    /\ pc \in {"item", "wait", "write"} => exits = << >>
    /\ pc = "ended" => exits # << >>
    /\ pc # "start" \/ exits # << >> => exists
    /\ pc = "start" /\ exits = << >> => file = << >> /\ item = 1

\* The lines are in the order of the items, and a torn one is the end of the run.
InOrder ==
    /\ \A k \in DOMAIN file : file[k].item \in DOMAIN schedule
    /\ \A j, k \in DOMAIN file : j < k => file[j].item <= file[k].item
    /\ exits = << >> => \A k \in DOMAIN file : file[k].item <= item
    /\ Torn => exits # << >> /\ item <= Len(schedule)

\* What is in the file of each item, and of those the runner is finished with.
Filed ==
    \A i \in DOMAIN schedule :
        /\ \E rows : Whole(i, rows) /\ Prefix(Readable(i), rows)
        /\ i < item => Whole(i, Readable(i))

\* The item at hand and those to come.
AtFrontier ==
    /\ \A i \in DOMAIN schedule : i > item => RowsOf(i) = << >> /\ history[i] = NotLaunched
    /\ pc \in {"start", "item", "wait"} =>
           /\ pending = << >>
           /\ item \in DOMAIN schedule => RowsOf(item) = << >> /\ history[item] = NotLaunched
    /\ pc = "write" => item \in DOMAIN schedule
    /\ item \in DOMAIN schedule =>
           \/ pc # "write" /\ pending = << >> /\ RowsOf(item) = << >>
           \/ Whole(item, Readable(item) \o pending)

\* From there on nothing is written, up to the end of the first run.
Frontier == exits = << >> \/ (pc = "ended" /\ Len(exits) = 1) => AtFrontier

\* The runner is finished with item j, but for writing it down.
Done(j) == j \in DOMAIN schedule /\ (j < item \/ (j = item /\ pc = "write"))

\* What the two flags of the run stand for, and what a launch does.
Standing ==
    /\ ~stop => \A j \in DOMAIN schedule :
           Done(j) /\ schedule[j].entry = "usable" => history[j].launched
    /\ ~stop /\ ~patient => ~anyFailure
    /\ ~anyFailure =>
           /\ \A j \in DOMAIN schedule : Done(j) =>
                  history[j].launched /\ ~history[j].failed /\ AllSucceed(Readable(j))
           /\ AllSucceed(pending)
    /\ pc = "wait" => ~stop /\ item \in DOMAIN schedule /\ schedule[item].entry = "usable"
    /\ pc = "write" /\ ~patient /\ history[item].launched =>
           \A j \in DOMAIN schedule : j < item => AllSucceed(Readable(j))

Flags == exits = << >> => Standing

\* Exit status 0 stands for a whole file of successes.
Passed ==
    exits # << >> /\ exits[1] = 0 =>
        /\ ~Torn
        /\ \A i \in DOMAIN schedule :
               /\ Whole(i, Readable(i)) /\ AllSucceed(Readable(i))
               /\ history[i].launched /\ ~history[i].failed

Inductive ==
    TypeOK /\ OneRun /\ InOrder /\ Filed /\ Frontier /\ Flags /\ Passed

-----------------------------------------------------------------------------
(* Induction over data: the library's rules take a predicate, this one a   *)
(* set.                                                                    *)

\* A set of numbers with 0 and the successor of each of its members has them all.
LEMMA NatSet ==
    ASSUME NEW S, 0 \in S, \A n \in Nat : n \in S => n + 1 \in S
    PROVE  Nat \subseteq S
<1> DEFINE R == OpToRel(<, Nat)
           T == Nat \ S
<1>1. IsWellFoundedOn(R, Nat)
  BY NatLessThanWellFounded
<1>2. \A m, n \in Nat : m < n => <<m, n>> \in R
  BY DEF OpToRel
<1> HIDE DEF R
<1> SUFFICES ASSUME T # {} PROVE FALSE
  OBVIOUS
<1>3. PICK n \in T : \A m \in T : ~ (<<m, n>> \in R)
  BY <1>1, WFMin
<1>4. n # 0 /\ n - 1 \in Nat /\ n - 1 < n
  OBVIOUS
<1>5. n - 1 \in S
  BY <1>2, <1>3, <1>4
<1>6. (n - 1) + 1 \in S
  BY <1>4, <1>5
<1>7. QED
  BY <1>3, <1>6

\* A set of numbers up to n that is not empty has a greatest.
LEMMA Greatest ==
    ASSUME NEW n \in Nat, NEW G, G \subseteq 0 .. n, NEW g \in G
    PROVE  \E m \in G : \A k \in G : k <= m
<1> SUFFICES ASSUME \A m \in G : \E k \in G : k > m PROVE FALSE
  OBVIOUS
<1> DEFINE S == {m \in Nat : \E k \in G : k >= m}
<1>1. 0 \in S
  OBVIOUS
<1>2. \A m \in Nat : m \in S => m + 1 \in S
  OBVIOUS
<1>3. Nat \subseteq S
  <2> HIDE DEF S
  <2> QED
    BY <1>1, <1>2, NatSet
<1>4. n + 1 \in S
  <2> HIDE DEF S
  <2> QED
    BY <1>3
<1>5. QED
  BY <1>4

-----------------------------------------------------------------------------
(* The rows of an item among the lines.                                    *)

\* The body of Taken.
Next1(lines, i, drop, rows, n) ==
    IF n = 0 THEN << >>
    ELSE IF lines[n].item = i /\ lines[n].row \notin drop
         THEN Append(rows[n - 1], lines[n].row)
         ELSE rows[n - 1]

TakenUpTo(lines, i, drop) ==
    CHOOSE rows : rows = [n \in 0 .. Len(lines) |-> Next1(lines, i, drop, rows, n)]

\* The recursion of Taken defines a function.
LEMMA TakenDefined ==
    ASSUME NEW lines, Len(lines) \in Nat, NEW i, NEW drop
    PROVE  /\ TakenUpTo(lines, i, drop) =
                  [n \in 0 .. Len(lines) |->
                      Next1(lines, i, drop, TakenUpTo(lines, i, drop), n)]
           /\ Taken(lines, i, drop) = TakenUpTo(lines, i, drop)[Len(lines)]
<1> DEFINE Body(rows, n) == Next1(lines, i, drop, rows, n)
           S == {m \in Nat : \E rows : rows = [n \in 0 .. m |-> Body(rows, n)]}
<1>1. 0 \in S
  <2>1. [n \in 0 .. 0 |-> << >>] = [n \in 0 .. 0 |-> Body([k \in 0 .. 0 |-> << >>], n)]
    BY DEF Next1
  <2>2. QED
    BY <2>1
<1>2. ASSUME NEW m \in Nat, m \in S PROVE m + 1 \in S
  <2>1. PICK rows : rows = [n \in 0 .. m |-> Body(rows, n)]
    BY <1>2
  <2> DEFINE more == [n \in 0 .. m + 1 |-> Body(rows, n)]
  <2>2. \A n \in 0 .. m : more[n] = rows[n]
    <3>1. \A n \in 0 .. m : rows[n] = Body(rows, n)
      BY <2>1
    <3> HIDE DEF Body
    <3>2. QED
      BY <3>1
  <2>3. \A n \in 0 .. m + 1 : Body(more, n) = Body(rows, n)
    <3> SUFFICES ASSUME NEW n \in 0 .. m + 1 PROVE Body(more, n) = Body(rows, n)
      OBVIOUS
    <3>1. n # 0 => more[n - 1] = rows[n - 1]
      BY <2>2
    <3> HIDE DEF more
    <3>2. QED
      BY <3>1 DEF Next1
  <2>4. more = [n \in 0 .. m + 1 |-> Body(more, n)]
    <3> HIDE DEF Body
    <3> QED
      BY <2>3
  <2>5. \E all : all = [n \in 0 .. m + 1 |-> Body(all, n)]
    <3> HIDE DEF more, Body
    <3> QED
      BY <2>4
  <2>6. QED
    BY <2>5
<1>3. Len(lines) \in S
  <2> HIDE DEF S
  <2> QED
    BY <1>1, <1>2, NatSet
<1>4. \E rows : rows = [n \in 0 .. Len(lines) |-> Next1(lines, i, drop, rows, n)]
  BY <1>3
<1>5. TakenUpTo(lines, i, drop) =
          [n \in 0 .. Len(lines) |-> Next1(lines, i, drop, TakenUpTo(lines, i, drop), n)]
  BY <1>4 DEF TakenUpTo
<1>6. Taken(lines, i, drop) = TakenUpTo(lines, i, drop)[Len(lines)]
  BY DEF Taken, TakenUpTo, Next1
<1>7. QED
  BY <1>5, <1>6

\* No lines, no rows.
LEMMA TakenEmpty ==
    ASSUME NEW i, NEW drop
    PROVE  Taken(<< >>, i, drop) = << >>
<1>1. Len(<< >>) = 0
  OBVIOUS
<1>2. TakenUpTo(<< >>, i, drop)[0] = Next1(<< >>, i, drop, TakenUpTo(<< >>, i, drop), 0)
  BY <1>1, TakenDefined
<1>3. QED
  BY <1>1, <1>2, TakenDefined DEF Next1

\* One more line adds its row to its item and nothing to another.
LEMMA TakenAppend ==
    ASSUME NEW X, NEW lines \in Seq(X), NEW line \in X, NEW i, NEW drop
    PROVE  Taken(Append(lines, line), i, drop) =
               IF line.item = i /\ line.row \notin drop
               THEN Append(Taken(lines, i, drop), line.row)
               ELSE Taken(lines, i, drop)
<1> DEFINE more == Append(lines, line)
           old == TakenUpTo(lines, i, drop)
           new == TakenUpTo(more, i, drop)
           l == Len(lines)
<1>1. /\ l \in Nat /\ Len(more) = l + 1 /\ more[l + 1] = line
      /\ \A n \in 1 .. l : more[n] = lines[n]
  OBVIOUS
<1>2. /\ \A n \in 0 .. l : old[n] = Next1(lines, i, drop, old, n)
      /\ Taken(lines, i, drop) = old[l]
  BY <1>1, TakenDefined
<1>3. /\ \A n \in 0 .. l + 1 : new[n] = Next1(more, i, drop, new, n)
      /\ Taken(more, i, drop) = new[l + 1]
  <2> HIDE DEF more, l
  <2>1. Len(more) \in Nat /\ Len(more) = l + 1
    BY <1>1
  <2>2. new = [n \in 0 .. l + 1 |-> Next1(more, i, drop, new, n)] /\ Taken(more, i, drop) = new[l + 1]
    BY <2>1, TakenDefined
  <2> HIDE DEF new
  <2>3. QED
    BY <2>2
<1> DEFINE S == {n \in Nat : n <= l => new[n] = old[n]}
<1> HIDE DEF old, new, more
<1>4. 0 \in S
  BY <1>1, <1>2, <1>3 DEF Next1
<1>5. ASSUME NEW n \in Nat, n \in S PROVE n + 1 \in S
  <2> SUFFICES ASSUME n + 1 <= l PROVE new[n + 1] = old[n + 1]
    OBVIOUS
  <2>1. new[n] = old[n] /\ more[n + 1] = lines[n + 1] /\ (n + 1) - 1 = n
    BY <1>1, <1>5
  <2>2. new[n + 1] = Next1(more, i, drop, new, n + 1) /\ old[n + 1] = Next1(lines, i, drop, old, n + 1)
    BY <1>1, <1>2, <1>3
  <2>3. QED
    BY <2>1, <2>2 DEF Next1
<1>6. new[l] = old[l]
  <2>1. Nat \subseteq S
    <3> HIDE DEF S
    <3> QED
      BY <1>4, <1>5, NatSet
  <2>2. QED
    BY <1>1, <2>1
<1>7. new[l + 1] = Next1(more, i, drop, new, l + 1) /\ (l + 1) - 1 = l
  BY <1>1, <1>3
<1>8. Taken(more, i, drop) = IF line.item = i /\ line.row \notin drop
                             THEN Append(Taken(lines, i, drop), line.row)
                             ELSE Taken(lines, i, drop)
  BY <1>1, <1>2, <1>3, <1>6, <1>7 DEF Next1
<1>9. QED
  BY <1>8 DEF more

\* The rows are those of the lines of the item, and of no other line.
Drawn(rows, X, lines, i, drop) ==
    /\ rows \in Seq(X)
    /\ \A m \in DOMAIN rows : \E k \in DOMAIN lines :
           lines[k].item = i /\ lines[k].row = rows[m] /\ lines[k].row \notin drop
    /\ \A k \in DOMAIN lines : lines[k].item = i /\ lines[k].row \notin drop =>
           \E m \in DOMAIN rows : rows[m] = lines[k].row

\* What is taken from lines is what they have of the item.
LEMMA TakenRows ==
    ASSUME NEW X, NEW lines \in Seq([item : Nat, row : X]), NEW i, NEW drop
    PROVE  Drawn(Taken(lines, i, drop), X, lines, i, drop)
<1> DEFINE rows == TakenUpTo(lines, i, drop)
           l == Len(lines)
           Mine(k) == lines[k].item = i /\ lines[k].row \notin drop
           Fits(n) == /\ rows[n] \in Seq(X)
                      /\ \A m \in DOMAIN rows[n] : \E k \in 1 .. n :
                             Mine(k) /\ lines[k].row = rows[n][m]
                      /\ \A k \in 1 .. n : Mine(k) =>
                             \E m \in DOMAIN rows[n] : rows[n][m] = lines[k].row
           S == {n \in Nat : n <= l => Fits(n)}
<1>1. l \in Nat /\ DOMAIN lines = 1 .. l /\ \A k \in 1 .. l : lines[k].row \in X
  <2>1. l \in Nat /\ DOMAIN lines = 1 .. l /\ \A k \in 1 .. l : lines[k] \in [item : Nat, row : X]
    <3>1. PICK Y : Y = [item : Nat, row : X]
      OBVIOUS
    <3>2. lines \in Seq(Y)
      BY <3>1
    <3>3. l \in Nat /\ DOMAIN lines = 1 .. l /\ \A k \in 1 .. l : lines[k] \in Y
      BY <3>2
    <3> HIDE DEF l
    <3>4. QED
      BY <3>1, <3>3
  <2> HIDE DEF l
  <2>2. QED
    BY <2>1
<1>2. /\ \A n \in 0 .. l : rows[n] = Next1(lines, i, drop, rows, n)
      /\ Taken(lines, i, drop) = rows[l]
  <2>1. rows = [n \in 0 .. l |-> Next1(lines, i, drop, rows, n)] /\ Taken(lines, i, drop) = rows[l]
    BY <1>1, TakenDefined
  <2> HIDE DEF rows
  <2>2. QED
    BY <2>1
<1> HIDE DEF rows, l
<1>3. 0 \in S
  <2>1. rows[0] = << >>
    BY <1>1, <1>2 DEF Next1
  <2>2. << >> \in Seq(X) /\ DOMAIN << >> = {} /\ 1 .. 0 = {}
    OBVIOUS
  <2>3. Fits(0)
    <3> HIDE DEF Mine
    <3> QED
      BY <2>1, <2>2
  <2>4. QED
    BY <2>3
<1>4. ASSUME NEW n \in Nat, n \in S PROVE n + 1 \in S
  <2> SUFFICES ASSUME n + 1 <= l PROVE Fits(n + 1)
    OBVIOUS
  <2>1. Fits(n)
    BY <1>1, <1>4
  <2>2. rows[n + 1] = IF Mine(n + 1) THEN Append(rows[n], lines[n + 1].row) ELSE rows[n]
    BY <1>1, <1>2 DEF Next1
  <2>3. CASE ~Mine(n + 1)
    <3>1. rows[n + 1] = rows[n]
      BY <2>2, <2>3
    <3>2. \A k \in 1 .. n + 1 : Mine(k) => k \in 1 .. n
      BY <2>3
    <3>3. \A k \in 1 .. n : k \in 1 .. n + 1
      OBVIOUS
    <3> HIDE DEF Mine
    <3>4. QED
      BY <2>1, <3>1, <3>2, <3>3
  <2>4. CASE Mine(n + 1)
    <3>1. PICK x \in X : x = lines[n + 1].row
      BY <1>1
    <3>2. PICK all \in Seq(X) : all = rows[n]
      BY <2>1
    <3>3. rows[n + 1] = Append(all, x)
      BY <2>2, <2>4, <3>1, <3>2
    <3>4. /\ Append(all, x) \in Seq(X) /\ DOMAIN Append(all, x) = 1 .. Len(all) + 1
          /\ Append(all, x)[Len(all) + 1] = x /\ Len(all) \in Nat
          /\ DOMAIN all = 1 .. Len(all)
          /\ \A m \in DOMAIN all : Append(all, x)[m] = all[m]
      OBVIOUS
    <3>5. PICK more : more = Append(all, x)
      OBVIOUS
    <3> HIDE DEF Mine
    <3>6. \A m \in DOMAIN more : \E k \in 1 .. n + 1 : Mine(k) /\ lines[k].row = more[m]
      <4> SUFFICES ASSUME NEW m \in DOMAIN more
                   PROVE  \E k \in 1 .. n + 1 : Mine(k) /\ lines[k].row = more[m]
        OBVIOUS
      <4>1. CASE m = Len(all) + 1
        BY <2>4, <3>1, <3>4, <3>5, <4>1
      <4>2. CASE m \in DOMAIN all
        BY <2>1, <3>2, <3>4, <3>5, <4>2
      <4>3. QED
        BY <3>4, <3>5, <4>1, <4>2
    <3>7. \A k \in 1 .. n + 1 : Mine(k) => \E m \in DOMAIN more : more[m] = lines[k].row
      <4> SUFFICES ASSUME NEW k \in 1 .. n + 1, Mine(k)
                   PROVE  \E m \in DOMAIN more : more[m] = lines[k].row
        OBVIOUS
      <4>1. CASE k = n + 1
        BY <3>1, <3>4, <3>5, <4>1
      <4>2. CASE k \in 1 .. n
        <5>1. PICK m \in DOMAIN all : all[m] = lines[k].row
          BY <2>1, <3>2, <4>2
        <5>2. QED
          BY <3>4, <3>5, <5>1
      <4>3. QED
        BY <4>1, <4>2
    <3>8. rows[n + 1] = more /\ more \in Seq(X)
      BY <3>3, <3>4, <3>5
    <3>9. QED
      BY <3>6, <3>7, <3>8
  <2>5. QED
    BY <2>3, <2>4
<1>5. Fits(l)
  <2>1. Nat \subseteq S
    <3> HIDE DEF S
    <3> QED
      BY <1>3, <1>4, NatSet
  <2>2. QED
    BY <1>1, <2>1
<1>6. PICK all : all = Taken(lines, i, drop) /\ all = rows[l]
  BY <1>2
<1>7. /\ all \in Seq(X)
      /\ \A m \in DOMAIN all : \E k \in 1 .. l : Mine(k) /\ lines[k].row = all[m]
      /\ \A k \in 1 .. l : Mine(k) => \E m \in DOMAIN all : all[m] = lines[k].row
  <2> HIDE DEF Mine
  <2> QED
    BY <1>5, <1>6
<1>8. /\ \A m \in DOMAIN all : \E k \in DOMAIN lines :
             lines[k].item = i /\ lines[k].row = all[m] /\ lines[k].row \notin drop
      /\ \A k \in DOMAIN lines : lines[k].item = i /\ lines[k].row \notin drop =>
             \E m \in DOMAIN all : all[m] = lines[k].row
  BY <1>1, <1>7
<1>9. QED
  BY <1>6, <1>7, <1>8 DEF Drawn

\* What occurs in no line of the item may as well be kept.
LEMMA TakenUndropped ==
    ASSUME NEW X, NEW lines \in Seq([item : Nat, row : X]), NEW i, NEW drop,
           \A k \in DOMAIN lines : lines[k].item = i => lines[k].row \notin drop
    PROVE  Taken(lines, i, drop) = Taken(lines, i, {})
<1> DEFINE some == TakenUpTo(lines, i, drop)
           all == TakenUpTo(lines, i, {})
           l == Len(lines)
           S == {n \in Nat : n <= l => some[n] = all[n]}
<1>1. l \in Nat /\ DOMAIN lines = 1 .. l
  OBVIOUS
<1>2. /\ \A n \in 0 .. l : some[n] = Next1(lines, i, drop, some, n)
      /\ Taken(lines, i, drop) = some[l]
  <2>1. some = [n \in 0 .. l |-> Next1(lines, i, drop, some, n)] /\ Taken(lines, i, drop) = some[l]
    BY <1>1, TakenDefined
  <2> HIDE DEF some
  <2>2. QED
    BY <2>1
<1>3. /\ \A n \in 0 .. l : all[n] = Next1(lines, i, {}, all, n)
      /\ Taken(lines, i, {}) = all[l]
  <2>1. all = [n \in 0 .. l |-> Next1(lines, i, {}, all, n)] /\ Taken(lines, i, {}) = all[l]
    BY <1>1, TakenDefined
  <2> HIDE DEF all
  <2>2. QED
    BY <2>1
<1> HIDE DEF some, all, l
<1>4. 0 \in S
  BY <1>1, <1>2, <1>3 DEF Next1
<1>5. ASSUME NEW n \in Nat, n \in S PROVE n + 1 \in S
  <2> SUFFICES ASSUME n + 1 <= l PROVE some[n + 1] = all[n + 1]
    OBVIOUS
  <2>1. some[n] = all[n] /\ (n + 1) - 1 = n /\ n + 1 \in DOMAIN lines
    BY <1>1, <1>5
  <2>2. some[n + 1] = Next1(lines, i, drop, some, n + 1) /\ all[n + 1] = Next1(lines, i, {}, all, n + 1)
    BY <1>1, <1>2, <1>3
  <2>3. QED
    BY <2>1, <2>2 DEF Next1
<1>6. Nat \subseteq S
  <2> HIDE DEF S
  <2> QED
    BY <1>4, <1>5, NatSet
<1>7. QED
  BY <1>1, <1>2, <1>3, <1>6

-----------------------------------------------------------------------------
(* What the runner makes of an output.                                     *)

Output == Seq(Rows \cup {Junk})

\* The first n rows are the benchmark's own, the next one is a failure the runner
\* reports and the rest are skips.
MadeFrom(o, trials, rows, n, origin) ==
    /\ n \in 0 .. Len(o) /\ n <= trials
    /\ \A k \in 1 .. n : Acceptable(o, k, trials)
    /\ n < Len(o) => ~Acceptable(o, n + 1, trials)
    /\ rows \in Seq(Rows) /\ Len(rows) = trials
    /\ \A k \in 1 .. n : rows[k] = o[k]
    /\ n < trials => rows[n + 1] = Failure(n, origin)
    /\ \A k \in 1 .. trials : k > n + 1 => rows[k] = Skip(k - 1, "prior-failure")

\* Rows of the two kinds the runner makes are rows.
LEMMA RowsMade ==
    ASSUME NEW t \in Nat
    PROVE  /\ \A o \in UnstartedOrigins : Skip(t, o) \in Rows /\ ValidRow(Skip(t, o))
           /\ \A o \in StartedOrigins : Failure(t, o) \in Rows /\ ValidRow(Failure(t, o))
           /\ Success(t) \in Rows
           /\ Junk \notin Rows /\ ~ValidRow(Junk)
BY DEF Skip, Failure, Success, Rows, ValidRow, Junk, UnstartedOrigins, StartedOrigins, None

\* The rows taken are the leading acceptable lines, as many as there are.
LEMMA AcceptedIs ==
    ASSUME NEW o \in Output, NEW trials \in Nat
    PROVE  \E n \in 0 .. Len(o) :
               /\ n <= trials
               /\ \A k \in 1 .. n : Acceptable(o, k, trials)
               /\ n < Len(o) => ~Acceptable(o, n + 1, trials)
               /\ Accepted(o, trials) \in Seq(Rows) /\ Len(Accepted(o, trials)) = n
               /\ \A k \in 1 .. n : Accepted(o, trials)[k] = o[k]
<1> DEFINE good == {n \in 0 .. Len(o) : \A k \in 1 .. n : Acceptable(o, k, trials)}
           n == CHOOSE n \in good : \A m \in good : m <= n
<1>1. Len(o) \in Nat /\ \A k \in 1 .. Len(o) : o[k] \in Rows \cup {Junk}
  BY DEF Output
<1>2. \E m \in good : \A k \in good : k <= m
  <2>1. 0 \in good
    BY <1>1
  <2>2. good \subseteq 0 .. Len(o)
    OBVIOUS
  <2> HIDE DEF good
  <2>3. QED
    BY <1>1, <2>1, <2>2, Greatest
<1>3. n \in good /\ \A m \in good : m <= n
  <2> HIDE DEF good
  <2> QED
    BY <1>2
<1>4. Accepted(o, trials) = SubSeq(o, 1, n)
  BY DEF Accepted
<1> HIDE DEF n
<1>5. n \in 0 .. Len(o) /\ \A k \in 1 .. n : Acceptable(o, k, trials)
  BY <1>3
<1>6. n < Len(o) => ~Acceptable(o, n + 1, trials)
  <2> SUFFICES ASSUME n < Len(o), Acceptable(o, n + 1, trials) PROVE FALSE
    OBVIOUS
  <2>1. n + 1 \in good
    <3>1. n + 1 \in 0 .. Len(o)
      BY <1>1, <1>5
    <3>2. \A k \in 1 .. n + 1 : k \in 1 .. n \/ k = n + 1
      BY <1>5
    <3>3. QED
      BY <1>5, <3>1, <3>2
  <2> HIDE DEF good
  <2>2. QED
    BY <1>3, <1>5, <2>1
<1>7. n <= trials
  <2>1. n # 0 => Acceptable(o, n, trials)
    BY <1>5
  <2>2. n # 0 => n <= trials
    BY <2>1 DEF Acceptable
  <2>3. QED
    BY <2>2
<1>8. \A k \in 1 .. n : o[k] \in Rows
  <2>1. \A k \in 1 .. n : ValidRow(o[k]) /\ o[k] \in Rows \cup {Junk}
    BY <1>1, <1>5 DEF Acceptable
  <2>2. QED
    BY <2>1 DEF ValidRow, Junk
<1> HIDE DEF good
<1>9. /\ SubSeq(o, 1, n) \in Seq(Rows) /\ Len(SubSeq(o, 1, n)) = n
      /\ \A k \in 1 .. n : SubSeq(o, 1, n)[k] = o[k]
  <2>1. o \in Seq(Rows \cup {Junk}) /\ n \in 0 .. Len(o)
    BY <1>5 DEF Output
  <2>2. SubSeq(o, 1, n) = [k \in 1 .. n |-> o[k]]
    BY <2>1
  <2>3. QED
    BY <1>1, <1>5, <1>8, <2>2
<1>10. QED
  BY <1>4, <1>5, <1>6, <1>7, <1>9

\* What is made of an output is one row per trial.
LEMMA MadeIs ==
    ASSUME NEW o \in Output, NEW trials \in Nat \ {0}, NEW form, NEW abnormal
    PROVE  \E n, origin : /\ origin \in {"subprocess", "output-validation"}
                          /\ MadeFrom(o, trials, Materialized(o, trials, form, abnormal), n, origin)
<1>1. PICK n \in 0 .. Len(o) :
          /\ n <= trials
          /\ \A k \in 1 .. n : Acceptable(o, k, trials)
          /\ n < Len(o) => ~Acceptable(o, n + 1, trials)
          /\ Accepted(o, trials) \in Seq(Rows) /\ Len(Accepted(o, trials)) = n
          /\ \A k \in 1 .. n : Accepted(o, trials)[k] = o[k]
  BY AcceptedIs
<1>2. PICK taken \in Seq(Rows) : taken = Accepted(o, trials)
  BY <1>1
<1>3. PICK origin \in {"subprocess", "output-validation"} :
          origin = SyntheticOrigin(o, trials, form, abnormal)
  BY DEF SyntheticOrigin
<1>4. PICK rest : rest = Synthetic(n, trials, origin)
  OBVIOUS
<1>5. n \in Nat /\ trials - n \in Nat /\ Len(taken) = n
  BY <1>1, <1>2 DEF Output
<1>6. \A k \in 1 .. trials - n :
          /\ rest[k] \in Rows
          /\ rest[k] = IF k = 1 THEN Failure(n, origin) ELSE Skip(n + k - 1, "prior-failure")
  <2> SUFFICES ASSUME NEW k \in 1 .. trials - n
               PROVE  /\ rest[k] \in Rows
                      /\ rest[k] = IF k = 1 THEN Failure(n, origin)
                                            ELSE Skip(n + k - 1, "prior-failure")
    OBVIOUS
  <2>1. rest[k] = IF k = 1 THEN Failure(n, origin) ELSE Skip(n + k - 1, "prior-failure")
    BY <1>4, <1>5 DEF Synthetic
  <2>2. n \in Nat /\ n + k - 1 \in Nat
    BY <1>5
  <2>3. QED
    BY <2>1, <2>2, RowsMade DEF StartedOrigins, UnstartedOrigins
<1>7. rest \in Seq(Rows) /\ Len(rest) = trials - n
  <2>1. rest = [k \in 1 .. trials - n |-> rest[k]]
    BY <1>4 DEF Synthetic
  <2>2. rest \in [1 .. trials - n -> Rows]
    BY <1>6, <2>1
  <2>3. QED
    BY <1>5, <2>2
<1>8. Materialized(o, trials, form, abnormal) = taken \o rest
  BY <1>1, <1>2, <1>3, <1>4 DEF Materialized
<1>9. PICK rows : rows = taken \o rest
  OBVIOUS
<1>10. /\ rows \in Seq(Rows) /\ Len(rows) = trials
       /\ \A k \in 1 .. n : rows[k] = taken[k]
       /\ \A k \in 1 .. trials : k > n => rows[k] = rest[k - n]
  BY <1>5, <1>7, <1>9
<1>11. \A k \in 1 .. n : rows[k] = o[k]
  BY <1>1, <1>2, <1>10
<1>12. n < trials => rows[n + 1] = Failure(n, origin)
  <2> SUFFICES ASSUME n < trials PROVE rows[n + 1] = Failure(n, origin)
    OBVIOUS
  <2>1. n + 1 \in 1 .. trials /\ n + 1 > n /\ (n + 1) - n = 1 /\ 1 \in 1 .. trials - n
    BY <1>5
  <2>2. rows[n + 1] = rest[1]
    BY <1>10, <2>1
  <2>3. QED
    BY <1>6, <2>1, <2>2
<1>13. \A k \in 1 .. trials : k > n + 1 => rows[k] = Skip(k - 1, "prior-failure")
  <2> SUFFICES ASSUME NEW k \in 1 .. trials, k > n + 1
               PROVE  rows[k] = Skip(k - 1, "prior-failure")
    OBVIOUS
  <2>1. k - n \in 1 .. trials - n /\ k - n # 1 /\ n + (k - n) - 1 = k - 1 /\ k > n
    BY <1>5
  <2>2. rows[k] = rest[k - n]
    BY <1>10, <2>1
  <2>3. rest[k - n] = Skip(n + (k - n) - 1, "prior-failure")
    BY <1>6, <2>1
  <2>4. QED
    BY <2>1, <2>2, <2>3
<1>14. MadeFrom(o, trials, rows, n, origin)
  BY <1>1, <1>10, <1>11, <1>12, <1>13 DEF MadeFrom
<1>15. QED
  BY <1>8, <1>9, <1>14

\* Rows made from an output are valid, one for each trial in order, and a started one
\* the runner reports has only skips behind it.
LEMMA MadeValid ==
    ASSUME NEW o \in Output, NEW trials \in Nat \ {0}, NEW rows, NEW n,
           NEW origin \in {"subprocess", "output-validation"},
           MadeFrom(o, trials, rows, n, origin), NEW k \in 1 .. trials
    PROVE  rows[k].trial = k - 1 /\ ValidRow(rows[k])
<1>1. n \in Nat
  BY DEF MadeFrom, Output
<1>2. CASE k <= n
  <2>1. Acceptable(o, k, trials) /\ rows[k] = o[k]
    BY <1>1, <1>2 DEF MadeFrom
  <2>2. QED
    BY <2>1 DEF Acceptable
<1>3. CASE k = n + 1
  <2>1. rows[k] = Failure(n, origin) /\ k - 1 = n
    BY <1>1, <1>3 DEF MadeFrom
  <2>2. ValidRow(Failure(n, origin))
    BY <1>1, RowsMade DEF StartedOrigins
  <2>3. Failure(n, origin).trial = n
    BY DEF Failure
  <2>4. QED
    BY <2>1, <2>2, <2>3
<1>4. CASE k > n + 1
  <2>1. rows[k] = Skip(k - 1, "prior-failure") /\ k - 1 \in Nat
    BY <1>1, <1>4 DEF MadeFrom
  <2>2. ValidRow(Skip(k - 1, "prior-failure"))
    BY <2>1, RowsMade DEF UnstartedOrigins
  <2>3. Skip(k - 1, "prior-failure").trial = k - 1
    BY DEF Skip
  <2>4. QED
    BY <2>1, <2>2, <2>3
<1>5. QED
  BY <1>1, <1>2, <1>3, <1>4

\* The skips of an item without a benchmark, likewise.
LEMMA SkippedIs ==
    ASSUME NEW trials \in Nat \ {0}, NEW origin \in UnstartedOrigins
    PROVE  /\ AllSkipped(trials, origin) \in Seq(Rows)
           /\ Len(AllSkipped(trials, origin)) = trials
           /\ \A k \in 1 .. trials :
                 /\ AllSkipped(trials, origin)[k] = Skip(k - 1, origin)
                 /\ ValidRow(Skip(k - 1, origin)) /\ Skip(k - 1, origin).trial = k - 1
                 /\ ~Fatal(Skip(k - 1, origin)) /\ ~Skip(k - 1, origin).attempted
                 /\ Skip(k - 1, origin).status = "skipped" /\ Skip(k - 1, origin).origin = origin
<1>1. \A k \in 1 .. trials : Skip(k - 1, origin) \in Rows /\ ValidRow(Skip(k - 1, origin))
  BY RowsMade
<1>2. AllSkipped(trials, origin) \in [1 .. trials -> Rows]
  BY <1>1 DEF AllSkipped
<1>3. \A k \in 1 .. trials : AllSkipped(trials, origin)[k] = Skip(k - 1, origin)
  BY DEF AllSkipped
<1>4. QED
  BY <1>1, <1>2, <1>3 DEF Skip, Fatal

-----------------------------------------------------------------------------
(* Types.                                                                  *)

\* What is known of the campaign of a run.
LEMMA CampaignFacts ==
    ASSUME TypeOK
    PROVE  /\ schedule \in Seq(Items) /\ Len(schedule) \in Nat
           /\ DOMAIN schedule = 1 .. Len(schedule)
           /\ patient \in BOOLEAN /\ campaign.strays \subseteq Rows \cup {Junk}
           /\ \A i \in DOMAIN schedule :
                 /\ Trials(i) \in Nat \ {0}
                 /\ history[i].out \in Output
                 /\ history[i].launched \in BOOLEAN
<1>1. schedule \in Seq(Items) /\ patient \in BOOLEAN /\ campaign.strays \subseteq Rows \cup {Junk}
  BY RunnerAssumption DEF TypeOK, schedule, patient
<1>2. PICK all \in Seq(Items) : all = schedule
  BY <1>1
<1>3. Len(all) \in Nat /\ DOMAIN all = 1 .. Len(all) /\ \A i \in DOMAIN all : all[i] \in Items
  OBVIOUS
<1>4. \A i \in DOMAIN all : all[i].trials \in Nat \ {0}
  BY <1>3 DEF Items
<1>5. \A i \in DOMAIN schedule :
          history[i] \in [launched : BOOLEAN, out : Seq(Rows \cup {Junk}), failed : BOOLEAN]
  BY DEF TypeOK
<1>6. QED
  BY <1>1, <1>2, <1>3, <1>4, <1>5 DEF Trials, Output

\* What the benchmark writes is a row or a line that is none.
LEMMA ChildType ==
    ASSUME TypeOK, ChildStep \/ StrayStep
    PROVE  TypeOK'
<1>1. /\ UNCHANGED <<campaign, pc, item, pending, anyFailure, stop, file, exists, exits, history>>
      /\ UNCHANGED schedule
  BY DEF ChildStep, StrayStep, schedule
<1>2. /\ child \in [pc : {"none", "setup", "trials", "unmeasured", "exited"}, trial : Nat,
                    failed : BOOLEAN, origin : {None, "prerequisite", "benchmark", "prior-failure"}]
      /\ child.trial \in Nat
  BY DEF TypeOK
<1> DEFINE Child == [pc : {"none", "setup", "trials", "unmeasured", "exited"}, trial : Nat,
                     failed : BOOLEAN, origin : {None, "prerequisite", "benchmark", "prior-failure"}]
<1>3. child' \in Child /\ out' \in Output
  <2>1. out \in Output
    BY DEF TypeOK, Output
  <2>2. ASSUME NEW line \in Rows \cup {Junk}, Put(<<line>>) PROVE out' \in Output
    BY <2>1, <2>2 DEF Put, Output
  <2>3. CASE ChildRejects
    BY <1>2, <2>1, <2>3 DEF ChildRejects
  <2>4. ASSUME NEW origin \in {"prerequisite", "benchmark"}, ChildCannotMeasure(origin)
        PROVE  child' \in Child /\ out' \in Output
    BY <1>2, <2>1, <2>4 DEF ChildCannotMeasure
  <2>5. CASE ChildSetsUp
    BY <1>2, <2>1, <2>5 DEF ChildSetsUp
  <2>6. CASE ChildEmitsUnmeasured
    <3>0. child' \in Child
      <4>1. child' = [child EXCEPT !.trial = child.trial + 1, !.origin = "prior-failure"]
        BY <2>6 DEF ChildEmitsUnmeasured
      <4>2. child.trial + 1 \in Nat
        BY <1>2
      <4>3. QED
        BY <1>2, <4>1, <4>2
    <3>1. PICK line : line = IF child.origin \in UnstartedOrigins
                             THEN Skip(child.trial, child.origin)
                             ELSE Failure(child.trial, child.origin)
      OBVIOUS
    <3>2. CASE child.origin = None
      <4>1. line = Failure(child.trial, None)
        BY <3>1, <3>2 DEF UnstartedOrigins, None
      <4>2. line \in Rows
        BY <1>2, <4>1 DEF Failure, Rows
      <4>3. QED
        BY <2>2, <2>6, <3>0, <3>1, <4>2 DEF ChildEmitsUnmeasured
    <3>3. CASE child.origin \in {"prerequisite", "benchmark", "prior-failure"}
      <4>1. line \in Rows
        BY <1>2, <3>1, <3>3, RowsMade DEF UnstartedOrigins, StartedOrigins
      <4>2. QED
        BY <2>2, <2>6, <3>0, <3>1, <4>1 DEF ChildEmitsUnmeasured
    <3>4. QED
      BY <1>2, <3>2, <3>3
  <2>7. ASSUME NEW pass \in BOOLEAN, ChildMeasures(pass) PROVE child' \in Child /\ out' \in Output
    <3>1. PICK line : line = IF pass THEN Success(child.trial) ELSE Failure(child.trial, "verification")
      OBVIOUS
    <3>2. line \in Rows
      BY <1>2, <3>1, RowsMade DEF StartedOrigins
    <3>3. Put(<<line>>)
      BY <2>7, <3>1 DEF ChildMeasures
    <3>4. child' \in Child
      <4>1. PICK f \in BOOLEAN : f = (child.failed \/ ~pass)
        BY <1>2
      <4>2. child' = [child EXCEPT !.trial = child.trial + 1, !.failed = f]
        BY <2>7, <4>1 DEF ChildMeasures
      <4>3. child.trial + 1 \in Nat
        BY <1>2
      <4>4. QED
        BY <1>2, <4>2, <4>3
    <3>5. QED
      BY <2>2, <3>2, <3>3, <3>4
  <2>8. CASE ChildBreaks
    <3>1. Failure(child.trial, "benchmark") \in Rows
      BY <1>2, RowsMade DEF StartedOrigins
    <3>2. Put(<<Failure(child.trial, "benchmark")>>)
      BY <2>8 DEF ChildBreaks
    <3>3. child' \in Child
      BY <1>2, <2>8 DEF ChildBreaks
    <3>4. QED
      BY <2>2, <3>1, <3>2, <3>3
  <2>9. CASE ChildReturns
    BY <1>2, <2>1, <2>9 DEF ChildReturns
  <2>10. CASE ChildDies
    <3>1. child' \in Child
      BY <1>2, <2>10 DEF ChildDies
    <3>2. Put(<< >>) \/ Put(<<Junk>>)
      BY <2>10 DEF ChildDies
    <3>3. Put(<< >>) => out' \in Output
      BY <2>1 DEF Put, Output
    <3>4. QED
      BY <2>2, <3>1, <3>2, <3>3
  <2>11. CASE ChildStrays
    <3>1. PICK line \in campaign.strays : Put(<<line>>)
      BY <2>11 DEF ChildStrays
    <3>2. line \in Rows \cup {Junk}
      BY <3>1, CampaignFacts
    <3>3. QED
      BY <1>2, <2>2, <2>11, <3>1, <3>2 DEF ChildStrays
  <2>12. QED
    BY <2>3, <2>4, <2>5, <2>6, <2>7, <2>8, <2>9, <2>10, <2>11 DEF ChildStep, StrayStep
<1>4. QED
  BY <1>1, <1>3 DEF TypeOK, Output, schedule

\* What the runner is about to write are rows.
LEMMA PendingType ==
    ASSUME TypeOK, NEW i \in DOMAIN schedule
    PROVE  /\ \A origin \in UnstartedOrigins : AllSkipped(Trials(i), origin) \in Seq(Rows)
           /\ \A abnormal \in BOOLEAN :
                  Materialized(out, Trials(i), format, abnormal) \in Seq(Rows)
<1>1. Trials(i) \in Nat \ {0} /\ out \in Output
  BY CampaignFacts DEF TypeOK, Output
<1>2. ASSUME NEW abnormal \in BOOLEAN
      PROVE  Materialized(out, Trials(i), format, abnormal) \in Seq(Rows)
  BY <1>1, MadeIs DEF MadeFrom
<1>3. QED
  BY <1>1, <1>2, SkippedIs

\* No step of the runner, no mishap and no other run spoils the types.
LEMMA RunnerType ==
    ASSUME TypeOK, pc = "wait" => item \in DOMAIN schedule,
           pc = "write" => item \in DOMAIN schedule,
           RunnerStep \/ Mishap \/ Kill \/ Rerun
    PROVE  TypeOK'
<1>1. UNCHANGED <<campaign, schedule>>
  BY DEF RunnerStep, Mishap, Open, OpenRefused, SkipItem, RefuseItem, Launch, Collect, WriteRow,
         NextItem, Finish, LaunchFails, Undecodable, WriteFails, Kill, Rerun, schedule
<1>2. campaign' \in Campaigns
  BY <1>1 DEF TypeOK
<1>3. pc' \in {"start", "item", "wait", "write", "ended"} /\ exists' \in BOOLEAN
  BY DEF RunnerStep, Mishap, Open, OpenRefused, SkipItem, RefuseItem, Launch, Collect, WriteRow,
         NextItem, Finish, LaunchFails, Undecodable, WriteFails, Kill, Rerun, TypeOK, End
<1>4. item \in 1 .. Len(schedule) + 1 /\ Len(schedule) \in Nat /\ DOMAIN schedule = 1 .. Len(schedule)
  BY CampaignFacts DEF TypeOK
<1>5. item' \in 1 .. Len(schedule) + 1
  <2>1. item' = item \/ item' = 1 \/ (item' = item + 1 /\ pc = "write")
    BY DEF RunnerStep, Mishap, Open, OpenRefused, SkipItem, RefuseItem, Launch, Collect, WriteRow,
         NextItem, Finish, LaunchFails, Undecodable, WriteFails, Kill, Rerun
  <2>2. QED
    BY <1>4, <2>1
<1>6. exits' \in Seq({0, 1, Killed})
  <2>1. ASSUME NEW status \in {0, 1, Killed}, End(status) PROVE exits' \in Seq({0, 1, Killed})
    BY <2>1 DEF End, TypeOK
  <2>2. UNCHANGED exits \/ End(0) \/ End(1) \/ End(Killed)
    BY DEF RunnerStep, Mishap, Open, OpenRefused, SkipItem, RefuseItem, Launch, Collect, WriteRow,
         NextItem, Finish, LaunchFails, Undecodable, WriteFails, Kill, Rerun
  <2>3. QED
    BY <2>1, <2>2 DEF TypeOK
<1>7. history' \in [DOMAIN schedule ->
                        [launched : BOOLEAN, out : Seq(Rows \cup {Junk}), failed : BOOLEAN]]
  <2>1. CASE Remember
    <3>1. child.failed \in BOOLEAN /\ out \in Seq(Rows \cup {Junk})
      BY DEF TypeOK
    <3>2. QED
      BY <2>1, <3>1 DEF Remember, TypeOK
  <2>2. UNCHANGED history \/ Remember
    BY DEF RunnerStep, Mishap, Open, OpenRefused, SkipItem, RefuseItem, Launch, Collect, WriteRow,
         NextItem, Finish, LaunchFails, Undecodable, WriteFails, Kill, Rerun
  <2>3. QED
    BY <2>1, <2>2 DEF TypeOK
<1>8. /\ child' \in [pc : {"none", "setup", "trials", "unmeasured", "exited"}, trial : Nat,
                     failed : BOOLEAN, origin : {None, "prerequisite", "benchmark", "prior-failure"}]
      /\ out' \in Seq(Rows \cup {Junk})
  <2>1. /\ UNCHANGED child \/ child' = NoChild \/ child' = [NoChild EXCEPT !.pc = "setup"]
        /\ UNCHANGED out \/ out' = << >>
    BY DEF RunnerStep, Mishap, Open, OpenRefused, SkipItem, RefuseItem, Launch, Collect, WriteRow,
         NextItem, Finish, LaunchFails, Undecodable, WriteFails, Kill, Rerun
  <2>2. << >> \in Seq(Rows \cup {Junk})
    OBVIOUS
  <2>3. out' \in Seq(Rows \cup {Junk})
    BY <2>1, <2>2 DEF TypeOK
  <2> DEFINE Child == [pc : {"none", "setup", "trials", "unmeasured", "exited"}, trial : Nat,
                       failed : BOOLEAN,
                       origin : {None, "prerequisite", "benchmark", "prior-failure"}]
  <2>4. child \in Child
    BY DEF TypeOK
  <2>5. NoChild \in Child /\ [NoChild EXCEPT !.pc = "setup"] \in Child
    BY DEF NoChild
  <2>6. child' \in Child
    <3> HIDE DEF Child
    <3> QED
      BY <2>1, <2>4, <2>5
  <2>7. QED
    BY <2>3, <2>6
<1>9. anyFailure' \in BOOLEAN /\ stop' \in BOOLEAN
  <2>1. CASE Collect
    <3>1. child.failed \in BOOLEAN
      BY DEF TypeOK
    <3>2. FailedNow \in BOOLEAN
      BY <3>1 DEF FailedNow, Contaminated
    <3>3. anyFailure' \in BOOLEAN
      BY <2>1, <3>2 DEF Collect, TypeOK
    <3>4. QED
      BY <2>1, <3>3, CampaignFacts DEF Collect, TypeOK
  <2>2. CASE ~Collect
    <3>1. /\ anyFailure' \in {anyFailure, TRUE, FALSE}
          /\ stop' \in {stop, stop \/ ~patient, TRUE, FALSE}
      BY <2>2 DEF RunnerStep, Mishap, Open, OpenRefused, SkipItem, RefuseItem, Launch, WriteRow,
         NextItem, Finish, LaunchFails, Undecodable, WriteFails, Kill, Rerun
    <3>2. QED
      BY <3>1, CampaignFacts DEF TypeOK
  <2>3. QED
    BY <2>1, <2>2
<1>10. pending' \in Seq(Rows)
  <2>1. CASE SkipItem \/ RefuseItem
    <3>1. item \in DOMAIN schedule
      BY <1>4, <2>1 DEF SkipItem, RefuseItem, Launchable
    <3>2. PICK i \in DOMAIN schedule : i = item
      BY <3>1
    <3>3. PICK origin \in UnstartedOrigins : pending' = AllSkipped(Trials(i), origin)
      BY <2>1, <3>2 DEF SkipItem, RefuseItem, UnstartedOrigins, Trials, Current
    <3>4. QED
      BY <3>3, PendingType
  <2>2. CASE Collect
    <3>1. PICK i \in DOMAIN schedule : i = item
      BY <2>2 DEF Collect
    <3>2. pending' = Materialized(out, Trials(i), format, child.failed) /\ child.failed \in BOOLEAN
      BY <2>2, <3>1 DEF Collect, Trials, Current, TypeOK
    <3>3. QED
      BY <3>2, PendingType
  <2>3. CASE WriteRow
    BY <2>3 DEF WriteRow, TypeOK
  <2>4. CASE ~(SkipItem \/ RefuseItem \/ Collect \/ WriteRow)
    <3>1. UNCHANGED pending \/ pending' = << >>
      BY <2>4 DEF RunnerStep, Mishap, Open, OpenRefused, Launch,
         NextItem, Finish, LaunchFails, Undecodable, WriteFails, Kill, Rerun
    <3>2. << >> \in Seq(Rows)
      OBVIOUS
    <3>3. QED
      BY <3>1, <3>2 DEF TypeOK
  <2>5. QED
    BY <2>1, <2>2, <2>3, <2>4
<1>11. file' \in Seq(Lines)
  <2>1. \A r \in Rows \cup {Junk} : Line(item, r) \in Lines
    BY <1>4 DEF Line, Lines
  <2>2. CASE WriteRow
    <3>1. PICK r \in Rows : r = Head(pending)
      BY <2>2 DEF WriteRow, TypeOK
    <3>2. PICK line \in Lines : line = Line(item, r)
      BY <2>1
    <3>3. file' = Append(file, line)
      BY <2>2, <3>1, <3>2 DEF WriteRow
    <3>4. QED
      BY <3>3 DEF TypeOK
  <2>3. CASE WriteFails
    <3>1. PICK line \in Lines : line = Line(item, Junk)
      BY <2>1
    <3>2. file' = file \o << >> \/ file' = file \o <<line>>
      BY <2>3, <3>1 DEF WriteFails
    <3>3. file \in Seq(Lines)
      BY DEF TypeOK
    <3>4. file \o << >> \in Seq(Lines) /\ file \o <<line>> \in Seq(Lines)
      BY <3>3
    <3>5. QED
      BY <3>2, <3>4
  <2>4. CASE ~(WriteRow \/ WriteFails)
    <3>1. UNCHANGED file
      BY <2>4 DEF RunnerStep, Mishap, Open, OpenRefused, SkipItem, RefuseItem, Launch, Collect,
         NextItem, Finish, LaunchFails, Undecodable, Kill, Rerun
    <3>2. QED
      BY <3>1 DEF TypeOK
  <2>5. QED
    BY <2>2, <2>3, <2>4
<1>12. QED
  BY <1>1, <1>2, <1>3, <1>5, <1>6, <1>7, <1>8, <1>9, <1>10, <1>11 DEF TypeOK

-----------------------------------------------------------------------------
(* The file.                                                               *)

\* The rows of an item are those of its lines, the readable ones without the torn.
LEMMA FileFacts ==
    ASSUME TypeOK, NEW i
    PROVE  /\ file \in Seq(Lines)
           /\ RowsOf(i) \in Seq(Rows \cup {Junk})
           /\ Readable(i) \in Seq(Rows)
           /\ \A m \in DOMAIN RowsOf(i) : \E k \in DOMAIN file :
                  file[k].item = i /\ file[k].row = RowsOf(i)[m]
           /\ \A m \in DOMAIN Readable(i) : \E k \in DOMAIN file :
                  file[k].item = i /\ file[k].row = Readable(i)[m]
           /\ \A k \in DOMAIN file : file[k].item = i =>
                  \E m \in DOMAIN RowsOf(i) : RowsOf(i)[m] = file[k].row
           /\ \A k \in DOMAIN file : file[k].item = i /\ file[k].row # Junk =>
                  \E m \in DOMAIN Readable(i) : Readable(i)[m] = file[k].row
<1>1. file \in Seq([item : Nat, row : Rows \cup {Junk}])
  BY DEF TypeOK, Lines
<1>2. PICK all : all = RowsOf(i)
  OBVIOUS
<1>3. PICK some : some = Readable(i)
  OBVIOUS
<1>4. PICK X : X = Rows \cup {Junk}
  OBVIOUS
<1>5. file \in Seq([item : Nat, row : X])
  BY <1>1, <1>4
<1>6. /\ all \in Seq(X)
      /\ \A m \in DOMAIN all : \E k \in DOMAIN file : file[k].item = i /\ file[k].row = all[m]
      /\ \A k \in DOMAIN file : file[k].item = i => \E m \in DOMAIN all : all[m] = file[k].row
  <2>1. Drawn(all, X, file, i, {})
    BY <1>2, <1>5, TakenRows DEF RowsOf
  <2>2. QED
    BY <2>1 DEF Drawn
<1>7. /\ some \in Seq(X)
      /\ \A m \in DOMAIN some : \E k \in DOMAIN file :
             file[k].item = i /\ file[k].row = some[m] /\ file[k].row \notin {Junk}
      /\ \A k \in DOMAIN file : file[k].item = i /\ file[k].row \notin {Junk} =>
             \E m \in DOMAIN some : some[m] = file[k].row
  <2>1. Drawn(some, X, file, i, {Junk})
    BY <1>3, <1>5, TakenRows DEF Readable
  <2>2. QED
    BY <2>1 DEF Drawn
<1>8. some \in Seq(Rows)
  <2>1. /\ DOMAIN some = 1 .. Len(some) /\ Len(some) \in Nat
        /\ some = [k \in 1 .. Len(some) |-> some[k]]
        /\ \A m \in 1 .. Len(some) : some[m] \in X
    BY <1>7
  <2>2. \A m \in 1 .. Len(some) : some[m] \in Rows
    BY <1>4, <1>7, <2>1
  <2>3. some \in [1 .. Len(some) -> Rows]
    BY <2>1, <2>2
  <2>4. QED
    BY <2>1, <2>3
<1>9. file \in Seq(Lines)
  BY DEF TypeOK
<1>10. QED
  BY <1>2, <1>3, <1>4, <1>6, <1>7, <1>8, <1>9

\* An item with no lines has no readable rows either.
LEMMA EmptyRows ==
    ASSUME TypeOK, NEW i, RowsOf(i) = << >>
    PROVE  Readable(i) = << >>
<1>1. PICK some \in Seq(Rows) : some = Readable(i)
  BY FileFacts
<1>2. DOMAIN some = {}
  <2>1. DOMAIN RowsOf(i) = {}
    OBVIOUS
  <2>2. QED
    BY <1>1, <2>1, FileFacts
<1>3. some = << >>
  BY <1>2
<1>4. QED
  BY <1>1, <1>3

\* Without a torn line all rows are readable.
LEMMA CleanRows ==
    ASSUME TypeOK, ~Torn, NEW i
    PROVE  RowsOf(i) = Readable(i)
<1>1. file \in Seq([item : Nat, row : Rows \cup {Junk}])
  BY DEF TypeOK, Lines
<1>2. \A k \in DOMAIN file : file[k].item = i => file[k].row \notin {Junk}
  BY DEF Torn
<1>3. QED
  BY <1>1, <1>2, TakenUndropped DEF RowsOf, Readable

\* A new line is one more row of its item.
LEMMA NewLine ==
    ASSUME TypeOK, NEW line \in Lines, file' = Append(file, line), NEW i
    PROVE  /\ RowsOf(i)' = IF line.item = i THEN Append(RowsOf(i), line.row) ELSE RowsOf(i)
           /\ Readable(i)' = IF line.item = i /\ line.row # Junk
                             THEN Append(Readable(i), line.row) ELSE Readable(i)
           /\ \A k \in DOMAIN file' : file'[k] = line \/ (k \in DOMAIN file /\ file'[k] = file[k])
           /\ DOMAIN file' = 1 .. Len(file) + 1 /\ Len(file) \in Nat
           /\ DOMAIN file = 1 .. Len(file) /\ file'[Len(file) + 1] = line
           /\ \A k \in DOMAIN file : file'[k] = file[k]
<1>1. file \in Seq(Lines)
  BY DEF TypeOK
<1>2. /\ Taken(Append(file, line), i, {}) =
             IF line.item = i /\ line.row \notin {} THEN Append(Taken(file, i, {}), line.row)
                                                    ELSE Taken(file, i, {})
      /\ Taken(Append(file, line), i, {Junk}) =
             IF line.item = i /\ line.row \notin {Junk}
             THEN Append(Taken(file, i, {Junk}), line.row) ELSE Taken(file, i, {Junk})
  BY <1>1, TakenAppend
<1>3. /\ RowsOf(i)' = IF line.item = i THEN Append(RowsOf(i), line.row) ELSE RowsOf(i)
      /\ Readable(i)' = IF line.item = i /\ line.row # Junk
                        THEN Append(Readable(i), line.row) ELSE Readable(i)
  BY <1>2 DEF RowsOf, Readable
<1>4. QED
  BY <1>1, <1>3

\* What the runner makes of an item is a row per trial.
LEMMA WholeIs ==
    ASSUME TypeOK, NEW i \in DOMAIN schedule, NEW rows, Whole(i, rows)
    PROVE  /\ rows \in Seq(Rows) /\ Len(rows) = Trials(i) /\ Trials(i) \in Nat \ {0}
           /\ DOMAIN rows = 1 .. Trials(i)
           /\ \A k \in 1 .. Trials(i) : rows[k].trial = k - 1 /\ ValidRow(rows[k])
<1>1. Trials(i) \in Nat \ {0} /\ history[i].out \in Output
  BY CampaignFacts
<1>2. CASE history[i].launched
  <2>1. PICK n, origin : /\ origin \in {"subprocess", "output-validation"}
                         /\ MadeFrom(history[i].out, Trials(i), rows, n, origin)
    BY <1>1, <1>2, MadeIs DEF Whole, MadeOf, Trials
  <2>2. rows \in Seq(Rows) /\ Len(rows) = Trials(i)
    BY <2>1 DEF MadeFrom
  <2>3. \A k \in 1 .. Trials(i) : rows[k].trial = k - 1 /\ ValidRow(rows[k])
    BY <1>1, <2>1, MadeValid
  <2>4. QED
    BY <1>1, <2>2, <2>3
<1>3. CASE ~history[i].launched
  <2>1. PICK origin \in UnstartedOrigins : rows = AllSkipped(Trials(i), origin)
    BY <1>3 DEF Whole, MadeOf, Trials
  <2>2. /\ rows \in Seq(Rows) /\ Len(rows) = Trials(i)
        /\ \A k \in 1 .. Trials(i) : rows[k] = Skip(k - 1, origin) /\ ValidRow(Skip(k - 1, origin))
                                     /\ Skip(k - 1, origin).trial = k - 1
    BY <1>1, <2>1, SkippedIs
  <2>3. \A k \in 1 .. Trials(i) : rows[k].trial = k - 1 /\ ValidRow(rows[k])
    BY <2>2
  <2>4. QED
    BY <1>1, <2>2, <2>3
<1>4. QED
  BY <1>2, <1>3

\* There is always something the runner may make of an item.
LEMMA MadeExists ==
    ASSUME NEW planned, NEW h, NEW form,
           h.launched => planned.entry = "usable", ~h.launched => h = NotLaunched
    PROVE  \E rows : MadeOf(planned, h, form, rows)
<1>1. CASE h.launched
  BY <1>1 DEF MadeOf
<1>2. CASE ~h.launched
  BY <1>2 DEF MadeOf, UnstartedOrigins
<1>3. QED
  BY <1>1, <1>2

\* A beginning that is long enough is all.
LEMMA PrefixFull ==
    ASSUME NEW rows \in Seq(Rows), NEW all \in Seq(Rows), Prefix(rows, all), Len(rows) = Len(all)
    PROVE  rows = all
BY DEF Prefix

\* The parts of a sequence are a beginning and the rest.
LEMMA PrefixOfSum ==
    ASSUME NEW rows \in Seq(Rows), NEW rest \in Seq(Rows)
    PROVE  Prefix(rows, rows \o rest) /\ rows \o << >> = rows
BY DEF Prefix

\* A row moved from the rest to the beginning changes nothing.
LEMMA Moved ==
    ASSUME NEW rows \in Seq(Rows), NEW rest \in Seq(Rows), rest # << >>
    PROVE  /\ Head(rest) \in Rows /\ Tail(rest) \in Seq(Rows)
           /\ Append(rows, Head(rest)) \in Seq(Rows)
           /\ Append(rows, Head(rest)) \o Tail(rest) = rows \o rest
           /\ rest = <<Head(rest)>> \o Tail(rest)
OBVIOUS

-----------------------------------------------------------------------------
(* How a step changes the file and what is known of the items.             *)

\* All of a step there is to see for an item.
Untouched(i) ==
    /\ RowsOf(i)' = RowsOf(i) /\ Readable(i)' = Readable(i)
    /\ history'[i] = history[i]

\* A row is written, of the item at hand.
Written ==
    /\ UNCHANGED <<campaign, pc, item, exits, history, anyFailure, stop>>
    /\ pc = "write" /\ item \in DOMAIN schedule /\ pending # << >>
    /\ pending' = Tail(pending)
    /\ RowsOf(item)' = Append(RowsOf(item), Head(pending))
    /\ Readable(item)' = Append(Readable(item), Head(pending))
    /\ \A i \in DOMAIN schedule : i # item => Untouched(i)

\* A write fails, after part of the line or before it.
Broken ==
    /\ UNCHANGED <<campaign, item, pending, history>>
    /\ pc = "write" /\ item \in DOMAIN schedule /\ pc' = "ended" /\ exits' = Append(exits, 1)
    /\ Readable(item)' = Readable(item)
    /\ \A i \in DOMAIN schedule : i # item => Untouched(i)

\* An output is read.
Taking ==
    /\ UNCHANGED <<campaign, item, file>>
    /\ pc = "wait" /\ item \in DOMAIN schedule /\ schedule[item].entry = "usable"
    /\ history' = [history EXCEPT ![item] =
                      [launched |-> TRUE, out |-> out, failed |-> child.failed]]
    /\ RowsOf(item) = << >> /\ Readable(item) = << >>
    /\ \A i : RowsOf(i)' = RowsOf(i) /\ Readable(i)' = Readable(i)

\* Without a change of the file or the history there is nothing to see.
LEMMA SameRows ==
    ASSUME UNCHANGED <<file, history>>
    PROVE  /\ \A i : Untouched(i)
           /\ Torn' = Torn
BY DEF Untouched, RowsOf, Readable, Torn

\* The schedule, the patience and the format are the campaign's.
LEMMA SameCampaign ==
    ASSUME [Next]_vars
    PROVE  /\ UNCHANGED <<campaign, schedule, patient, format>>
BY DEF Next, ChildStep, StrayStep, RunnerStep, Mishap, Open, OpenRefused, SkipItem, RefuseItem,
       Launch, Collect, WriteRow, NextItem, Finish, LaunchFails, Undecodable, WriteFails, Kill,
       Rerun, vars, schedule, patient, format

\* A row written is one more of its item, and the file was and stays without a torn line.
LEMMA WriteRowIs ==
    ASSUME Inductive, WriteRow
    PROVE  Written /\ ~Torn /\ ~Torn'
<1>1. TypeOK /\ pc = "write" /\ pending # << >> /\ exits = << >>
  BY DEF Inductive, WriteRow, OneRun
<1>2. item \in DOMAIN schedule /\ item \in Nat
  BY <1>1, CampaignFacts DEF Inductive, Frontier, AtFrontier
<1>3. PICK r \in Rows : r = Head(pending)
  BY <1>1 DEF TypeOK
<1>4. PICK line \in Lines : line = Line(item, r) /\ line.item = item /\ line.row = r
  <2>1. Line(item, r).item = item /\ Line(item, r).row = r
    BY DEF Line
  <2>2. Line(item, r) \in Lines
    BY <1>2 DEF Lines, Line
  <2>3. QED
    BY <2>1, <2>2
<1>5. file' = Append(file, line)
  BY <1>3, <1>4 DEF WriteRow
<1>6. r # Junk
  BY RowsMade
<1>7. \A i : /\ RowsOf(i)' = IF line.item = i THEN Append(RowsOf(i), line.row) ELSE RowsOf(i)
             /\ Readable(i)' = IF line.item = i THEN Append(Readable(i), line.row) ELSE Readable(i)
  BY <1>1, <1>4, <1>5, <1>6, NewLine
<1>8. PICK n : n = item
  OBVIOUS
<1>9. /\ RowsOf(n)' = Append(RowsOf(n), r) /\ Readable(n)' = Append(Readable(n), r)
      /\ \A i : i # n => RowsOf(i)' = RowsOf(i) /\ Readable(i)' = Readable(i)
  BY <1>4, <1>7, <1>8
<1>10. item' = n
  BY <1>8 DEF WriteRow
<1>11. RowsOf(item)' = RowsOf(n)' /\ Readable(item)' = Readable(n)'
  BY <1>8, <1>10 DEF RowsOf, Readable
<1>12. Written
  BY <1>1, <1>2, <1>3, <1>8, <1>9, <1>11 DEF Written, WriteRow, Untouched
<1>13. ~Torn
  BY <1>1 DEF Inductive, InOrder
<1>14. ~Torn'
  <2>1. \A k \in DOMAIN file' : file'[k] = line \/ (k \in DOMAIN file /\ file'[k] = file[k])
    BY <1>1, <1>5, NewLine
  <2>2. QED
    BY <1>4, <1>6, <1>13, <2>1 DEF Torn
<1>15. QED
  BY <1>12, <1>13, <1>14

\* A failed write adds a torn line or nothing, and no row.
LEMMA WriteFailsIs ==
    ASSUME Inductive, WriteFails
    PROVE  /\ Broken
           /\ \/ UNCHANGED file
              \/ file' = Append(file, Line(item, Junk)) /\ Line(item, Junk) \in Lines
<1>1. TypeOK /\ pc = "write" /\ exits = << >>
  BY DEF Inductive, WriteFails, OneRun
<1>2. item \in DOMAIN schedule /\ item \in Nat
  BY <1>1, CampaignFacts DEF Inductive, Frontier, AtFrontier
<1>3. PICK line \in Lines : line = Line(item, Junk) /\ line.item = item /\ line.row = Junk
  <2>1. Line(item, Junk).item = item /\ Line(item, Junk).row = Junk
    BY DEF Line
  <2>2. Line(item, Junk) \in Lines
    BY <1>2 DEF Lines, Line
  <2>3. QED
    BY <2>1, <2>2
<1>4. UNCHANGED file \/ file' = Append(file, line)
  <2>1. file \in Seq(Lines)
    BY <1>1 DEF TypeOK
  <2>2. file' = file \o << >> \/ file' = file \o <<line>>
    BY <1>3 DEF WriteFails
  <2>3. file \o << >> = file /\ file \o <<line>> = Append(file, line)
    BY <2>1
  <2>4. QED
    BY <2>2, <2>3
<1>5. PICK n : n = item
  OBVIOUS
<1>6. \A i : /\ i # n => RowsOf(i)' = RowsOf(i)
             /\ Readable(i)' = Readable(i)
  <2>1. CASE UNCHANGED file
    BY <2>1 DEF RowsOf, Readable
  <2>2. CASE file' = Append(file, line)
    BY <1>1, <1>3, <1>5, <2>2, NewLine
  <2>3. QED
    BY <1>4, <2>1, <2>2
<1>7. item' = n
  BY <1>5 DEF WriteFails
<1>8. Readable(item)' = Readable(n)'
  BY <1>5, <1>7 DEF Readable
<1>9. Broken
  BY <1>1, <1>2, <1>5, <1>6, <1>8 DEF Broken, WriteFails, Untouched, End
<1>10. QED
  BY <1>3, <1>4, <1>9

\* An output is read while nothing of its item is in the file.
LEMMA TakingIs ==
    ASSUME Inductive, Collect \/ Undecodable
    PROVE  Taking
<1>1. TypeOK /\ pc = "wait" /\ exits = << >>
  BY DEF Inductive, Collect, Undecodable, OneRun
<1>2. item \in DOMAIN schedule /\ schedule[item].entry = "usable"
  BY <1>1 DEF Inductive, Flags, Standing
<1>3. RowsOf(item) = << >>
  BY <1>1, <1>2 DEF Inductive, Frontier, AtFrontier
<1>4. Readable(item) = << >>
  BY <1>1, <1>3, EmptyRows
<1>5. UNCHANGED <<campaign, item, file>> /\ Remember
  BY DEF Collect, Undecodable
<1>6. \A i : RowsOf(i)' = RowsOf(i) /\ Readable(i)' = Readable(i)
  BY <1>5 DEF RowsOf, Readable
<1>7. QED
  BY <1>1, <1>2, <1>3, <1>4, <1>5, <1>6 DEF Taking, Remember

\* Every other step leaves both alone.
LEMMA OtherwiseSame ==
    ASSUME [Next]_vars, ~WriteRow, ~WriteFails, ~Collect, ~Undecodable
    PROVE  UNCHANGED <<file, history>>
BY DEF Next, ChildStep, StrayStep, RunnerStep, Mishap, Open, OpenRefused, SkipItem, RefuseItem,
       Launch, NextItem, Finish, LaunchFails, Kill, Rerun, vars

-----------------------------------------------------------------------------
(* The steps keep the picture.                                             *)

\* One more at the end.
LEMMA Appended ==
    ASSUME NEW X, NEW s \in Seq(X), NEW x \in X
    PROVE  /\ Append(s, x) # << >> /\ Len(Append(s, x)) = Len(s) + 1 /\ Len(s) \in Nat
           /\ Len(s) = 0 => s = << >>
           /\ s # << >> => Append(s, x)[1] = s[1]
           /\ s = << >> => Append(s, x)[1] = x
<1>1. Len(Append(s, x)) = Len(s) + 1 /\ Len(s) \in Nat
  OBVIOUS
<1>2. Append(s, x) # << >>
  <2>1. Len(<< >>) = 0
    OBVIOUS
  <2>2. QED
    BY <1>1, <2>1
<1>3. Len(s) = 0 => s = << >>
  OBVIOUS
<1>4. s # << >> => Append(s, x)[1] = s[1]
  OBVIOUS
<1>5. s = << >> => Append(s, x)[1] = x
  OBVIOUS
<1>6. QED
  BY <1>1, <1>2, <1>3, <1>4, <1>5

\* An exit status ends the run and is not changed later; 0 is what Finish makes of no failure.
LEMMA ExitsStep ==
    ASSUME TypeOK, [Next]_vars
    PROVE  /\ exits # << >> => Len(exits) \in Nat \ {0}
           /\ \/ UNCHANGED exits
              \/ /\ pc' = "ended" /\ UNCHANGED <<campaign, item, exists, pending>>
                 /\ exits' # << >> /\ Len(exits') = Len(exits) + 1 /\ Len(exits) \in Nat
                 /\ (Len(exits) = 0 => exits = << >>)
                 /\ exits # << >> => exits'[1] = exits[1]
                 /\ exits = << >> /\ exits'[1] = 0 => Finish /\ ~anyFailure
<1>1. exits \in Seq({0, 1, Killed}) /\ Killed # 0
  BY DEF TypeOK, Killed
<1>2. exits # << >> => Len(exits) \in Nat \ {0}
  BY <1>1
<1>3. ASSUME NEW status \in {0, 1, Killed}, End(status), UNCHANGED <<campaign, item, exists, pending>>,
             status = 0 => Finish /\ ~anyFailure
      PROVE  /\ pc' = "ended" /\ UNCHANGED <<campaign, item, exists, pending>>
             /\ exits' # << >> /\ Len(exits') = Len(exits) + 1 /\ Len(exits) \in Nat
             /\ (Len(exits) = 0 => exits = << >>)
             /\ exits # << >> => exits'[1] = exits[1]
             /\ exits = << >> /\ exits'[1] = 0 => Finish /\ ~anyFailure
  <2>1. /\ pc' = "ended" /\ exits' = Append(exits, status)
    BY <1>3 DEF End
  <2>2. /\ Append(exits, status) # << >> /\ Len(Append(exits, status)) = Len(exits) + 1
        /\ Len(exits) \in Nat /\ (Len(exits) = 0 => exits = << >>)
        /\ exits # << >> => Append(exits, status)[1] = exits[1]
        /\ exits = << >> => Append(exits, status)[1] = status
    <3>1. PICK X : X = {0, 1, Killed}
      OBVIOUS
    <3>2. exits \in Seq(X) /\ status \in X
      BY <1>1, <1>3, <3>1
    <3>3. QED
      BY <3>2, Appended
  <2>3. QED
    BY <1>3, <2>1, <2>2
<1>4. Finish => /\ UNCHANGED <<campaign, item, exists, pending>>
                /\ (End(1) \/ (End(0) /\ ~anyFailure))
  BY DEF Finish
<1>5. OpenRefused \/ LaunchFails \/ Undecodable \/ WriteFails =>
          End(1) /\ UNCHANGED <<campaign, item, exists, pending>>
  BY DEF OpenRefused, LaunchFails, Undecodable, WriteFails
<1>6. Kill => End(Killed) /\ UNCHANGED <<campaign, item, exists, pending>>
  BY DEF Kill
<1>7. \/ UNCHANGED exits
      \/ Finish \/ OpenRefused \/ LaunchFails \/ Undecodable \/ WriteFails \/ Kill
  BY DEF Next, ChildStep, StrayStep, RunnerStep, Mishap, Open, SkipItem, RefuseItem, Launch,
     Collect, WriteRow, NextItem, Rerun, vars
<1>8. CASE Finish
  BY <1>1, <1>2, <1>3, <1>4, <1>8
<1>9. CASE OpenRefused \/ LaunchFails \/ Undecodable \/ WriteFails
  <2>1. 1 \in {0, 1, Killed} /\ 1 # 0
    OBVIOUS
  <2>2. QED
    BY <1>2, <1>3, <1>5, <1>9, <2>1
<1>10. CASE Kill
  BY <1>1, <1>2, <1>3, <1>6, <1>10
<1>11. QED
  BY <1>2, <1>7, <1>8, <1>9, <1>10

\* Only the first run gets past the file, and it is there once one has.
LEMMA OneRunStep ==
    ASSUME Inductive, [Next]_vars
    PROVE  OneRun'
<1>1. OneRun
  BY DEF Inductive
<1>2. End(0) \/ End(1) \/ End(Killed) => exits' # << >>
  <2>1. exits \in Seq({0, 1, Killed})
    BY DEF Inductive, TypeOK
  <2>2. \A status \in {0, 1, Killed} : Append(exits, status) # << >>
    BY <2>1, Appended
  <2>3. QED
    BY <2>2 DEF End
<1>3. UNCHANGED exits \/ (exits' # << >> /\ pc' = "ended" /\ UNCHANGED exists)
  BY ExitsStep DEF Inductive
<1>4. CASE exits' # << >> /\ pc' = "ended" /\ UNCHANGED exists
  <2>1. exists
    BY <1>1, <1>4 DEF Next, ChildStep, StrayStep, RunnerStep, Mishap, Open, OpenRefused, SkipItem,
       RefuseItem, Launch, Collect, WriteRow, NextItem, Finish, LaunchFails, Undecodable,
       WriteFails, Kill, Rerun, vars, OneRun, Launchable
  <2>2. QED
    BY <1>4, <2>1 DEF OneRun
<1>5. CASE UNCHANGED exits
  <2>1. pc' \in {"item", "wait", "write"} => exits = << >>
    BY <1>1, <1>5 DEF Next, ChildStep, StrayStep, RunnerStep, Mishap, Open, OpenRefused, SkipItem,
       RefuseItem, Launch, Collect, WriteRow, NextItem, Finish, LaunchFails, Undecodable,
       WriteFails, Kill, Rerun, vars, End, OneRun, Launchable
  <2>2. pc' = "ended" => exits' # << >>
    BY <1>1, <1>2, <1>5 DEF Next, ChildStep, StrayStep, RunnerStep, Mishap, Open, OpenRefused,
       SkipItem, RefuseItem, Launch, Collect, WriteRow, NextItem, Finish, LaunchFails, Undecodable,
       WriteFails, Kill, Rerun, vars, End, OneRun
  <2>3. pc' # "start" \/ exits # << >> => exists'
    BY <1>1, <1>5 DEF Next, ChildStep, StrayStep, RunnerStep, Mishap, Open, OpenRefused, SkipItem,
       RefuseItem, Launch, Collect, WriteRow, NextItem, Finish, LaunchFails, Undecodable,
       WriteFails, Kill, Rerun, vars, OneRun, Launchable
  <2>4. pc' = "start" /\ exits = << >> => file' = << >> /\ item' = 1
    BY <1>1, <1>5 DEF Next, ChildStep, StrayStep, RunnerStep, Mishap, Open, OpenRefused, SkipItem,
       RefuseItem, Launch, Collect, WriteRow, NextItem, Finish, LaunchFails, Undecodable,
       WriteFails, Kill, Rerun, vars, OneRun, End
  <2>5. QED
    BY <1>5, <2>1, <2>2, <2>3, <2>4 DEF OneRun
<1>6. QED
  BY <1>3, <1>4, <1>5

\* Where a step leads: on in the schedule, or back to its beginning when a run has ended.
LEMMA ItemStep ==
    ASSUME Inductive, [Next]_vars
    PROVE  /\ item \in 1 .. Len(schedule) + 1 /\ Len(schedule) \in Nat
           /\ DOMAIN schedule = 1 .. Len(schedule)
           /\ \/ UNCHANGED item
              \/ NextItem /\ item' = item + 1 /\ exits = << >> /\ exits' = << >>
              \/ Rerun /\ item' = 1 /\ exits # << >> /\ exits' # << >>
<1>1. TypeOK /\ OneRun
  BY DEF Inductive
<1>2. /\ item \in 1 .. Len(schedule) + 1 /\ Len(schedule) \in Nat
      /\ DOMAIN schedule = 1 .. Len(schedule)
  BY <1>1, CampaignFacts DEF TypeOK
<1>3. UNCHANGED item \/ NextItem \/ Rerun
  BY DEF Next, ChildStep, StrayStep, RunnerStep, Mishap, Open, OpenRefused, SkipItem,
     RefuseItem, Launch, Collect, WriteRow, NextItem, Finish, LaunchFails, Undecodable, WriteFails,
     Kill, Rerun, vars
<1>4. NextItem => item' = item + 1 /\ exits = << >> /\ exits' = << >>
  BY <1>1 DEF NextItem, OneRun
<1>5. Rerun => item' = 1 /\ exits # << >> /\ exits' # << >>
  BY <1>1 DEF Rerun, OneRun
<1>6. QED
  BY <1>2, <1>3, <1>4, <1>5

\* A new line belongs to the item at hand, and a torn one is the last of all.
LEMMA InOrderStep ==
    ASSUME Inductive, [Next]_vars
    PROVE  InOrder'
<1>1. TypeOK /\ InOrder /\ OneRun
  BY DEF Inductive
<1>2. UNCHANGED schedule
  BY SameCampaign
<1>3. ASSUME NEW line \in Lines, line.item = item, file' = Append(file, line),
             item' = item, item \in DOMAIN schedule, exits = << >>
      PROVE  /\ \A k \in DOMAIN file' : file'[k].item \in DOMAIN schedule'
             /\ \A j, k \in DOMAIN file' : j < k => file'[j].item <= file'[k].item
             /\ \A k \in DOMAIN file' : file'[k].item <= item'
  <2>1. /\ DOMAIN file' = 1 .. Len(file) + 1 /\ Len(file) \in Nat
        /\ DOMAIN file = 1 .. Len(file) /\ file'[Len(file) + 1] = line
        /\ \A k \in DOMAIN file : file'[k] = file[k]
    BY <1>1, <1>3, NewLine
  <2>2. item <= item
    BY <1>1, CampaignFacts DEF TypeOK
  <2>3. /\ \A k \in DOMAIN file : file[k].item <= item /\ file[k].item \in DOMAIN schedule
        /\ \A j, k \in DOMAIN file : j < k => file[j].item <= file[k].item
    BY <1>1, <1>3 DEF InOrder
  <2>4. \A k \in DOMAIN file' :
            \/ k \in DOMAIN file /\ file'[k].item = file[k].item
            \/ k = Len(file) + 1 /\ file'[k].item = item
    BY <1>3, <2>1
  <2>5. \A k \in DOMAIN file' : file'[k].item <= item'
    BY <1>3, <2>2, <2>3, <2>4
  <2>6. \A k \in DOMAIN file' : file'[k].item \in DOMAIN schedule'
    BY <1>2, <1>3, <2>3, <2>4
  <2>7. ASSUME NEW j \in DOMAIN file', NEW k \in DOMAIN file', j < k
        PROVE  file'[j].item <= file'[k].item
    <3>1. j \in DOMAIN file
      BY <2>1, <2>7
    <3>2. QED
      BY <1>3, <2>1, <2>2, <2>3, <2>4, <2>7, <3>1
  <2>8. QED
    BY <2>5, <2>6, <2>7
<1>4. CASE WriteRow
  <2>1. Written /\ ~Torn'
    BY <1>4, WriteRowIs
  <2>2. exits = << >> /\ item \in DOMAIN schedule /\ item \in Nat
    BY <1>1, <1>4, <2>1, CampaignFacts DEF OneRun, WriteRow, Written
  <2>3. PICK r \in Rows : r = Head(pending)
    BY <1>1, <1>4 DEF TypeOK, WriteRow
  <2>4. PICK line \in Lines : line = Line(item, r) /\ line.item = item
    <3>1. Line(item, r).item = item
      BY DEF Line
    <3>2. Line(item, r) \in Lines
      BY <2>2 DEF Lines, Line
    <3>3. QED
      BY <3>1, <3>2
  <2>5. file' = Append(file, line) /\ item' = item
    BY <1>4, <2>3, <2>4 DEF WriteRow
  <2>6. QED
    BY <1>3, <2>1, <2>2, <2>4, <2>5 DEF InOrder
<1>5. CASE WriteFails
  <2>1. Broken /\ (UNCHANGED file \/ (file' = Append(file, Line(item, Junk)) /\ Line(item, Junk) \in Lines))
    BY <1>5, WriteFailsIs
  <2>2. exits = << >> /\ item \in DOMAIN schedule /\ item' = item /\ exits' # << >>
    BY <1>1, <1>5, <2>1 DEF OneRun, WriteFails, Broken, TypeOK
  <2>3. item' <= Len(schedule')
    BY <1>1, <1>2, <2>2, CampaignFacts
  <2>4. Line(item, Junk).item = item
    BY DEF Line
  <2>5. CASE UNCHANGED file
    BY <1>1, <1>2, <2>2, <2>3, <2>5 DEF InOrder
  <2>6. CASE file' = Append(file, Line(item, Junk)) /\ Line(item, Junk) \in Lines
    BY <1>3, <2>2, <2>3, <2>4, <2>6 DEF InOrder
  <2>7. QED
    BY <2>1, <2>5, <2>6
<1>6. CASE ~WriteRow /\ ~WriteFails
  <2>1. UNCHANGED file
    BY <1>6, OtherwiseSame DEF Collect, Undecodable
  <2>2. Torn' = Torn
    BY <2>1 DEF Torn
  <2>3. exits # << >> => exits' # << >>
    BY <1>1, ExitsStep
  <2>4. \A k \in DOMAIN file : file[k].item \in Nat
    <3>1. \A k \in DOMAIN file : file[k].item \in DOMAIN schedule
      BY <1>1 DEF InOrder
    <3>2. QED
      BY <3>1, ItemStep
  <2>5. exits' = << >> => \A k \in DOMAIN file : file[k].item <= item'
    BY <1>1, <2>3, <2>4, ItemStep DEF InOrder
  <2>6. Torn => exits' # << >> /\ item' <= Len(schedule)
    BY <1>1, <2>3, ItemStep DEF InOrder
  <2>7. QED
    BY <1>1, <1>2, <2>1, <2>2, <2>5, <2>6 DEF InOrder
<1>7. QED
  BY <1>4, <1>5, <1>6

\* What is in the file is a beginning of what was made, and all of it once the runner is past
\* the item.
LEMMA FiledStep ==
    ASSUME Inductive, [Next]_vars
    PROVE  Filed'
<1>1. TypeOK /\ Filed /\ OneRun
  BY DEF Inductive
<1>2. UNCHANGED <<schedule, patient, format>>
  BY SameCampaign
<1>3. SUFFICES ASSUME NEW i \in DOMAIN schedule
               PROVE  /\ \E rows : Whole(i, rows)' /\ Prefix(Readable(i)', rows)
                      /\ i < item' => Whole(i, Readable(i))'
  BY <1>2 DEF Filed
<1>4. /\ item \in 1 .. Len(schedule) + 1 /\ Len(schedule) \in Nat /\ i \in 1 .. Len(schedule)
      /\ \/ UNCHANGED item
         \/ NextItem /\ item' = item + 1 /\ exits = << >>
         \/ Rerun /\ item' = 1
  BY ItemStep
<1>5. /\ \E rows : Whole(i, rows) /\ Prefix(Readable(i), rows)
      /\ i < item => Whole(i, Readable(i))
  BY <1>1, <1>3 DEF Filed
<1>6. ASSUME Readable(i)' = Readable(i), history'[i] = history[i], i < item' => i < item
      PROVE  /\ \E rows : Whole(i, rows)' /\ Prefix(Readable(i)', rows)
             /\ i < item' => Whole(i, Readable(i))'
  BY <1>2, <1>5, <1>6 DEF Whole
<1>7. CASE WriteRow
  <2>1. Written
    BY <1>7, WriteRowIs
  <2>2. CASE i # item
    BY <1>4, <1>6, <2>1, <2>2 DEF Written, Untouched
  <2>3. CASE i = item
    <3>1. PICK rows \in Seq(Rows) : rows = Readable(i)
      BY <1>1, FileFacts
    <3>2. PICK rest \in Seq(Rows) : rest = pending /\ rest # << >>
      BY <1>1, <2>1 DEF TypeOK, Written
    <3>3. Whole(i, rows \o rest)
      BY <1>1, <2>1, <2>3, <3>1, <3>2 DEF Inductive, Frontier, AtFrontier, Written, OneRun
    <3>4. PICK more \in Seq(Rows) : more = Append(rows, Head(rest)) /\ Readable(i)' = more
      <4>1. Append(rows, Head(rest)) \in Seq(Rows)
        BY <3>2, Moved
      <4>2. Readable(i)' = Append(rows, Head(rest))
        <5>1. Readable(item)' = Readable(i)'
          BY <2>1, <2>3 DEF Written, Readable
        <5>2. QED
          BY <2>1, <2>3, <3>1, <3>2, <5>1 DEF Written
      <4>3. QED
        BY <4>1, <4>2
    <3>5. Prefix(more, rows \o rest)
      <4>1. PICK tail \in Seq(Rows) : tail = Tail(rest) /\ more \o tail = rows \o rest
        <5>1. Tail(rest) \in Seq(Rows) /\ Append(rows, Head(rest)) \o Tail(rest) = rows \o rest
          BY <3>2, Moved
        <5>2. QED
          BY <3>4, <5>1
      <4>2. Prefix(more, more \o tail)
        BY PrefixOfSum
      <4>3. QED
        BY <4>1, <4>2
    <3>6. Whole(i, rows \o rest)'
      BY <1>2, <2>1, <3>3 DEF Whole, Written
    <3>7. ~(i < item')
      BY <1>4, <2>1, <2>3 DEF Written
    <3>8. QED
      BY <3>4, <3>5, <3>6, <3>7
  <2>4. QED
    BY <2>2, <2>3
<1>8. CASE WriteFails
  <2>1. Broken
    BY <1>8, WriteFailsIs
  <2>2. Readable(i)' = Readable(i) /\ history'[i] = history[i]
    <3>1. CASE i = item
      <4>1. Readable(item)' = Readable(i)'
        BY <2>1, <3>1 DEF Broken, Readable
      <4>2. QED
        BY <2>1, <3>1, <4>1 DEF Broken
    <3>2. CASE i # item
      BY <2>1, <3>2 DEF Broken, Untouched
    <3>3. QED
      BY <3>1, <3>2
  <2>3. QED
    BY <1>6, <2>1, <2>2 DEF Broken
<1>9. CASE Collect \/ Undecodable
  <2>1. Taking
    BY <1>9, TakingIs
  <2>2. CASE i # item
    BY <1>6, <2>1, <2>2 DEF Taking
  <2>3. CASE i = item
    <3>1. Readable(i)' = << >>
      BY <2>1, <2>3 DEF Taking
    <3>2. history'[i].launched /\ schedule[i].entry = "usable"
      BY <1>1, <1>3, <2>1, <2>3 DEF Taking, TypeOK
    <3>3. PICK rows : Whole(i, rows)'
      BY <1>2, <3>2, MadeExists DEF Whole
    <3>4. Prefix(<< >>, rows)
      <4>1. Len(rows) \in Nat
        <5>1. history'[i] = [launched |-> TRUE, out |-> out, failed |-> child.failed]
          BY <1>1, <1>3, <2>1, <2>3 DEF Taking, TypeOK
        <5>2. rows = Materialized(out, Trials(i), format, child.failed) /\ child.failed \in BOOLEAN
          BY <1>1, <1>2, <3>3, <5>1 DEF Whole, MadeOf, Trials, TypeOK
        <5>3. rows \in Seq(Rows)
          BY <1>1, <5>2, PendingType
        <5>4. QED
          BY <5>3
      <4>2. QED
        BY <4>1 DEF Prefix
    <3>5. ~(i < item')
      BY <1>4, <2>1, <2>3 DEF Taking
    <3>6. QED
      BY <3>1, <3>3, <3>4, <3>5
  <2>4. QED
    BY <2>2, <2>3
<1>10. CASE ~WriteRow /\ ~WriteFails /\ ~Collect /\ ~Undecodable
  <2>1. Readable(i)' = Readable(i) /\ history'[i] = history[i]
    BY <1>10, OtherwiseSame, SameRows DEF Untouched
  <2>2. CASE i < item' => i < item
    BY <1>6, <2>1, <2>2
  <2>3. CASE i < item' /\ ~(i < item)
    <3>1. NextItem /\ i = item /\ exits = << >>
      BY <1>4, <2>3
    <3>2. pending = << >> /\ pc = "write"
      BY <3>1 DEF NextItem
    <3>3. PICK rows \in Seq(Rows) : rows = Readable(i)
      BY <1>1, FileFacts
    <3>4. Whole(i, rows \o << >>)
      BY <3>1, <3>2, <3>3 DEF Inductive, Frontier, AtFrontier
    <3>5. Whole(i, rows)
      <4>1. rows \o << >> = rows
        BY <3>3
      <4>2. QED
        BY <3>4, <4>1
    <3>6. Whole(i, rows)'
      BY <1>2, <2>1, <3>5 DEF Whole
    <3>7. Readable(i)' = rows
      BY <2>1, <3>3
    <3>8. Prefix(rows, rows)
      BY <3>3 DEF Prefix
    <3>9. Whole(i, Readable(i))'
      BY <3>6, <3>7 DEF Whole
    <3>10. QED
      BY <3>6, <3>7, <3>8, <3>9
  <2>4. QED
    BY <2>2, <2>3
<1>11. QED
  BY <1>7, <1>8, <1>9, <1>10

\* What lies before the runner is as it was, and what it has at hand completes what it wrote.
LEMMA FrontierStep ==
    ASSUME Inductive, [Next]_vars
    PROVE  Frontier'
<1>1. TypeOK /\ OneRun
  BY DEF Inductive
<1>2. UNCHANGED <<schedule, patient, format>>
  BY SameCampaign
<1>3. /\ item \in 1 .. Len(schedule) + 1 /\ Len(schedule) \in Nat
      /\ DOMAIN schedule = 1 .. Len(schedule)
  BY ItemStep
<1>4. SUFFICES ASSUME exits' = << >> \/ (pc' = "ended" /\ Len(exits') = 1)
               PROVE  AtFrontier'
  BY DEF Frontier
<1>5. exits = << >> \/ (pc = "ended" /\ Len(exits) = 1)
  <2>1. CASE UNCHANGED exits
    <3>1. exits = << >> \/ (exits # << >> /\ pc' = "ended" /\ Len(exits) = 1)
      BY <1>4, <2>1
    <3>2. pc' = "ended" => pc = "ended"
      <4>1. pc' = "ended" => UNCHANGED pc \/ End(0) \/ End(1) \/ End(Killed)
        BY DEF Next, ChildStep, StrayStep, RunnerStep, Mishap, Open, OpenRefused, SkipItem,
           RefuseItem, Launch, Collect, WriteRow, NextItem, Finish, LaunchFails, Undecodable,
           WriteFails, Kill, Rerun, vars
      <4>2. exits \in Seq({0, 1, Killed})
        BY <1>1 DEF TypeOK
      <4>3. \A status \in {0, 1, Killed} : Append(exits, status) # exits
        <5>1. ASSUME NEW status \in {0, 1, Killed} PROVE Append(exits, status) # exits
          <6>1. Len(Append(exits, status)) = Len(exits) + 1 /\ Len(exits) \in Nat
            BY <4>2, Appended
          <6>2. QED
            BY <6>1
        <5>2. QED
          BY <5>1
      <4>4. QED
        BY <2>1, <4>1, <4>3 DEF End
    <3>3. QED
      BY <3>1, <3>2
  <2>2. CASE exits' # << >> /\ Len(exits') = Len(exits) + 1 /\ Len(exits) \in Nat
             /\ (Len(exits) = 0 => exits = << >>)
    BY <1>4, <2>2
  <2>3. QED
    BY <1>1, <2>1, <2>2, ExitsStep
<1>6. AtFrontier
  BY <1>5 DEF Inductive, Frontier
<1>7. pending \in Seq(Rows)
  BY <1>1 DEF TypeOK
<1>8. CASE WriteRow
  <2>1. Written
    BY <1>8, WriteRowIs
  <2>2. \A i \in DOMAIN schedule' : i > item' => RowsOf(i)' = << >> /\ history'[i] = NotLaunched
    BY <1>2, <1>3, <1>6, <2>1 DEF AtFrontier, Written, Untouched
  <2>3. PICK rows \in Seq(Rows) : rows = Readable(item)
    BY <1>1, FileFacts
  <2>4. Whole(item, rows \o pending)
    BY <1>6, <2>1, <2>3 DEF AtFrontier, Written
  <2>5. PICK all : all = rows \o pending /\ Append(rows, Head(pending)) \o Tail(pending) = all
    BY <1>7, <2>1, Moved DEF Written
  <2>6. Readable(item)' \o pending' = all
    BY <2>1, <2>3, <2>5 DEF Written
  <2>7. Whole(item, Readable(item) \o pending)'
    BY <1>2, <2>1, <2>4, <2>5, <2>6 DEF Whole, Written
  <2>8. QED
    BY <1>2, <2>1, <2>2, <2>7 DEF AtFrontier, Written
<1>9. CASE WriteFails
  <2>1. Broken
    BY <1>9, WriteFailsIs
  <2>2. \A i \in DOMAIN schedule' : i > item' => RowsOf(i)' = << >> /\ history'[i] = NotLaunched
    BY <1>2, <1>3, <1>6, <2>1 DEF AtFrontier, Broken, Untouched
  <2>3. Whole(item, Readable(item) \o pending)
    BY <1>6, <2>1 DEF AtFrontier, Broken
  <2>4. Whole(item, Readable(item) \o pending)'
    BY <1>2, <2>1, <2>3 DEF Whole, Broken
  <2>5. QED
    BY <1>2, <2>1, <2>2, <2>4 DEF AtFrontier, Broken
<1>10. CASE Collect \/ Undecodable
  <2>1. Taking
    BY <1>10, TakingIs
  <2>2. \A i \in DOMAIN schedule' : i > item' => RowsOf(i)' = << >> /\ history'[i] = NotLaunched
    BY <1>2, <1>3, <1>6, <2>1 DEF AtFrontier, Taking
  <2>3. RowsOf(item)' = << >> /\ Readable(item)' = << >> /\ item' = item
    BY <2>1 DEF Taking, RowsOf, Readable
  <2>4. CASE Undecodable
    <3>1. pc' = "ended" /\ pending' = << >>
      BY <1>6, <2>4 DEF Undecodable, End, AtFrontier
    <3>2. QED
      BY <2>2, <2>3, <3>1 DEF AtFrontier
  <2>5. CASE Collect
    <3>1. PICK i \in DOMAIN schedule : i = item
      BY <2>1 DEF Taking
    <3>2. history'[i] = [launched |-> TRUE, out |-> out, failed |-> child.failed]
      BY <1>1, <2>1, <3>1 DEF Taking, TypeOK
    <3>3. pending' = Materialized(out, schedule[i].trials, format, child.failed) /\ pc' = "write"
      BY <2>5, <3>1 DEF Collect, Current
    <3>4. pending' \in Seq(Rows)
      BY <1>1, <3>1, <3>3, PendingType DEF Trials, TypeOK
    <3>5. Whole(i, pending)'
      BY <1>2, <2>1, <3>1, <3>2, <3>3 DEF Whole, MadeOf, Taking
    <3>6. Readable(item)' \o pending' = pending'
      BY <2>3, <3>4
    <3>7. Whole(item, Readable(item) \o pending)'
      BY <2>3, <3>1, <3>5, <3>6 DEF Whole
    <3>8. QED
      BY <1>2, <2>2, <2>3, <3>1, <3>3, <3>7 DEF AtFrontier
  <2>6. QED
    BY <1>10, <2>4, <2>5
<1>11. CASE ~WriteRow /\ ~WriteFails /\ ~Collect /\ ~Undecodable
  <2>1. /\ UNCHANGED <<file, history>>
        /\ \A i : RowsOf(i)' = RowsOf(i) /\ Readable(i)' = Readable(i)
    BY <1>11, OtherwiseSame DEF RowsOf, Readable
  <2>2. CASE SkipItem \/ RefuseItem
    <3>1. PICK i \in DOMAIN schedule : i = item /\ item' = i
      BY <1>3, <2>2 DEF SkipItem, RefuseItem, Launchable
    <3>2. PICK origin \in UnstartedOrigins :
              /\ pending' = AllSkipped(schedule[i].trials, origin) /\ pc' = "write"
              /\ schedule[i].entry # "usable" => origin = "prerequisite"
      BY <2>2, <3>1 DEF SkipItem, RefuseItem, Launchable, Current, UnstartedOrigins
    <3>3. pending' \in Seq(Rows)
      BY <1>1, <3>1, <3>2, PendingType DEF Trials
    <3>4. pc = "item"
      BY <2>2 DEF SkipItem, RefuseItem, Launchable
    <3>5. RowsOf(i) = << >> /\ history[i] = NotLaunched
      BY <1>6, <3>1, <3>4 DEF AtFrontier
    <3>6. Readable(i)' = << >>
      BY <1>1, <2>1, <3>5, EmptyRows
    <3>7. Whole(i, pending)'
      BY <1>2, <2>1, <3>2, <3>5 DEF Whole, MadeOf, NotLaunched
    <3>8. Readable(item)' = Readable(i)'
      BY <3>1 DEF Readable
    <3>9. Readable(item)' \o pending' = pending'
      BY <3>3, <3>6, <3>8
    <3>10. Whole(item, Readable(item) \o pending)'
      BY <3>1, <3>7, <3>9 DEF Whole
    <3>11. \A k \in DOMAIN schedule' : k > item' => RowsOf(k)' = << >> /\ history'[k] = NotLaunched
      BY <1>2, <1>6, <2>1, <3>1 DEF AtFrontier
    <3>12. QED
      BY <1>2, <3>1, <3>2, <3>10, <3>11 DEF AtFrontier
  <2>3. CASE NextItem
    <3>1. item' = item + 1 /\ pc' = "item" /\ pending' = << >>
      BY <2>3 DEF NextItem
    <3>2. \A i \in DOMAIN schedule' : i > item => RowsOf(i)' = << >> /\ history'[i] = NotLaunched
      BY <1>2, <1>6, <2>1 DEF AtFrontier
    <3>3. \A i \in DOMAIN schedule : i > item' => i > item
      BY <1>3, <3>1
    <3>4. PICK n : n = item'
      OBVIOUS
    <3>5. n \in DOMAIN schedule => RowsOf(n)' = << >> /\ history'[n] = NotLaunched
      BY <1>2, <1>3, <3>1, <3>2, <3>4
    <3>6. RowsOf(item)' = RowsOf(n)'
      BY <3>4 DEF RowsOf
    <3>7. QED
      BY <1>2, <3>1, <3>2, <3>3, <3>4, <3>5, <3>6 DEF AtFrontier
  <2>4. CASE Rerun
    <3>1. pc' = "start" /\ exits' = exits /\ exits # << >>
      BY <1>1, <2>4 DEF Rerun, OneRun
    <3>2. QED
      BY <1>4, <3>1
  <2>5. CASE ~SkipItem /\ ~RefuseItem /\ ~NextItem /\ ~Rerun
    <3>1. /\ UNCHANGED <<item, pending>>
          /\ \/ pc' = "ended" \/ UNCHANGED pc
             \/ pc \in {"start", "item"} /\ pc' \in {"item", "wait"}
      BY <1>11, <2>5 DEF Next, ChildStep, StrayStep, RunnerStep, Mishap, Open, OpenRefused, Launch,
         Finish, LaunchFails, Kill, vars, End, Launchable
    <3>2. RowsOf(item)' = RowsOf(item) /\ Readable(item)' = Readable(item)
      BY <2>1, <3>1 DEF RowsOf, Readable
    <3>3. Whole(item, Readable(item) \o pending) => Whole(item, Readable(item) \o pending)'
      BY <1>2, <2>1, <3>1, <3>2 DEF Whole
    <3>4. \A i \in DOMAIN schedule' : i > item' => RowsOf(i)' = << >> /\ history'[i] = NotLaunched
      BY <1>2, <1>6, <2>1, <3>1 DEF AtFrontier
    <3>5. QED
      BY <1>2, <1>6, <2>1, <3>1, <3>2, <3>3, <3>4 DEF AtFrontier
  <2>6. QED
    BY <2>2, <2>3, <2>4, <2>5
<1>12. QED
  BY <1>8, <1>9, <1>10, <1>11

\* Every row is a success, of rows with one more and of rows with one less.
LEMMA SucceedMoved ==
    ASSUME NEW rows \in Seq(Rows), NEW rest \in Seq(Rows), rest # << >>,
           AllSucceed(rows), AllSucceed(rest)
    PROVE  AllSucceed(Append(rows, Head(rest))) /\ AllSucceed(Tail(rest))
<1>1. Len(rest) \in Nat \ {0} /\ Len(rows) \in Nat
  OBVIOUS
<1>2. rest[1].status = "success" /\ Head(rest) = rest[1]
  BY <1>1 DEF AllSucceed
<1>3. /\ DOMAIN Append(rows, Head(rest)) = 1 .. Len(rows) + 1
      /\ \A k \in 1 .. Len(rows) : Append(rows, Head(rest))[k] = rows[k]
      /\ Append(rows, Head(rest))[Len(rows) + 1] = Head(rest)
      /\ DOMAIN rows = 1 .. Len(rows)
  BY <1>1
<1>4. /\ DOMAIN Tail(rest) = 1 .. Len(rest) - 1
      /\ \A k \in 1 .. Len(rest) - 1 : Tail(rest)[k] = rest[k + 1] /\ k + 1 \in DOMAIN rest
  BY <1>1
<1>5. \A k \in 1 .. Len(rows) + 1 : k \in 1 .. Len(rows) \/ k = Len(rows) + 1
  BY <1>1
<1>6. AllSucceed(Append(rows, Head(rest)))
  BY <1>2, <1>3, <1>5 DEF AllSucceed
<1>7. AllSucceed(Tail(rest))
  BY <1>4 DEF AllSucceed
<1>8. QED
  BY <1>6, <1>7

\* The flags stand for what they should, and nothing is launched that should not be.
LEMMA FlagsStep ==
    ASSUME Inductive, [Next]_vars
    PROVE  Flags'
<1>1. TypeOK /\ OneRun
  BY DEF Inductive
<1>2. UNCHANGED <<schedule, patient, format>>
  BY SameCampaign
<1>3. /\ item \in 1 .. Len(schedule) + 1 /\ Len(schedule) \in Nat
      /\ DOMAIN schedule = 1 .. Len(schedule) /\ patient \in BOOLEAN
  BY <1>1, ItemStep, CampaignFacts
<1>4. SUFFICES ASSUME exits' = << >> PROVE Standing'
  BY DEF Flags
<1>5. exits = << >>
  BY <1>1, <1>4, ExitsStep
<1>6. Standing /\ AtFrontier
  BY <1>5 DEF Inductive, Flags, Frontier
<1>7. /\ stop \in BOOLEAN /\ anyFailure \in BOOLEAN /\ pending \in Seq(Rows)
      /\ child.failed \in BOOLEAN
  BY <1>1 DEF TypeOK
<1>8. ~OpenRefused /\ ~LaunchFails /\ ~Undecodable /\ ~WriteFails /\ ~Finish /\ ~Kill
  <2>1. \A status \in {0, 1, Killed} : Append(<< >>, status) # << >>
    <3>1. << >> \in Seq({0, 1, Killed})
      OBVIOUS
    <3>2. QED
      BY <3>1, Appended
  <2>2. ~End(0) /\ ~End(1) /\ ~End(Killed)
    BY <1>4, <1>5, <2>1 DEF End
  <2>3. QED
    BY <2>2 DEF OpenRefused, LaunchFails, Undecodable, WriteFails, Finish, Kill
<1>9. ~Rerun
  BY <1>1, <1>5 DEF Rerun, OneRun
<1>10. CASE WriteRow
  <2>1. Written
    BY <1>10, WriteRowIs
  <2>2. PICK n \in DOMAIN schedule : n = item /\ n = item'
    BY <2>1 DEF Written
  <2>3. PICK rows \in Seq(Rows) : rows = Readable(n)
    BY <1>1, FileFacts
  <2>4. Readable(n)' = Append(rows, Head(pending)) /\ pending' = Tail(pending) /\ pending # << >>
    <3>1. Readable(item)' = Readable(n)'
      BY <2>2 DEF Readable
    <3>2. QED
      BY <2>1, <2>2, <2>3, <3>1 DEF Written
  <2>5. \A j \in DOMAIN schedule : j # n => Readable(j)' = Readable(j)
    BY <2>1, <2>2 DEF Written, Untouched
  <2>6. \A j : Done(j)' <=> Done(j)
    BY <1>2, <2>1 DEF Done, Written
  <2>7. ~anyFailure' => /\ \A j \in DOMAIN schedule : Done(j) =>
                              history[j].launched /\ ~history[j].failed /\ AllSucceed(Readable(j)')
                        /\ AllSucceed(pending')
    <3> SUFFICES ASSUME ~anyFailure
                 PROVE  /\ \A j \in DOMAIN schedule : Done(j) =>
                              history[j].launched /\ ~history[j].failed /\ AllSucceed(Readable(j)')
                        /\ AllSucceed(pending')
      BY <2>1 DEF Written
    <3>1. /\ \A j \in DOMAIN schedule : Done(j) =>
                 history[j].launched /\ ~history[j].failed /\ AllSucceed(Readable(j))
          /\ AllSucceed(pending)
      BY <1>6 DEF Standing
    <3>2. Done(n)
      BY <2>1, <2>2 DEF Done, Written
    <3>3. AllSucceed(Append(rows, Head(pending))) /\ AllSucceed(Tail(pending))
      BY <1>7, <2>3, <2>4, <3>1, <3>2, SucceedMoved
    <3>4. QED
      BY <2>4, <2>5, <3>1, <3>3
  <2>8. pc' = "write" /\ ~patient' /\ history'[item'].launched =>
            \A j \in DOMAIN schedule : j < item' => AllSucceed(Readable(j)')
    <3>1. /\ pc = "write" /\ item' = item /\ patient' = patient
          /\ history'[item'].launched = history[item].launched
      BY <1>2, <2>1 DEF Written
    <3>2. pc = "write" /\ ~patient /\ history[item].launched =>
              \A j \in DOMAIN schedule : j < item => AllSucceed(Readable(j))
      BY <1>6 DEF Standing
    <3>3. \A j \in DOMAIN schedule : j < item => Readable(j)' = Readable(j)
      BY <1>3, <2>2, <2>5
    <3>4. QED
      BY <3>1, <3>2, <3>3
  <2>9. ~stop' => \A j \in DOMAIN schedule' :
            Done(j)' /\ schedule'[j].entry = "usable" => history'[j].launched
    BY <1>2, <1>6, <2>1, <2>6 DEF Standing, Written
  <2>10. ~stop' /\ ~patient' => ~anyFailure'
    BY <1>2, <1>6, <2>1 DEF Standing, Written
  <2>11. pc' # "wait"
    BY <2>1 DEF Written
  <2>12. UNCHANGED history
    BY <2>1 DEF Written
  <2>13. QED
    BY <1>2, <2>6, <2>7, <2>8, <2>9, <2>10, <2>11, <2>12 DEF Standing
<1>11. CASE Collect
  <2>1. Taking
    BY <1>11, TakingIs
  <2>2. PICK n \in DOMAIN schedule : n = item /\ n = item'
    BY <2>1 DEF Taking
  <2>3. /\ history'[n] = [launched |-> TRUE, out |-> out, failed |-> child.failed]
        /\ \A j \in DOMAIN schedule : j # n => history'[j] = history[j]
    BY <1>1, <2>1, <2>2 DEF Taking, TypeOK
  <2>4. history'[n].launched /\ history'[n].failed = child.failed
    BY <2>3
  <2>5. \A j : Readable(j)' = Readable(j)
    BY <2>1 DEF Taking
  <2>6. Readable(n) = << >>
    BY <2>1, <2>2 DEF Taking
  <2>7. pc = "wait" /\ pc' = "write" /\ ~stop
    BY <1>6, <1>11 DEF Collect, Standing
  <2>8. \A j \in DOMAIN schedule : Done(j)' <=> Done(j) \/ j = n
    BY <1>2, <1>3, <2>2, <2>7 DEF Done
  <2>9. /\ anyFailure' = (anyFailure \/ FailedNow)
        /\ stop' = (stop \/ (anyFailure' /\ ~patient))
    BY <1>11 DEF Collect
  <2>10. ~stop' => \A j \in DOMAIN schedule' :
            Done(j)' /\ schedule'[j].entry = "usable" => history'[j].launched
    BY <1>2, <1>6, <2>3, <2>4, <2>7, <2>8 DEF Standing
  <2>11. ~stop' /\ ~patient' => ~anyFailure'
    BY <1>2, <2>9
  <2>12. ~anyFailure' => ~anyFailure /\ ~child.failed /\ AllSucceed(pending')
    <3>1. ~FailedNow => ~child.failed /\ \A k \in 1 .. Len(pending') : pending'[k].status = "success"
      BY DEF FailedNow
    <3>2. pending' \in Seq(Rows)
      <4>1. pending' = Materialized(out, Trials(n), format, child.failed)
        BY <1>11, <2>2 DEF Collect, Current, Trials
      <4>2. QED
        BY <1>1, <1>7, <4>1, PendingType
    <3>3. DOMAIN pending' = 1 .. Len(pending')
      BY <3>2
    <3>4. QED
      BY <2>9, <3>1, <3>3 DEF AllSucceed
  <2>13. AllSucceed(<< >>)
    BY DEF AllSucceed
  <2>14. ~anyFailure' =>
             \A j \in DOMAIN schedule' : Done(j)' =>
                 history'[j].launched /\ ~history'[j].failed /\ AllSucceed(Readable(j)')
    BY <1>2, <1>6, <2>3, <2>4, <2>5, <2>6, <2>8, <2>12, <2>13 DEF Standing
  <2>15. ~patient => \A j \in DOMAIN schedule : j < n => AllSucceed(Readable(j)')
    BY <1>6, <2>2, <2>5, <2>7 DEF Standing, Done
  <2>16. QED
    BY <1>2, <2>2, <2>7, <2>10, <2>11, <2>12, <2>14, <2>15 DEF Standing
<1>12. CASE ~WriteRow /\ ~Collect
  <2>1. UNCHANGED <<file, history>> /\ \A j : Readable(j)' = Readable(j)
    BY <1>8, <1>12, OtherwiseSame DEF Readable
  <2>2. CASE SkipItem \/ RefuseItem
    <3>1. PICK n \in DOMAIN schedule : n = item /\ n = item'
      BY <1>3, <2>2 DEF SkipItem, RefuseItem, Launchable
    <3>2. /\ pc = "item" /\ pc' = "write" /\ anyFailure'
          /\ ~stop' => ~stop /\ patient /\ schedule[n].entry # "usable"
      BY <1>7, <2>2, <3>1 DEF SkipItem, RefuseItem, Launchable, Current
    <3>3. history[n] = NotLaunched /\ ~history[n].launched
      BY <1>6, <3>1, <3>2 DEF AtFrontier, NotLaunched
    <3>4. \A j \in DOMAIN schedule : Done(j)' <=> Done(j) \/ j = n
      BY <1>2, <1>3, <3>1, <3>2 DEF Done
    <3>5. ~stop' => \A j \in DOMAIN schedule' :
              Done(j)' /\ schedule'[j].entry = "usable" => history'[j].launched
      BY <1>2, <1>6, <2>1, <3>2, <3>4 DEF Standing
    <3>6. QED
      BY <1>2, <2>1, <3>1, <3>2, <3>3, <3>5 DEF Standing
  <2>3. CASE NextItem
    <3>1. /\ pc = "write" /\ pc' = "item" /\ item' = item + 1 /\ UNCHANGED <<anyFailure, stop, pending>>
      BY <2>3 DEF NextItem
    <3>2. \A j \in DOMAIN schedule : Done(j)' => Done(j)
      BY <1>3, <3>1 DEF Done
    <3>3. QED
      BY <1>2, <1>6, <2>1, <3>1, <3>2 DEF Standing
  <2>4. CASE Launch
    <3>1. /\ pc = "item" /\ pc' = "wait" /\ UNCHANGED <<item, anyFailure, stop, pending>>
          /\ ~stop /\ item \in DOMAIN schedule /\ schedule[item].entry = "usable"
      BY <1>3, <2>4 DEF Launch, Launchable, Current
    <3>2. \A j \in DOMAIN schedule : Done(j)' => Done(j)
      BY <1>3, <3>1 DEF Done
    <3>3. QED
      BY <1>2, <1>6, <2>1, <3>1, <3>2 DEF Standing
  <2>5. CASE ~SkipItem /\ ~RefuseItem /\ ~NextItem /\ ~Launch
    <3>1. /\ UNCHANGED <<item, anyFailure, stop, pending>>
          /\ UNCHANGED pc \/ (pc = "start" /\ pc' = "item")
      BY <1>8, <1>9, <1>12, <2>5 DEF Next, ChildStep, StrayStep, RunnerStep, Mishap, Open, vars
    <3>2. \A j \in DOMAIN schedule : Done(j)' => Done(j)
      BY <1>3, <3>1 DEF Done
    <3>3. QED
      BY <1>2, <1>6, <2>1, <3>1, <3>2 DEF Standing
  <2>6. QED
    BY <2>2, <2>3, <2>4, <2>5
<1>13. QED
  BY <1>10, <1>11, <1>12

\* An exit status of 0 is given when nothing was amiss, and nothing is written after it.
LEMMA PassedStep ==
    ASSUME Inductive, [Next]_vars
    PROVE  Passed'
<1>1. TypeOK /\ OneRun /\ Passed
  BY DEF Inductive
<1>2. UNCHANGED <<schedule, patient, format>>
  BY SameCampaign
<1>3. SUFFICES ASSUME exits' # << >>, exits'[1] = 0
               PROVE  /\ ~Torn'
                      /\ \A i \in DOMAIN schedule :
                            /\ Whole(i, Readable(i))' /\ AllSucceed(Readable(i)')
                            /\ history'[i].launched /\ ~history'[i].failed
  BY <1>2 DEF Passed
<1>4. ASSUME ~Torn, UNCHANGED <<file, history>>,
             \A i \in DOMAIN schedule :
                 /\ Whole(i, Readable(i)) /\ AllSucceed(Readable(i))
                 /\ history[i].launched /\ ~history[i].failed
      PROVE  /\ ~Torn'
             /\ \A i \in DOMAIN schedule :
                   /\ Whole(i, Readable(i))' /\ AllSucceed(Readable(i)')
                   /\ history'[i].launched /\ ~history'[i].failed
  <2>1. Torn' = Torn /\ \A i : Readable(i)' = Readable(i)
    BY <1>4 DEF Torn, Readable
  <2>2. QED
    BY <1>2, <1>4, <2>1 DEF Whole
<1>5. CASE exits = << >>
  <2>1. Finish /\ ~anyFailure
    BY <1>1, <1>3, <1>5, ExitsStep
  <2>2. UNCHANGED <<file, history>> /\ item > Len(schedule)
    BY <2>1 DEF Finish
  <2>3. \A i \in DOMAIN schedule : i < item /\ Done(i)
    BY <2>2, ItemStep DEF Done
  <2>4. ~Torn
    BY <1>5 DEF Inductive, InOrder
  <2>5. \A i \in DOMAIN schedule : Whole(i, Readable(i))
    BY <2>3 DEF Inductive, Filed
  <2>6. \A i \in DOMAIN schedule :
            history[i].launched /\ ~history[i].failed /\ AllSucceed(Readable(i))
    BY <1>5, <2>1, <2>3 DEF Inductive, Flags, Standing
  <2>7. QED
    BY <1>4, <2>2, <2>4, <2>5, <2>6
<1>6. CASE exits # << >>
  <2>1. exits[1] = 0
    BY <1>1, <1>3, <1>6, ExitsStep
  <2>2. pc \notin {"item", "wait", "write"}
    BY <1>1, <1>6 DEF OneRun
  <2>3. UNCHANGED <<file, history>>
    BY <2>2, OtherwiseSame DEF WriteRow, WriteFails, Collect, Undecodable
  <2>4. QED
    BY <1>1, <1>4, <1>6, <2>1, <2>3 DEF Passed
<1>7. QED
  BY <1>5, <1>6

-----------------------------------------------------------------------------
(* The invariant.                                                          *)

\* Before the first run there is nothing yet.
LEMMA InductiveInit == Init => Inductive
<1> SUFFICES ASSUME Init PROVE Inductive
  OBVIOUS
<1>1. TypeOK
  <2>1. << >> \in Seq(Rows) /\ << >> \in Seq(Lines) /\ << >> \in Seq(Rows \cup {Junk})
        /\ << >> \in Seq({0, 1, Killed})
    OBVIOUS
  <2>2. schedule \in Seq(Items)
    BY RunnerAssumption DEF Init, schedule
  <2>3. 1 \in 1 .. Len(schedule) + 1
    BY <2>2
  <2>4. NotLaunched \in [launched : BOOLEAN, out : Seq(Rows \cup {Junk}), failed : BOOLEAN]
    BY <2>1 DEF NotLaunched
  <2>5. history \in [DOMAIN schedule -> [launched : BOOLEAN, out : Seq(Rows \cup {Junk}),
                                         failed : BOOLEAN]]
    BY <2>4 DEF Init
  <2>6. child \in [pc : {"none", "setup", "trials", "unmeasured", "exited"}, trial : Nat,
                   failed : BOOLEAN, origin : {None, "prerequisite", "benchmark", "prior-failure"}]
    BY DEF Init, NoChild
  <2>7. QED
    BY <2>1, <2>3, <2>5, <2>6 DEF Init, TypeOK
<1>2. \A i : RowsOf(i) = << >> /\ Readable(i) = << >>
  BY TakenEmpty DEF Init, RowsOf, Readable
<1>3. \A i \in DOMAIN schedule : history[i] = NotLaunched
  BY DEF Init
<1>4. ~Torn /\ DOMAIN file = {}
  BY DEF Init, Torn
<1>5. \A i \in DOMAIN schedule : i \in Nat \ {0}
  BY <1>1, CampaignFacts
<1>6. Filed
  <2> SUFFICES ASSUME NEW i \in DOMAIN schedule
               PROVE  \E rows : Whole(i, rows) /\ Prefix(Readable(i), rows)
    BY <1>5 DEF Filed, Init
  <2>1. PICK rows : Whole(i, rows)
    BY <1>3, MadeExists DEF Whole, NotLaunched
  <2>2. Len(rows) \in Nat
    BY <1>1, <2>1, WholeIs
  <2>3. Prefix(<< >>, rows)
    BY <2>2 DEF Prefix
  <2>4. QED
    BY <1>2, <2>1, <2>3
<1>7. AtFrontier
  BY <1>2, <1>3 DEF Init, AtFrontier
<1>8. Standing
  <2>1. \A j \in DOMAIN schedule : ~Done(j)
    BY <1>5 DEF Init, Done
  <2>2. QED
    BY <2>1 DEF Init, Standing, AllSucceed
<1>9. OneRun /\ InOrder /\ Passed
  BY <1>4 DEF Init, OneRun, InOrder, Passed
<1>10. QED
  BY <1>1, <1>6, <1>7, <1>8, <1>9 DEF Inductive, Frontier, Flags

\* Every step keeps the whole of it.
LEMMA InductiveStep == Inductive /\ [Next]_vars => Inductive'
<1> SUFFICES ASSUME Inductive, [Next]_vars PROVE Inductive'
  OBVIOUS
<1>1. TypeOK'
  <2>1. CASE ChildStep \/ StrayStep
    BY <2>1, ChildType DEF Inductive
  <2>2. CASE RunnerStep \/ Mishap \/ Kill \/ Rerun
    <3>1. pc = "wait" => item \in DOMAIN schedule
      BY DEF Inductive, OneRun, Flags, Standing
    <3>2. pc = "write" => item \in DOMAIN schedule
      BY DEF Inductive, OneRun, Frontier, AtFrontier
    <3>3. QED
      BY <2>2, <3>1, <3>2, RunnerType DEF Inductive
  <2>3. CASE UNCHANGED vars
    BY <2>3 DEF vars, Inductive, TypeOK, schedule
  <2>4. QED
    BY <2>1, <2>2, <2>3 DEF Next
<1>2. QED
  BY <1>1, OneRunStep, InOrderStep, FiledStep, FrontierStep, FlagsStep, PassedStep DEF Inductive

\* What is in the file of each item is the beginning of what the runner made of it, and the
\* flags and the exit status stand for what they should, in every reachable state.
THEOREM Invariance == Spec => []Inductive
BY InductiveInit, InductiveStep, PTL DEF Spec

\* Every variable keeps the shape the code gives it.
THEOREM TypeCorrect == Spec => []TypeOK
<1>1. Inductive => TypeOK
  BY DEF Inductive
<1>2. QED
  BY <1>1, Invariance, PTL

-----------------------------------------------------------------------------
(* What a trial is recorded as.                                            *)

\* What was made of a launched item comes from its output, of another it is skips.
LEMMA WholeCases ==
    ASSUME TypeOK, NEW i \in DOMAIN schedule, NEW rows, Whole(i, rows)
    PROVE  /\ history[i].launched =>
                  /\ schedule[i].entry = "usable"
                  /\ \E n, origin :
                         /\ origin \in {"subprocess", "output-validation"}
                         /\ MadeFrom(history[i].out, Trials(i), rows, n, origin)
           /\ ~history[i].launched =>
                  /\ history[i].out = << >>
                  /\ \E origin \in UnstartedOrigins :
                         /\ schedule[i].entry # "usable" => origin = "prerequisite"
                         /\ \A k \in 1 .. Trials(i) : rows[k] = Skip(k - 1, origin)
<1>1. Trials(i) \in Nat \ {0} /\ history[i].out \in Output
  BY CampaignFacts
<1>2. CASE history[i].launched
  <2>1. /\ schedule[i].entry = "usable"
        /\ rows = Materialized(history[i].out, Trials(i), format, history[i].failed)
    BY <1>2 DEF Whole, MadeOf, Trials
  <2>2. QED
    BY <1>1, <1>2, <2>1, MadeIs
<1>3. CASE ~history[i].launched
  <2>1. history[i].out = << >>
    BY <1>3 DEF Whole, MadeOf, NotLaunched
  <2>2. PICK origin \in UnstartedOrigins :
            /\ schedule[i].entry # "usable" => origin = "prerequisite"
            /\ rows = AllSkipped(Trials(i), origin)
    BY <1>3 DEF Whole, MadeOf, Trials
  <2>3. \A k \in 1 .. Trials(i) : rows[k] = Skip(k - 1, origin)
    BY <1>1, <2>2, SkippedIs
  <2>4. QED
    BY <1>3, <2>1, <2>2, <2>3
<1>4. QED
  BY <1>2, <1>3

\* What is in the file of an item is a beginning of what was made of it.
LEMMA Filing ==
    ASSUME Inductive, NEW i \in DOMAIN schedule
    PROVE  \E rows \in Seq(Rows) :
               /\ Whole(i, rows) /\ Len(rows) = Trials(i) /\ Trials(i) \in Nat \ {0}
               /\ DOMAIN rows = 1 .. Trials(i)
               /\ \A k \in 1 .. Trials(i) : rows[k].trial = k - 1 /\ ValidRow(rows[k])
               /\ Readable(i) \in Seq(Rows) /\ Len(Readable(i)) \in 0 .. Trials(i)
               /\ DOMAIN Readable(i) = 1 .. Len(Readable(i))
               /\ \A k \in 1 .. Len(Readable(i)) : Readable(i)[k] = rows[k]
<1>1. TypeOK
  BY DEF Inductive
<1>2. PICK rows : Whole(i, rows) /\ Prefix(Readable(i), rows)
  BY DEF Inductive, Filed
<1>3. PICK kept \in Seq(Rows) : kept = Readable(i)
  BY <1>1, FileFacts
<1>4. /\ rows \in Seq(Rows) /\ Len(rows) = Trials(i) /\ Trials(i) \in Nat \ {0}
      /\ DOMAIN rows = 1 .. Trials(i)
      /\ \A k \in 1 .. Trials(i) : rows[k].trial = k - 1 /\ ValidRow(rows[k])
  BY <1>1, <1>2, WholeIs
<1>5. Len(kept) \in Nat /\ DOMAIN kept = 1 .. Len(kept)
  OBVIOUS
<1>6. Len(kept) <= Len(rows) /\ \A k \in DOMAIN kept : kept[k] = rows[k]
  BY <1>2, <1>3 DEF Prefix
<1>7. Len(kept) \in 0 .. Trials(i) /\ \A k \in 1 .. Len(kept) : kept[k] = rows[k]
  BY <1>4, <1>5, <1>6
<1>8. QED
  BY <1>2, <1>3, <1>4, <1>5, <1>7

\* Each trial is in the file once at most and in order, and once a run is through, each is.
LEMMA OnceInOrder == Inductive => EveryTrialOnce
<1> SUFFICES ASSUME Inductive PROVE EveryTrialOnce
  OBVIOUS
<1>1. ASSUME NEW i \in DOMAIN schedule
      PROVE  /\ \A k \in DOMAIN Readable(i) : Readable(i)[k].trial = k - 1
             /\ Len(Readable(i)) <= schedule[i].trials
             /\ Completed => Len(Readable(i)) = schedule[i].trials
  <2>1. PICK rows \in Seq(Rows) :
            /\ Whole(i, rows) /\ Len(rows) = Trials(i) /\ Trials(i) \in Nat \ {0}
            /\ DOMAIN rows = 1 .. Trials(i)
            /\ \A k \in 1 .. Trials(i) : rows[k].trial = k - 1 /\ ValidRow(rows[k])
            /\ Readable(i) \in Seq(Rows) /\ Len(Readable(i)) \in 0 .. Trials(i)
            /\ DOMAIN Readable(i) = 1 .. Len(Readable(i))
            /\ \A k \in 1 .. Len(Readable(i)) : Readable(i)[k] = rows[k]
    BY Filing
  <2>2. \A k \in 1 .. Len(Readable(i)) : k \in 1 .. Trials(i)
    BY <2>1
  <2>3. ASSUME Completed PROVE Len(Readable(i)) = schedule[i].trials
    <3>1. i < item
      <4>1. item \in Nat /\ Len(schedule) \in Nat /\ i \in 1 .. Len(schedule)
        BY CampaignFacts DEF Inductive, TypeOK
      <4>2. QED
        BY <2>3, <4>1 DEF Completed
    <3>2. Whole(i, Readable(i))
      BY <3>1 DEF Inductive, Filed
    <3>3. QED
      BY <3>2, WholeIs DEF Inductive, Trials
  <2>4. QED
    BY <2>1, <2>2, <2>3 DEF Trials
<1>2. QED
  BY <1>1 DEF EveryTrialOnce, Inductive, InOrder

\* A trial the benchmark completed is among those taken.
LEMMA MeasuredTaken ==
    ASSUME NEW o \in Output, NEW trials \in Nat \ {0}, NEW rows, NEW n, NEW origin,
           MadeFrom(o, trials, rows, n, origin),
           NEW k \in 1 .. trials, k <= Len(o), Measured(o, k)
    PROVE  rows[k] = o[k]
<1>1. n \in Nat /\ Len(o) \in Nat /\ n <= trials
  BY DEF MadeFrom, Output
<1>2. ASSUME NEW j \in 1 .. k PROVE Acceptable(o, j, trials)
  <2>1. ValidRow(o[j]) /\ o[j].trial = j - 1 /\ j <= trials
    BY DEF Measured
  <2>2. ~\E m \in 1 .. j - 1 : Fatal(o[m])
    BY DEF Measured
  <2>3. QED
    BY <2>1, <2>2 DEF Acceptable
<1>3. k <= n
  <2> SUFFICES ASSUME n < k PROVE FALSE
    BY <1>1
  <2>1. n < Len(o) /\ n + 1 \in 1 .. k
    BY <1>1
  <2>2. ~Acceptable(o, n + 1, trials)
    BY <2>1 DEF MadeFrom
  <2>3. QED
    BY <1>2, <2>1, <2>2
<1>4. QED
  BY <1>1, <1>3 DEF MadeFrom

\* A completed trial keeps its row.
LEMMA KeptAsMeasured == Inductive => MeasurementsKept
<1> SUFFICES ASSUME Inductive, NEW i \in DOMAIN schedule, NEW k \in DOMAIN Readable(i),
                    k <= Len(history[i].out), k <= schedule[i].trials,
                    Measured(history[i].out, k)
             PROVE  Readable(i)[k] = history[i].out[k]
  BY DEF MeasurementsKept
<1>1. TypeOK /\ Trials(i) \in Nat \ {0} /\ history[i].out \in Output
  BY CampaignFacts DEF Inductive
<1>2. PICK rows \in Seq(Rows) :
          /\ Whole(i, rows)
          /\ DOMAIN Readable(i) = 1 .. Len(Readable(i)) /\ Len(Readable(i)) \in 0 .. Trials(i)
          /\ \A m \in 1 .. Len(Readable(i)) : Readable(i)[m] = rows[m]
  BY Filing
<1>3. k \in 1 .. Trials(i) /\ Readable(i)[k] = rows[k]
  BY <1>1, <1>2
<1>4. history[i].launched
  <2>1. SUFFICES ASSUME ~history[i].launched PROVE FALSE
    OBVIOUS
  <2>2. history[i].out = << >>
    BY <1>1, <1>2, <2>1, WholeCases
  <2>3. Len(history[i].out) = 0
    BY <2>2
  <2>4. QED
    BY <1>3, <2>3
<1>5. PICK n, origin : MadeFrom(history[i].out, Trials(i), rows, n, origin)
  BY <1>1, <1>2, <1>4, WholeCases
<1>6. rows[k] = history[i].out[k]
  BY <1>1, <1>3, <1>5, MeasuredTaken
<1>7. QED
  BY <1>3, <1>6

\* The only started row of the runner's own is the one after those it took.
LEMMA OneInvention == Inductive => InventsOneFailure
<1> SUFFICES ASSUME Inductive, NEW i \in DOMAIN schedule, NEW k \in DOMAIN Readable(i),
                    Invented(i, k), Readable(i)[k].attempted
             PROVE  /\ history[i].launched
                    /\ \A m \in k + 1 .. Len(Readable(i)) : PriorSkip(Readable(i)[m])
  BY DEF InventsOneFailure
<1>1. TypeOK /\ Trials(i) \in Nat \ {0} /\ history[i].out \in Output
  BY CampaignFacts DEF Inductive
<1>2. PICK rows \in Seq(Rows) :
          /\ Whole(i, rows)
          /\ DOMAIN Readable(i) = 1 .. Len(Readable(i)) /\ Len(Readable(i)) \in 0 .. Trials(i)
          /\ \A m \in 1 .. Len(Readable(i)) : Readable(i)[m] = rows[m]
  BY Filing
<1>3. k \in 1 .. Trials(i) /\ Readable(i)[k] = rows[k] /\ Len(Readable(i)) \in Nat
  BY <1>1, <1>2
<1>4. \A t, origin : ~Skip(t, origin).attempted
  BY DEF Skip
<1>5. history[i].launched
  BY <1>1, <1>2, <1>3, <1>4, WholeCases
<1>6. PICK n, origin : MadeFrom(history[i].out, Trials(i), rows, n, origin)
  BY <1>1, <1>2, <1>5, WholeCases
<1>7. n \in Nat /\ n <= Len(history[i].out) /\ Len(history[i].out) \in Nat
  BY <1>1, <1>6 DEF MadeFrom, Output
<1>8. ~(k <= n)
  <2>1. SUFFICES ASSUME k <= n PROVE FALSE
    OBVIOUS
  <2>2. rows[k] = history[i].out[k] /\ k <= Len(history[i].out)
    BY <1>3, <1>6, <1>7, <2>1 DEF MadeFrom
  <2>3. QED
    BY <1>3, <2>2 DEF Invented
<1>9. \A m \in 1 .. Trials(i) : m > n + 1 => rows[m] = Skip(m - 1, "prior-failure")
  BY <1>6 DEF MadeFrom
<1>10. k = n + 1
  BY <1>3, <1>4, <1>7, <1>8, <1>9
<1>11. ASSUME NEW m \in k + 1 .. Len(Readable(i)) PROVE PriorSkip(Readable(i)[m])
  <2>1. m \in 1 .. Trials(i) /\ m > n + 1 /\ Readable(i)[m] = rows[m]
    BY <1>1, <1>2, <1>3, <1>7, <1>10
  <2>2. Readable(i)[m] = Skip(m - 1, "prior-failure")
    BY <1>9, <2>1
  <2>3. PriorSkip(Skip(m - 1, "prior-failure"))
    BY DEF PriorSkip, Skip
  <2>4. QED
    BY <2>2, <2>3
<1>12. QED
  BY <1>5, <1>11

\* Every trial of the schedule is accounted for once, in order and as what it was, whatever
\* the benchmarks write and wherever the runner is stopped.
THEOREM TrialsAreAccounted == Spec => []TrialsAccounted
<1>1. Inductive => TrialsAccounted
  BY OnceInOrder, KeptAsMeasured, OneInvention DEF TrialsAccounted
<1>2. QED
  BY <1>1, Invariance, PTL

-----------------------------------------------------------------------------
(* Stops, exit statuses and the validator.                                 *)

\* A line of an item with rows that succeed is a success.
LEMMA LineSucceeds ==
    ASSUME TypeOK, NEW k \in DOMAIN file, ~Torn, AllSucceed(Readable(file[k].item))
    PROVE  file[k].row.status = "success"
<1>1. file[k].row # Junk
  BY DEF Torn
<1>2. PICK i : i = file[k].item
  OBVIOUS
<1>3. PICK m \in DOMAIN Readable(i) : Readable(i)[m] = file[k].row
  BY <1>1, <1>2, FileFacts
<1>4. QED
  BY <1>2, <1>3 DEF AllSucceed

\* No benchmark is launched after a stop.
LEMMA LaunchedBeforeStop == Inductive => StopIsFinal
<1> SUFFICES ASSUME Inductive, pc = "wait"
             PROVE  /\ \A j \in 1 .. item - 1 :
                           /\ schedule[j].entry = "usable" => history[j].launched
                           /\ ~patient => schedule[j].entry = "usable" /\ ~history[j].failed
                    /\ ~patient => \A k \in DOMAIN file : file[k].row.status = "success"
  BY DEF StopIsFinal
<1>1. TypeOK /\ exits = << >> /\ Standing /\ AtFrontier /\ InOrder /\ Filed
  BY DEF Inductive, OneRun, Flags, Frontier
<1>2. ~stop /\ item \in DOMAIN schedule
  BY <1>1 DEF Standing
<1>3. DOMAIN schedule = 1 .. Len(schedule) /\ Len(schedule) \in Nat
  BY <1>1, CampaignFacts
<1>4. \A j \in 1 .. item - 1 : j \in DOMAIN schedule /\ j < item /\ Done(j)
  BY <1>2, <1>3 DEF Done
<1>5. ~patient => ~anyFailure
  BY <1>1, <1>2 DEF Standing
<1>6. ~patient => \A j \in 1 .. item - 1 :
                      history[j].launched /\ ~history[j].failed /\ AllSucceed(Readable(j))
  BY <1>1, <1>4, <1>5 DEF Standing
<1>7. \A j \in 1 .. item - 1 : history[j].launched => schedule[j].entry = "usable"
  <2>1. \A j \in 1 .. item - 1 : Whole(j, Readable(j))
    BY <1>1, <1>4 DEF Filed
  <2>2. QED
    BY <2>1 DEF Whole, MadeOf
<1>8. ASSUME NEW k \in DOMAIN file PROVE file[k].item \in 1 .. item - 1
  <2>1. file[k].item \in DOMAIN schedule /\ file[k].item <= item
    BY <1>1 DEF InOrder
  <2>2. PICK n \in DOMAIN schedule : n = item /\ RowsOf(n) = << >>
    BY <1>1, <1>2 DEF AtFrontier
  <2>3. file[k].item # n
    <3>1. DOMAIN RowsOf(n) = {}
      BY <2>2
    <3>2. QED
      BY <1>1, <3>1, FileFacts
  <2>4. QED
    BY <1>2, <1>3, <2>1, <2>2, <2>3
<1>9. ~Torn
  BY <1>1 DEF InOrder
<1>10. ~patient => \A k \in DOMAIN file : file[k].row.status = "success"
  BY <1>1, <1>6, <1>8, <1>9, LineSucceeds
<1>11. \A j \in 1 .. item - 1 : schedule[j].entry = "usable" => history[j].launched
  BY <1>1, <1>2, <1>4 DEF Standing
<1>12. QED
  BY <1>6, <1>7, <1>10, <1>11

\* Nothing is launched after a failure in a campaign that does not continue on failure, nor
\* after an executable was found changed.
THEOREM StopsAreFinal == Spec => []StopIsFinal
BY LaunchedBeforeStop, Invariance, PTL

\* A file with all that was made of each item, no skip origins mixed and no failure of the
\* runner's own behind a fatal row is valid.
LEMMA WholeIsValid ==
    ASSUME TypeOK, ~Torn, schedule # << >>, \A i \in DOMAIN schedule : Whole(i, Readable(i)),
           \A i \in DOMAIN schedule : ~FatalThenInvented(i) /\ OneSkipOrigin(RowsOf(i))
    PROVE  ValidCampaign
<1>1. /\ schedule \in Seq(Items) /\ Len(schedule) \in Nat /\ DOMAIN schedule = 1 .. Len(schedule)
      /\ \A i \in DOMAIN schedule : Trials(i) \in Nat \ {0} /\ history[i].out \in Output
  BY CampaignFacts
<1>2. ASSUME NEW i \in DOMAIN schedule
      PROVE  /\ RowsOf(i) \in Seq(Rows) /\ Whole(i, RowsOf(i))
             /\ Len(RowsOf(i)) = Trials(i) /\ DOMAIN RowsOf(i) = 1 .. Trials(i)
             /\ \A k \in 1 .. Trials(i) : RowsOf(i)[k].trial = k - 1 /\ ValidRow(RowsOf(i)[k])
  <2>1. PICK rows : rows = RowsOf(i) /\ rows = Readable(i)
    BY CleanRows
  <2>2. Whole(i, rows)
    BY <2>1
  <2>3. QED
    BY <2>1, <2>2, WholeIs
<1>3. file # << >>
  <2>1. 1 \in DOMAIN schedule
    BY <1>1
  <2>2. 1 \in DOMAIN RowsOf(1)
    BY <1>1, <1>2, <2>1
  <2>3. PICK k \in DOMAIN file : TRUE
    BY <2>2, FileFacts
  <2>4. QED
    BY <2>3
<1>4. ASSUME NEW i \in DOMAIN schedule PROVE OnlySkipsAfterFatal(RowsOf(i))
  <2>1. PICK rows \in Seq(Rows) :
            /\ rows = RowsOf(i) /\ Whole(i, rows) /\ DOMAIN rows = 1 .. Trials(i)
            /\ \A k \in 1 .. Trials(i) : rows[k].trial = k - 1
    BY <1>2
  <2>2. SUFFICES ASSUME NEW j \in 1 .. Trials(i), NEW k \in 1 .. Trials(i), Fatal(rows[j]),
                        rows[j].trial < rows[k].trial
                 PROVE  PriorSkip(rows[k])
    BY <2>1 DEF OnlySkipsAfterFatal
  <2>3. j < k
    BY <1>1, <2>1, <2>2
  <2>4. history[i].launched
    <3>1. SUFFICES ASSUME ~history[i].launched PROVE FALSE
      OBVIOUS
    <3>2. PICK origin : rows[j] = Skip(j - 1, origin)
      BY <2>1, <3>1, WholeCases
    <3>3. ~Fatal(Skip(j - 1, origin))
      BY DEF Fatal, Skip
    <3>4. QED
      BY <2>2, <3>2, <3>3
  <2>5. PICK n, origin : /\ origin \in {"subprocess", "output-validation"}
                         /\ MadeFrom(history[i].out, Trials(i), rows, n, origin)
    BY <2>1, <2>4, WholeCases
  <2>6. n \in Nat /\ n <= Trials(i)
    BY <1>1, <2>5 DEF MadeFrom, Output
  <2>7. CASE k <= n
    <3>1. rows[k] = history[i].out[k] /\ rows[j] = history[i].out[j]
      BY <1>1, <2>3, <2>5, <2>6, <2>7 DEF MadeFrom
    <3>2. Acceptable(history[i].out, k, Trials(i))
      BY <2>5, <2>6, <2>7 DEF MadeFrom
    <3>3. j \in 1 .. k - 1 /\ Fatal(history[i].out[j])
      BY <1>1, <2>2, <2>3, <3>1
    <3>4. QED
      BY <3>1, <3>2, <3>3 DEF Acceptable
  <2>8. CASE k = n + 1
    <3>1. rows[k].origin = origin
      <4>1. rows[k] = Failure(n, origin)
        BY <2>5, <2>6, <2>8 DEF MadeFrom
      <4>2. QED
        BY <4>1 DEF Failure
    <3>2. j \in 1 .. k - 1
      BY <1>1, <2>3
    <3>3. FatalThenInvented(i)
      BY <2>1, <2>2, <2>5, <3>1, <3>2 DEF FatalThenInvented
    <3>4. QED
      BY <3>3
  <2>9. CASE k > n + 1
    <3>1. rows[k] = Skip(k - 1, "prior-failure")
      BY <2>5, <2>9 DEF MadeFrom
    <3>2. QED
      BY <3>1 DEF PriorSkip, Skip
  <2>10. QED
    BY <1>1, <2>6, <2>7, <2>8, <2>9
<1>5. ASSUME NEW i \in DOMAIN schedule PROVE EachTrialOnce(RowsOf(i), Trials(i))
  <2>1. PICK rows \in Seq(Rows) :
            /\ rows = RowsOf(i) /\ DOMAIN rows = 1 .. Trials(i) /\ Len(rows) = Trials(i)
            /\ \A k \in 1 .. Trials(i) : rows[k].trial = k - 1
    BY <1>2
  <2>2. Trials(i) \in Nat
    BY <1>1
  <2>3. \A t \in 0 .. Trials(i) - 1 : t + 1 \in 1 .. Trials(i) /\ (t + 1) - 1 = t
    BY <2>2
  <2>4. \A t \in 0 .. Trials(i) - 1 : \E k \in DOMAIN rows : rows[k].trial = t
    BY <2>1, <2>3
  <2>5. \A k \in DOMAIN rows : rows[k].trial \in 0 .. Trials(i) - 1
    BY <2>1, <2>2
  <2>6. {rows[k].trial : k \in DOMAIN rows} = 0 .. Trials(i) - 1
    BY <2>4, <2>5
  <2>7. QED
    BY <2>1, <2>6 DEF EachTrialOnce
<1>6. ASSUME NEW i \in DOMAIN schedule, schedule[i].entry = "absent", NEW k \in DOMAIN RowsOf(i)
      PROVE  RowsOf(i)[k] = Skip(k - 1, "prerequisite")
  <2>1. PICK rows : rows = RowsOf(i) /\ Whole(i, rows) /\ DOMAIN rows = 1 .. Trials(i)
    BY <1>2
  <2>2. schedule[i].entry # "usable"
    BY <1>6
  <2>3. ~history[i].launched
    BY <2>1, <2>2, WholeCases
  <2>4. PICK origin \in UnstartedOrigins :
            /\ schedule[i].entry # "usable" => origin = "prerequisite"
            /\ \A m \in 1 .. Trials(i) : rows[m] = Skip(m - 1, origin)
    BY <2>1, <2>3, WholeCases
  <2>5. k \in 1 .. Trials(i)
    BY <1>6, <2>1
  <2>6. QED
    BY <2>1, <2>2, <2>4, <2>5
<1>7. ASSUME NEW i \in DOMAIN schedule PROVE ValidInvocation(RowsOf(i), schedule[i].trials)
  BY <1>2, <1>4, <1>5 DEF ValidInvocation, Trials
<1>8. QED
  BY <1>3, <1>6, <1>7 DEF ValidCampaign

\* A file with rows for all trials has all that was made of each item.
LEMMA ValidIsWhole ==
    ASSUME Inductive, ValidCampaign, NEW i \in DOMAIN schedule
    PROVE  Whole(i, RowsOf(i)) /\ RowsOf(i) = Readable(i) /\ Len(RowsOf(i)) = Trials(i)
<1>1. TypeOK /\ ~Torn /\ Len(RowsOf(i)) = Trials(i)
  BY DEF Inductive, ValidCampaign, ValidInvocation, EachTrialOnce, Trials
<1>2. PICK rows \in Seq(Rows) :
          /\ Whole(i, rows) /\ Len(rows) = Trials(i) /\ Trials(i) \in Nat \ {0}
          /\ Readable(i) \in Seq(Rows)
          /\ \A k \in 1 .. Len(Readable(i)) : Readable(i)[k] = rows[k]
  BY Filing
<1>3. PICK kept \in Seq(Rows) : kept = Readable(i) /\ kept = RowsOf(i)
  BY <1>1, <1>2, CleanRows
<1>4. kept = rows
  <2>1. Len(kept) = Len(rows) /\ \A k \in 1 .. Len(kept) : kept[k] = rows[k]
    BY <1>1, <1>2, <1>3
  <2>2. QED
    BY <2>1
<1>5. QED
  BY <1>1, <1>2, <1>3, <1>4

\* Exit status 0 is that of a run whose benchmarks all ended well, and its file passes.
LEMMA ZeroIsPass == Inductive => ExitZeroIsPass
<1> SUFFICES ASSUME Inductive, exits # << >>, exits[1] = 0
             PROVE  /\ ValidationPasses \/ schedule = << >>
                    /\ \A i \in DOMAIN schedule : history[i].launched /\ ~history[i].failed
  BY DEF ExitZeroIsPass
<1>1. /\ ~Torn /\ TypeOK /\ InOrder
      /\ \A i \in DOMAIN schedule :
            /\ Whole(i, Readable(i)) /\ AllSucceed(Readable(i))
            /\ history[i].launched /\ ~history[i].failed
  BY DEF Inductive, Passed
<1>2. SUFFICES ASSUME schedule # << >> PROVE ValidationPasses
  BY <1>1
<1>3. \A k \in DOMAIN file : file[k].row.status = "success"
  BY <1>1, LineSucceeds DEF InOrder
<1>4. ASSUME NEW i \in DOMAIN schedule PROVE ~FatalThenInvented(i) /\ OneSkipOrigin(RowsOf(i))
  <2>1. PICK rows \in Seq(Rows) : rows = RowsOf(i) /\ AllSucceed(rows)
    BY <1>1, CleanRows, FileFacts
  <2>2. \A k \in DOMAIN rows : rows[k].status # "skipped" /\ ~Fatal(rows[k])
    BY <2>1 DEF AllSucceed, Fatal
  <2>3. OneSkipOrigin(rows)
    BY <2>2 DEF OneSkipOrigin
  <2>4. DOMAIN rows = 1 .. Len(rows) /\ Len(rows) \in Nat
    OBVIOUS
  <2>5. \A k \in DOMAIN rows : \A j \in 1 .. k - 1 : j \in DOMAIN rows
    BY <2>4
  <2>6. ~FatalThenInvented(i)
    BY <2>1, <2>2, <2>5 DEF FatalThenInvented
  <2>7. QED
    BY <2>1, <2>3, <2>6
<1>5. ValidCampaign
  BY <1>1, <1>2, <1>4, WholeIsValid
<1>6. QED
  BY <1>3, <1>5 DEF ValidationPasses

\* A file that passes holds the leading lines of the benchmarks' outputs.
LEMMA PassingIsMeasured ==
    ASSUME Inductive, ValidationPasses, NEW i \in DOMAIN schedule
    PROVE  history[i].launched /\ RowsOf(i) = SubSeq(history[i].out, 1, schedule[i].trials)
<1>1. TypeOK /\ ValidCampaign
  BY DEF Inductive, ValidationPasses
<1>2. Trials(i) \in Nat \ {0} /\ history[i].out \in Output
  BY <1>1, CampaignFacts
<1>3. PICK rows \in Seq(Rows) :
          rows = RowsOf(i) /\ Whole(i, rows) /\ Len(rows) = Trials(i)
  BY <1>1, ValidIsWhole, FileFacts
<1>4. DOMAIN rows = 1 .. Trials(i)
  BY <1>2, <1>3
<1>5. \A k \in 1 .. Trials(i) : rows[k].status = "success"
  <2>1. \A m \in DOMAIN rows : \E k \in DOMAIN file : file[k].row = rows[m]
    BY <1>1, <1>3, FileFacts
  <2>2. \A k \in DOMAIN file : file[k].row.status = "success"
    BY DEF ValidationPasses
  <2>3. QED
    BY <1>4, <2>1, <2>2
<1>6. history[i].launched
  <2>1. SUFFICES ASSUME ~history[i].launched PROVE FALSE
    OBVIOUS
  <2>2. 1 \in 1 .. Trials(i)
    BY <1>2
  <2>3. PICK origin : rows[1] = Skip(1 - 1, origin)
    BY <1>1, <1>3, <2>1, <2>2, WholeCases
  <2>4. Skip(1 - 1, origin).status # "success"
    BY DEF Skip
  <2>5. QED
    BY <1>5, <2>2, <2>3, <2>4
<1>7. PICK n, origin : MadeFrom(history[i].out, Trials(i), rows, n, origin)
  BY <1>1, <1>3, <1>6, WholeCases
<1>8. n \in Nat /\ n <= Trials(i) /\ n <= Len(history[i].out) /\ Len(history[i].out) \in Nat
  BY <1>2, <1>7 DEF MadeFrom, Output
<1>9. n = Trials(i)
  <2>1. SUFFICES ASSUME n < Trials(i) PROVE FALSE
    BY <1>2, <1>8
  <2>2. n + 1 \in 1 .. Trials(i) /\ rows[n + 1] = Failure(n, origin)
    BY <1>2, <1>7, <1>8, <2>1 DEF MadeFrom
  <2>3. Failure(n, origin).status # "success"
    BY DEF Failure
  <2>4. QED
    BY <1>5, <2>2, <2>3
<1>10. \A k \in 1 .. Trials(i) : rows[k] = history[i].out[k]
  BY <1>7, <1>9 DEF MadeFrom
<1>11. PICK o \in Seq(Rows \cup {Junk}) : o = history[i].out
  BY <1>2 DEF Output
<1>12. SubSeq(o, 1, Trials(i)) = [k \in 1 .. Trials(i) |-> o[k]]
  BY <1>2, <1>8, <1>9, <1>11
<1>13. rows = [k \in 1 .. Trials(i) |-> rows[k]]
  BY <1>3, <1>4
<1>14. rows = SubSeq(o, 1, Trials(i))
  BY <1>10, <1>11, <1>12, <1>13
<1>15. QED
  BY <1>3, <1>6, <1>11, <1>14 DEF Trials

\* A pass, by exit status or by the validator, is one of benchmarks that measured every trial.
THEOREM PassesAreMeasured == Spec => []PassIsMeasured
<1>1. Inductive => PassIsMeasured
  BY ZeroIsPass, PassingIsMeasured DEF PassIsMeasured
<1>2. QED
  BY <1>1, Invariance, PTL

\* The file of a run that broke off with rows to write does not validate.
LEMMA BrokenIsRejected == Inductive => BrokenRunRejected
<1> SUFFICES ASSUME Inductive, pc \in {"write", "wait", "ended"}, ~Completed, Len(exits) <= 1,
                    ValidCampaign
             PROVE  item = Len(schedule) /\ pending = << >>
  BY DEF BrokenRunRejected
<1>1. TypeOK /\ OneRun
  BY DEF Inductive
<1>2. AtFrontier
  <2>1. exits # << >> => Len(exits) = 1
    <3>1. exits # << >> => Len(exits) \in Nat \ {0}
      BY <1>1 DEF TypeOK
    <3>2. QED
      BY <3>1
  <2>2. QED
    BY <1>1, <2>1 DEF Inductive, Frontier, OneRun
<1>3. /\ Len(schedule) \in Nat /\ DOMAIN schedule = 1 .. Len(schedule)
      /\ item \in 1 .. Len(schedule)
      /\ \A i \in DOMAIN schedule : Trials(i) \in Nat \ {0}
  BY <1>1, CampaignFacts DEF TypeOK, Completed
<1>4. \A i \in DOMAIN schedule : RowsOf(i) # << >>
  BY <1>3, ValidIsWhole
<1>5. item = Len(schedule)
  <2>1. SUFFICES ASSUME item # Len(schedule) PROVE FALSE
    OBVIOUS
  <2>2. PICK n \in DOMAIN schedule : n > item
    <3>1. \A l \in Nat : item \in 1 .. l /\ item # l => l \in 1 .. l /\ l > item
      OBVIOUS
    <3>2. QED
      BY <1>3, <2>1, <3>1
  <2>3. RowsOf(n) = << >>
    BY <1>2, <2>2 DEF AtFrontier
  <2>4. QED
    BY <1>4, <2>3
<1>6. PICK rows \in Seq(Rows) :
          rows = Readable(item) /\ rows = RowsOf(item) /\ Len(rows) = Trials(item)
  BY <1>1, <1>3, ValidIsWhole, FileFacts
<1>7. PICK rest \in Seq(Rows) : rest = pending
  BY <1>1 DEF TypeOK
<1>8. Whole(item, rows \o rest)
  BY <1>2, <1>3, <1>4, <1>6, <1>7 DEF AtFrontier
<1>9. Len(rows \o rest) = Trials(item)
  BY <1>1, <1>3, <1>8, WholeIs
<1>10. Len(rest) = 0
  BY <1>3, <1>6, <1>9
<1>11. QED
  BY <1>5, <1>7, <1>10

\* The file of a completed run is valid but for what is named.
LEMMA CompletedIsValid == Inductive => RejectedOnlyFor
<1> SUFFICES ASSUME Inductive, Completed, schedule # << >>,
                    \A i \in DOMAIN schedule : ~FatalThenInvented(i) /\ OneSkipOrigin(RowsOf(i))
             PROVE  ValidCampaign
  BY DEF RejectedOnlyFor
<1>1. TypeOK
  BY DEF Inductive
<1>2. item \in Nat /\ Len(schedule) \in Nat /\ DOMAIN schedule = 1 .. Len(schedule)
  BY <1>1, CampaignFacts DEF TypeOK
<1>3. \A i \in DOMAIN schedule : i < item
  BY <1>2 DEF Completed
<1>4. \A i \in DOMAIN schedule : Whole(i, Readable(i))
  BY <1>3 DEF Inductive, Filed
<1>5. ~Torn
  BY <1>2 DEF Inductive, InOrder, Completed
<1>6. QED
  BY <1>1, <1>4, <1>5, WholeIsValid

\* The validator tells a completed run from one that broke off.
THEOREM CompleteFilesAreValid == Spec => []CompleteIsValid
<1>1. Inductive => CompleteIsValid
  BY BrokenIsRejected, CompletedIsValid DEF CompleteIsValid
<1>2. QED
  BY <1>1, Invariance, PTL

-----------------------------------------------------------------------------
(* The runner implements TrialMatrix.                                      *)

StatusOf(rows) == [k \in DOMAIN rows |-> rows[k].status]
Table == [i \in DOMAIN schedule |-> StatusOf(Readable(i))]
Verdict == IF exits = << >> THEN "open" ELSE IF exits[1] = 0 THEN "pass" ELSE "fail"

\* The cells of a table row are those of the rows.
LEMMA StatusFacts ==
    ASSUME NEW rows \in Seq(Rows)
    PROVE  /\ Len(StatusOf(rows)) = Len(rows) /\ DOMAIN StatusOf(rows) = DOMAIN rows
           /\ \A k \in DOMAIN rows : StatusOf(rows)[k] = rows[k].status
           /\ rows = << >> => StatusOf(rows) = << >>
           /\ \A r \in Rows : StatusOf(Append(rows, r)) = Append(StatusOf(rows), r.status)
<1>1. rows \in [1 .. Len(rows) -> Rows] /\ Len(rows) \in Nat
  OBVIOUS
<1>2. \A r \in Rows : r.status \in {"success", "failure", "skipped"}
  BY DEF Rows
<1>3. StatusOf(rows) \in Seq({"success", "failure", "skipped"}) /\ Len(StatusOf(rows)) = Len(rows)
  BY <1>1, <1>2 DEF StatusOf
<1>4. DOMAIN StatusOf(rows) = DOMAIN rows /\ \A k \in DOMAIN rows : StatusOf(rows)[k] = rows[k].status
  BY DEF StatusOf
<1>5. ASSUME rows = << >> PROVE StatusOf(rows) = << >>
  BY <1>3, <1>5
<1>6. ASSUME NEW r \in Rows PROVE StatusOf(Append(rows, r)) = Append(StatusOf(rows), r.status)
  <2>1. PICK more : more = Append(rows, r)
    OBVIOUS
  <2>2. /\ DOMAIN more = 1 .. Len(rows) + 1 /\ more[Len(rows) + 1] = r
        /\ \A k \in 1 .. Len(rows) : more[k] = rows[k]
    BY <2>1
  <2>3. PICK cells \in Seq({"success", "failure", "skipped"}) :
            /\ cells = StatusOf(rows) /\ Len(cells) = Len(rows)
            /\ \A k \in 1 .. Len(rows) : cells[k] = rows[k].status
    BY <1>1, <1>3, <1>4
  <2>4. Append(cells, r.status) =
            [k \in 1 .. Len(rows) + 1 |-> IF k = Len(rows) + 1 THEN r.status ELSE cells[k]]
    BY <1>1, <1>2, <2>3
  <2>5. StatusOf(more) = [k \in 1 .. Len(rows) + 1 |-> more[k].status]
    BY <2>2 DEF StatusOf
  <2>6. \A k \in 1 .. Len(rows) + 1 :
            more[k].status = IF k = Len(rows) + 1 THEN r.status ELSE cells[k]
    BY <1>1, <2>2, <2>3
  <2>7. StatusOf(more) = Append(cells, r.status)
    BY <2>4, <2>5, <2>6
  <2>8. QED
    BY <2>1, <2>3, <2>7
<1>7. QED
  BY <1>3, <1>4, <1>5, <1>6

\* The matrix in terms of the rows in the file.
LEMMA MatrixIs ==
    ASSUME TypeOK
    PROVE  /\ [i \in DOMAIN schedule |-> Statuses(i)] = Table
           /\ DOMAIN [i \in DOMAIN schedule |-> schedule[i].trials] = DOMAIN schedule
           /\ [i \in DOMAIN schedule |-> schedule[i].trials] \in Seq(Nat \ {0})
           /\ patient \in BOOLEAN
           /\ \A i \in DOMAIN schedule :
                 /\ Matrix!Full(i) <=> Len(Readable(i)) = Trials(i)
                 /\ Matrix!Clean(i) <=> AllSucceed(Readable(i))
<1>1. [i \in DOMAIN schedule |-> Statuses(i)] = Table
  BY DEF Table, Statuses, StatusOf
<1>2. patient \in BOOLEAN /\ Len(schedule) \in Nat /\ DOMAIN schedule = 1 .. Len(schedule)
      /\ \A i \in DOMAIN schedule : schedule[i].trials \in Nat \ {0}
  BY CampaignFacts DEF Trials
<1>3. [i \in DOMAIN schedule |-> schedule[i].trials] \in Seq(Nat \ {0})
  BY <1>2
<1>4. ASSUME NEW i \in DOMAIN schedule
      PROVE  /\ Matrix!Full(i) <=> Len(Readable(i)) = Trials(i)
             /\ Matrix!Clean(i) <=> AllSucceed(Readable(i))
  <2>1. PICK rows \in Seq(Rows) : rows = Readable(i)
    BY FileFacts
  <2>2. Table[i] = StatusOf(rows)
    BY <2>1 DEF Table
  <2>3. Matrix!Full(i) <=> Len(StatusOf(rows)) = Trials(i)
    BY <1>1, <2>2 DEF Matrix!Full, Trials
  <2>4. Matrix!Clean(i) <=> \A k \in DOMAIN StatusOf(rows) : StatusOf(rows)[k] = "success"
    BY <1>1, <2>2 DEF Matrix!Clean
  <2>5. QED
    BY <2>1, <2>3, <2>4, StatusFacts DEF AllSucceed
<1>5. QED
  BY <1>1, <1>2, <1>3, <1>4

\* A row written is the next cell of the matrix.
LEMMA WrittenIsFill ==
    ASSUME Inductive, WriteRow, [Next]_vars
    PROVE  \E i \in DOMAIN schedule, status \in {"success", "failure", "skipped"} :
               Matrix!Fill(i, status)
<1>1. TypeOK /\ Written
  BY WriteRowIs DEF Inductive
<1>2. exits = << >> /\ UNCHANGED <<schedule, patient, format, exits>>
  BY <1>1, SameCampaign DEF Inductive, OneRun, Written
<1>3. AtFrontier /\ Standing /\ Filed
  BY <1>2 DEF Inductive, Frontier, Flags
<1>4. PICK n \in DOMAIN schedule : n = item /\ n = item'
  BY <1>1 DEF Written
<1>5. Trials(n) \in Nat \ {0} /\ DOMAIN schedule = 1 .. Len(schedule) /\ Len(schedule) \in Nat
  BY <1>1, CampaignFacts
<1>6. PICK rows \in Seq(Rows) : rows = Readable(n)
  BY <1>1, FileFacts
<1>7. PICK rest \in Seq(Rows) : rest = pending /\ rest # << >>
  BY <1>1 DEF TypeOK, Written
<1>8. PICK r \in Rows : r = Head(rest) /\ r = rest[1] /\ Len(rest) \in Nat \ {0}
  BY <1>7
<1>9. PICK all : all = rows \o rest /\ Whole(n, all)
  BY <1>1, <1>3, <1>4, <1>6, <1>7 DEF AtFrontier, Written
<1>10. Len(all) = Trials(n)
  BY <1>1, <1>9, WholeIs
<1>11. /\ Len(rows) \in Nat /\ Len(rows) < Trials(n)
       /\ Len(rows) + 1 \in 1 .. Trials(n) /\ all[Len(rows) + 1] = r
  <2>1. Len(all) = Len(rows) + Len(rest) /\ Len(rows) \in Nat
    BY <1>7, <1>9
  <2>2. all[Len(rows) + 1] = rest[1]
    BY <1>7, <1>8, <1>9
  <2>3. QED
    BY <1>8, <1>10, <2>1, <2>2
<1>12. ~Matrix!Full(n)
  BY <1>1, <1>6, <1>11, MatrixIs
<1>13. \A j \in 1 .. n - 1 : j \in DOMAIN schedule /\ j < n
  BY <1>5
<1>14. \A j \in 1 .. n - 1 : Matrix!Full(j)
  <2> SUFFICES ASSUME NEW j \in 1 .. n - 1 PROVE Matrix!Full(j)
    OBVIOUS
  <2>1. j \in DOMAIN schedule /\ Whole(j, Readable(j))
    BY <1>3, <1>4, <1>13 DEF Filed
  <2>2. Len(Readable(j)) = Trials(j)
    BY <1>1, <2>1, WholeIs
  <2>3. QED
    BY <1>1, <2>1, <2>2, MatrixIs
<1>15. ASSUME r.status # "skipped", ~patient PROVE \A j \in 1 .. n - 1 : Matrix!Clean(j)
  <2>1. history[n].launched
    <3>1. SUFFICES ASSUME ~history[n].launched PROVE FALSE
      OBVIOUS
    <3>2. PICK origin \in UnstartedOrigins :
              \A k \in 1 .. Trials(n) : all[k] = Skip(k - 1, origin)
      BY <1>1, <1>9, <3>1, WholeCases
    <3>3. r = Skip((Len(rows) + 1) - 1, origin)
      BY <1>11, <3>2
    <3>4. Skip((Len(rows) + 1) - 1, origin).status = "skipped"
      BY DEF Skip
    <3>5. QED
      BY <1>15, <3>3, <3>4
  <2>2. \A j \in DOMAIN schedule : j < n => AllSucceed(Readable(j))
    BY <1>1, <1>3, <1>4, <1>15, <2>1 DEF Standing, Written
  <2>3. QED
    BY <1>1, <1>13, <2>2, MatrixIs
<1>16. Table' = [Table EXCEPT ![n] = Append(@, r.status)]
  <2>1. Readable(n)' = Append(rows, r)
    <3>1. Readable(item)' = Readable(n)'
      BY <1>4 DEF Readable
    <3>2. QED
      BY <1>1, <1>4, <1>6, <1>7, <1>8, <3>1 DEF Written
  <2>2. \A j \in DOMAIN schedule : j # n => Readable(j)' = Readable(j)
    BY <1>1, <1>4 DEF Written, Untouched
  <2>3. StatusOf(Append(rows, r)) = Append(StatusOf(rows), r.status)
    BY StatusFacts
  <2>4. Table' = [j \in DOMAIN schedule |-> StatusOf(Readable(j)')]
    BY <1>2 DEF Table
  <2>5. \A j \in DOMAIN schedule : StatusOf(Readable(j)') =
            IF j = n THEN Append(StatusOf(rows), r.status) ELSE Table[j]
    BY <2>1, <2>2, <2>3 DEF Table
  <2>6. Table[n] = StatusOf(rows) /\ DOMAIN Table = DOMAIN schedule
    BY <1>6 DEF Table
  <2>7. Table' = [j \in DOMAIN schedule |->
                     IF j = n THEN Append(Table[n], r.status) ELSE Table[j]]
    BY <2>4, <2>5, <2>6
  <2>8. QED
    BY <2>6, <2>7
<1>17. /\ [i \in DOMAIN schedule |-> Statuses(i)] = Table
       /\ [i \in DOMAIN schedule |-> Statuses(i)]' = Table'
  <2>1. [i \in DOMAIN schedule |-> Statuses(i)]' = Table'
    BY DEF Table, Statuses, StatusOf
  <2>2. QED
    BY <1>1, <2>1, MatrixIs
<1>18. UNCHANGED [i \in DOMAIN schedule |-> schedule[i].trials]
  BY <1>2
<1>19. r.status \in {"success", "failure", "skipped"}
  BY DEF Rows
<1>20. Matrix!Fill(n, r.status)
  BY <1>2, <1>12, <1>14, <1>15, <1>16, <1>17, <1>18 DEF Matrix!Fill
<1>21. QED
  BY <1>19, <1>20

\* The readable rows are the same after any other step.
LEMMA TableSame ==
    ASSUME Inductive, [Next]_vars, ~WriteRow
    PROVE  UNCHANGED <<Table, [i \in DOMAIN schedule |-> Statuses(i)], patient,
                       [i \in DOMAIN schedule |-> schedule[i].trials]>>
<1>1. UNCHANGED <<schedule, patient>>
  BY SameCampaign
<1>2. ASSUME NEW i \in DOMAIN schedule PROVE Readable(i)' = Readable(i)
  <2>1. CASE WriteFails
    <3>1. Broken
      BY <2>1, WriteFailsIs
    <3>2. CASE i = item
      <4>1. Readable(item)' = Readable(i)'
        BY <3>1, <3>2 DEF Broken, Readable
      <4>2. QED
        BY <3>1, <3>2, <4>1 DEF Broken
    <3>3. CASE i # item
      BY <3>1, <3>3 DEF Broken, Untouched
    <3>4. QED
      BY <3>2, <3>3
  <2>2. CASE Collect \/ Undecodable
    BY <2>2, TakingIs DEF Taking
  <2>3. CASE ~WriteFails /\ ~Collect /\ ~Undecodable
    BY <2>3, OtherwiseSame, SameRows DEF Untouched
  <2>4. QED
    BY <2>1, <2>2, <2>3
<1>3. UNCHANGED Table
  BY <1>1, <1>2 DEF Table
<1>4. [i \in DOMAIN schedule |-> Statuses(i)] = Table /\ [i \in DOMAIN schedule |-> Statuses(i)]' = Table'
  BY DEF Table, Statuses, StatusOf
<1>5. QED
  BY <1>1, <1>3, <1>4

\* Any other step gives the verdict or leaves the matrix alone.
LEMMA OtherwiseVerdict ==
    ASSUME Inductive, [Next]_vars, ~WriteRow
    PROVE  Matrix!Pass \/ Matrix!Fail \/ UNCHANGED Matrix!vars
<1>1. TypeOK
  BY DEF Inductive
<1>2. UNCHANGED <<[i \in DOMAIN schedule |-> Statuses(i)], patient,
                  [i \in DOMAIN schedule |-> schedule[i].trials]>>
  BY TableSame
<1>3. CASE exits = << >> /\ exits' # << >> /\ exits'[1] = 0
  <2>1. Finish /\ ~anyFailure
    BY <1>1, <1>3, ExitsStep
  <2>2. \A i \in DOMAIN schedule : i < item
    <3>1. item \in Nat /\ Len(schedule) \in Nat /\ DOMAIN schedule = 1 .. Len(schedule)
      BY <1>1, CampaignFacts DEF TypeOK
    <3>2. QED
      BY <2>1, <3>1 DEF Finish
  <2>3. \A i \in DOMAIN schedule : AllSucceed(Readable(i))
    BY <1>3, <2>1, <2>2 DEF Inductive, Flags, Standing, Done
  <2>4. \A i \in DOMAIN schedule : Len(Readable(i)) = Trials(i)
    BY <1>1, <2>2, WholeIs DEF Inductive, Filed
  <2>5. \A i \in DOMAIN schedule : Matrix!Full(i) /\ Matrix!Clean(i)
    BY <1>1, <2>3, <2>4, MatrixIs
  <2>6. Matrix!Pass
    BY <1>1, <1>2, <1>3, <2>5, MatrixIs DEF Matrix!Pass
  <2>7. QED
    BY <2>6
<1>4. CASE exits = << >> /\ exits' # << >> /\ exits'[1] # 0
  BY <1>2, <1>4 DEF Matrix!Fail
<1>5. CASE exits = << >> /\ exits' = << >>
  BY <1>2, <1>5 DEF Matrix!vars
<1>6. CASE exits # << >>
  <2>1. exits' # << >> /\ exits'[1] = exits[1]
    BY <1>1, <1>6, ExitsStep
  <2>2. QED
    BY <1>2, <1>6, <2>1 DEF Matrix!vars
<1>7. QED
  BY <1>3, <1>4, <1>5, <1>6

\* The runner keeps the promises of the matrix: a cell per trial, filled in order and never
\* changed, nothing started after a failure where that ends the campaign, and a verdict that
\* is a pass only of a full matrix of successes.
THEOREM MatrixImplemented == Spec => ImplementsMatrix
<1>1. Init => Matrix!Init
  <2> SUFFICES ASSUME Init PROVE Matrix!Init
    OBVIOUS
  <2>1. TypeOK
    BY InductiveInit DEF Inductive
  <2>2. \A i : Readable(i) = << >>
    BY TakenEmpty DEF Init, Readable
  <2>3. << >> \in Seq(Rows)
    OBVIOUS
  <2>4. \A i \in DOMAIN schedule : Statuses(i) = << >>
    <3>1. \A i \in DOMAIN schedule : Statuses(i) = StatusOf(Readable(i))
      BY DEF Statuses, StatusOf
    <3>2. QED
      BY <2>2, <2>3, <3>1, StatusFacts
  <2>5. [i \in DOMAIN schedule |-> Statuses(i)] =
            [i \in DOMAIN [j \in DOMAIN schedule |-> schedule[j].trials] |-> << >>]
    BY <2>1, <2>4, MatrixIs
  <2>6. exits = << >>
    BY DEF Init
  <2>7. QED
    BY <2>1, <2>5, <2>6, MatrixIs DEF Matrix!Init
<1>2. Inductive /\ [Next]_vars => [Matrix!Next]_(Matrix!vars)
  <2> SUFFICES ASSUME Inductive, [Next]_vars PROVE [Matrix!Next]_(Matrix!vars)
    OBVIOUS
  <2>1. CASE WriteRow
    <3>1. PICK i \in DOMAIN schedule, status \in {"success", "failure", "skipped"} :
              Matrix!Fill(i, status)
      BY <2>1, WrittenIsFill
    <3>2. i \in DOMAIN [j \in DOMAIN schedule |-> schedule[j].trials]
      OBVIOUS
    <3>3. Matrix!Next
      BY <3>1, <3>2 DEF Matrix!Next, Matrix!Statuses
    <3>4. QED
      BY <3>3
  <2>2. CASE ~WriteRow
    BY <2>2, OtherwiseVerdict DEF Matrix!Next
  <2>3. QED
    BY <2>1, <2>2
<1>3. QED
  BY <1>1, <1>2, Invariance, PTL DEF Spec, ImplementsMatrix, Matrix!Spec
=============================================================================
