---------------------------- MODULE PagesProofs -----------------------------
(*****************************************************************************)
(* Proofs about the pages of the app, for any number of operations,          *)
(* readings, mountings, lookups and rows.                                    *)
(*                                                                           *)
(* None of the properties is inductive as it stands. The page's and the      *)
(* tab's hold either because the crowding that the code allows (a second     *)
(* operation begun before the first has ended) has happened and is said,     *)
(* or because of an invariant about the one operation that runs; that        *)
(* alternative is the core of each invariant below.                          *)
(*****************************************************************************)
EXTENDS ShieldedPage, ConfidentialTab, ActivityFeed, RecipientBox, SequenceTheorems,
        TLAPS

-----------------------------------------------------------------------------
(*****************************************************************************)
(* ShieldedPage: the shielded rail's page.                                   *)
(*****************************************************************************)

\* What an operation and a reading hold, and the type of the page.
RunStates ==
  [at : {"act", "log", "sync", "read", "done"},
   says : {"nothing", "ok", "refused", "failed"}, mount : Nat, landed : BOOLEAN,
   prior : Seq(Nat)]
ReadStates == [at : {"sync", "read", "done"}, mount : Nat, after : Nat]

PageShape ==
  /\ run \in Seq(RunStates) /\ read \in Seq(ReadStates)
  /\ mount \in Nat /\ chain \in Nat /\ served \in Nat /\ local \in Nat /\ view \in Nat
  /\ due \in Nat /\ due <= served
  /\ busy \in BOOLEAN /\ refreshing \in BOOLEAN /\ stale \in BOOLEAN
  /\ crowded \in BOOLEAN /\ stray \in BOOLEAN
  /\ log \in Seq(Nat) /\ recorded \in Seq(Nat)

\* The fields by name.
StepOf(r) == run[r].at
SaysOf(r) == run[r].says
HomeOf(r) == run[r].mount
PriorOf(r) == run[r].prior
PhaseOf(i) == read[i].at
ScreenOf(i) == read[i].mount
AfterOf(i) == read[i].after

\* An operation that has not ended, and one that has not synced yet.
NotOver(r) == StepOf(r) # "done"
Acting(r) == StepOf(r) \in {"act", "log"}
Shown(i) == PhaseOf(i) # "done" /\ ScreenOf(i) = mount
Told(r) == [of |-> r, says |-> SaysOf(r)]

\* Nothing belongs to a mounting that has not been.
NoneBeyond ==
  /\ \A r \in Runs : HomeOf(r) \in Nat /\ HomeOf(r) <= mount
  /\ \A i \in Reads : ScreenOf(i) \in Nat /\ ScreenOf(i) <= mount

\* A mounting has one acting operation, and knows of it while it is on screen.
\* An operation that has read the log is the only one of all, unless one strayed,
\* and the log is as it read it.
BusyKnows ==
  /\ \A r \in Runs : Acting(r) /\ HomeOf(r) = mount => busy
  /\ \A r, s \in Runs : Acting(r) /\ Acting(s) /\ HomeOf(r) = HomeOf(s) => r = s
  /\ stray \/ \A r, s \in Runs : Acting(r) /\ Acting(s) => r = s
  /\ stray \/ \A r \in Runs : StepOf(r) = "log" => PriorOf(r) = log
  /\ LogHoldsNewest

\* While nothing has overlapped there is one operation or one reading, and the
\* page knows of it; what it reads has all that was served when it began.
OneThing ==
  /\ \A r \in Runs : NotOver(r) => r = Last /\ HomeOf(r) = mount
  /\ \A i \in Reads : Shown(i) => refreshing /\ AfterOf(i) = Last
  /\ \A i \in Reads : Shown(i) => \A r \in Runs : ~NotOver(r)
  /\ \A i, j \in Reads : Shown(i) /\ Shown(j) => i = j
  /\ \A r \in Runs : StepOf(r) \in {"sync", "read"} => refreshing
  /\ \A r \in Runs : StepOf(r) = "read" => local >= due
  /\ \A i \in Reads : Shown(i) /\ PhaseOf(i) = "read" => local >= due

\* The outcome is heard once the last operation is over, also while a reading
\* of the button runs.
Heard ==
  (\A r \in Runs : ~NotOver(r)) /\ Last \in Runs /\ HomeOf(Last) = mount =>
    notice = Told(Last) \/ notice = BadAmount
      \/ (notice = ReadError /\ \E i \in Reads : ScreenOf(i) = mount /\ AfterOf(i) = Last)

\* Once nothing runs the view has what was due, or the page says that it is old.
Fresh ==
  (\A r \in Runs : ~NotOver(r)) /\ (\A i \in Reads : ~Shown(i)) => view >= due \/ stale

\* Either things have overlapped, or each was alone.
OneByOne == crowded \/ (OneThing /\ Heard /\ Fresh)

PageInv == PageShape /\ NoneBeyond /\ BusyKnows /\ OneByOne

\* What a step leaves of an operation, and of a reading.
RunKept(r) ==
  StepOf(r)' = StepOf(r) /\ SaysOf(r)' = SaysOf(r) /\ HomeOf(r)' = HomeOf(r)
    /\ PriorOf(r)' = PriorOf(r)
ReadKept(i) ==
  PhaseOf(i)' = PhaseOf(i) /\ ScreenOf(i)' = ScreenOf(i) /\ AfterOf(i)' = AfterOf(i)

\* Operations that are not assigned are kept.
LEMMA RunsKept ==
  ASSUME run' = run PROVE Runs' = Runs /\ Last' = Last /\ \A r \in Runs : RunKept(r)
  BY DEF Runs, Last, RunKept, StepOf, SaysOf, HomeOf, PriorOf

\* The same for the readings.
LEMMA ReadsKept ==
  ASSUME read' = read PROVE Reads' = Reads /\ \A i \in Reads : ReadKept(i)
  BY DEF Reads, ReadKept, PhaseOf, ScreenOf, AfterOf

\* An operation begins: it is the last one, and the others are as they were.
LEMMA RunAdded ==
  ASSUME run \in Seq(RunStates), NEW x \in RunStates, run' = Append(run, x)
  PROVE  /\ run' \in Seq(RunStates)
         /\ \E n : /\ n \notin Runs /\ n # 0 /\ Runs' = Runs \cup {n} /\ Last' = n
                   /\ StepOf(n)' = x.at /\ SaysOf(n)' = x.says /\ HomeOf(n)' = x.mount
                   /\ PriorOf(n)' = x.prior
                   /\ \A r \in Runs : RunKept(r)
PROOF
  <1>1. run' \in Seq(RunStates)
    OBVIOUS
  <1>2. \E n : n = Len(run) + 1
    OBVIOUS
  <1>3. PICK n : n = Len(run) + 1
    BY <1>2
  <1>4. Len(run') = n /\ n # 0 /\ n \notin Runs /\ Runs' = Runs \cup {n}
    BY <1>3 DEF Runs
  <1>5. run'[n] = x
    BY <1>3
  <1>6. \A r \in Runs : run'[r] = run[r]
    BY <1>3 DEF Runs
  <1>7. \A r \in Runs : RunKept(r)
    BY <1>6 DEF RunKept, StepOf, SaysOf, HomeOf, PriorOf
  <1>8. StepOf(n)' = x.at /\ SaysOf(n)' = x.says /\ HomeOf(n)' = x.mount /\ PriorOf(n)' = x.prior
    BY <1>5 DEF StepOf, SaysOf, HomeOf, PriorOf
  <1> QED BY <1>1, <1>4, <1>7, <1>8 DEF Last

\* A reading begins, and the others are as they were.
LEMMA ReadAdded ==
  ASSUME read \in Seq(ReadStates), NEW x \in ReadStates, read' = Append(read, x)
  PROVE  /\ read' \in Seq(ReadStates)
         /\ \E n : /\ n \notin Reads /\ Reads' = Reads \cup {n}
                   /\ PhaseOf(n)' = x.at /\ ScreenOf(n)' = x.mount /\ AfterOf(n)' = x.after
                   /\ \A i \in Reads : ReadKept(i)
PROOF
  <1>1. read' \in Seq(ReadStates)
    OBVIOUS
  <1>2. \E n : n = Len(read) + 1
    OBVIOUS
  <1>3. PICK n : n = Len(read) + 1
    BY <1>2
  <1>4. n \notin Reads /\ Reads' = Reads \cup {n}
    BY <1>3 DEF Reads
  <1>5. read'[n] = x
    BY <1>3
  <1>6. \A i \in Reads : read'[i] = read[i]
    BY <1>3 DEF Reads
  <1>7. \A i \in Reads : ReadKept(i)
    BY <1>6 DEF ReadKept, PhaseOf, ScreenOf, AfterOf
  <1>8. PhaseOf(n)' = x.at /\ ScreenOf(n)' = x.mount /\ AfterOf(n)' = x.after
    BY <1>5 DEF PhaseOf, ScreenOf, AfterOf
  <1> QED BY <1>1, <1>4, <1>7, <1>8

\* An operation steps, on the mounting it began on, and the others stay.
LEMMA RunMoved ==
  ASSUME run \in Seq(RunStates), NEW k \in Runs, NEW x \in RunStates, x.mount = HomeOf(k),
         run' = [run EXCEPT ![k] = x]
  PROVE  /\ run' \in Seq(RunStates) /\ Runs' = Runs /\ Last' = Last
         /\ StepOf(k)' = x.at /\ SaysOf(k)' = x.says /\ PriorOf(k)' = x.prior
         /\ \A r \in Runs : HomeOf(r)' = HomeOf(r)
         /\ \A r \in Runs : r # k => RunKept(r)
PROOF
  <1>1. run' \in Seq(RunStates) /\ Len(run') = Len(run) /\ Runs' = Runs /\ run'[k] = x
    BY DEF Runs
  <1>2. \A r \in Runs : r # k => run'[r] = run[r]
    BY DEF Runs
  <1>3. \A r \in Runs : r # k => RunKept(r)
    BY <1>2 DEF RunKept, StepOf, SaysOf, HomeOf, PriorOf
  <1>4. StepOf(k)' = x.at /\ SaysOf(k)' = x.says /\ HomeOf(k)' = HomeOf(k) /\ PriorOf(k)' = x.prior
    BY <1>1 DEF StepOf, SaysOf, HomeOf, PriorOf
  <1>5. \A r \in Runs : HomeOf(r)' = HomeOf(r)
    BY <1>3, <1>4 DEF RunKept
  <1> QED BY <1>1, <1>3, <1>4, <1>5 DEF Last

\* An operation has the type of one.
LEMMA RunIsTyped == ASSUME run \in Seq(RunStates), NEW k \in Runs PROVE run[k] \in RunStates
  BY DEF Runs

\* The step of an operation, with what it says and what it read of the log.
LEMMA RunSteps ==
  ASSUME run \in Seq(RunStates), NEW k \in Runs,
         NEW a \in {"act", "log", "sync", "read", "done"},
         \/ run' = [run EXCEPT ![k].at = a]
         \/ \E s \in {"nothing", "ok", "refused", "failed"} :
              run' = [run EXCEPT ![k].at = a, ![k].says = s]
         \/ \E p \in Seq(Nat) : run' = [run EXCEPT ![k].at = a, ![k].prior = p]
  PROVE  /\ run' \in Seq(RunStates) /\ Runs' = Runs /\ Last' = Last
         /\ StepOf(k)' = a
         /\ \A r \in Runs : HomeOf(r)' = HomeOf(r)
         /\ \A r \in Runs : r # k => RunKept(r)
PROOF
  <1>1. run[k] \in RunStates
    BY RunIsTyped
  <1>2. CASE run' = [run EXCEPT ![k].at = a]
    <2> DEFINE x == [run[k] EXCEPT !.at = a]
    <2>1. x \in RunStates /\ x.mount = HomeOf(k) /\ x.at = a
      BY <1>1 DEF RunStates, HomeOf
    <2>2. run' = [run EXCEPT ![k] = x]
      BY <1>2
    <2> HIDE DEF x
    <2> QED BY <2>1, <2>2, RunMoved
  <1>3. ASSUME NEW s \in {"nothing", "ok", "refused", "failed"},
               run' = [run EXCEPT ![k].at = a, ![k].says = s]
        PROVE  /\ run' \in Seq(RunStates) /\ Runs' = Runs /\ Last' = Last
               /\ StepOf(k)' = a
               /\ \A r \in Runs : HomeOf(r)' = HomeOf(r)
               /\ \A r \in Runs : r # k => RunKept(r)
    <2> DEFINE x == [run[k] EXCEPT !.at = a, !.says = s]
    <2>1. x \in RunStates /\ x.mount = HomeOf(k) /\ x.at = a
      BY <1>1 DEF RunStates, HomeOf
    <2>2. run' = [run EXCEPT ![k] = x]
      BY <1>1, <1>3 DEF RunStates
    <2> HIDE DEF x
    <2> QED BY <2>1, <2>2, RunMoved
  <1>4. ASSUME NEW p \in Seq(Nat), run' = [run EXCEPT ![k].at = a, ![k].prior = p]
        PROVE  /\ run' \in Seq(RunStates) /\ Runs' = Runs /\ Last' = Last
               /\ StepOf(k)' = a
               /\ \A r \in Runs : HomeOf(r)' = HomeOf(r)
               /\ \A r \in Runs : r # k => RunKept(r)
    <2> DEFINE x == [run[k] EXCEPT !.at = a, !.prior = p]
    <2>1. x \in RunStates /\ x.mount = HomeOf(k) /\ x.at = a
      BY <1>1 DEF RunStates, HomeOf
    <2>2. run' = [run EXCEPT ![k] = x]
      BY <1>1, <1>4 DEF RunStates
    <2> HIDE DEF x
    <2> QED BY <2>1, <2>2, RunMoved
  <1> QED BY <1>2, <1>3, <1>4

\* The step of a reading.
LEMMA ReadSteps ==
  ASSUME read \in Seq(ReadStates), NEW k \in Reads, NEW a \in {"sync", "read", "done"},
         read' = [read EXCEPT ![k].at = a]
  PROVE  /\ read' \in Seq(ReadStates) /\ Reads' = Reads /\ PhaseOf(k)' = a
         /\ \A i \in Reads : ScreenOf(i)' = ScreenOf(i) /\ AfterOf(i)' = AfterOf(i)
         /\ \A i \in Reads : i # k => ReadKept(i)
PROOF
  <1> DEFINE x == [read[k] EXCEPT !.at = a]
  <1>1. read[k] \in ReadStates
    BY DEF Reads
  <1>2. x \in ReadStates /\ x.at = a /\ x.mount = read[k].mount /\ x.after = read[k].after
    BY <1>1 DEF ReadStates
  <1>3. read' = [read EXCEPT ![k] = x]
    OBVIOUS
  <1> HIDE DEF x
  <1>4. read' \in Seq(ReadStates) /\ Reads' = Reads /\ read'[k] = x
    BY <1>2, <1>3 DEF Reads
  <1>5. \A i \in Reads : i # k => read'[i] = read[i]
    BY <1>3 DEF Reads
  <1>6. \A i \in Reads : i # k => ReadKept(i)
    BY <1>5 DEF ReadKept, PhaseOf, ScreenOf, AfterOf
  <1>7. PhaseOf(k)' = a /\ ScreenOf(k)' = ScreenOf(k) /\ AfterOf(k)' = AfterOf(k)
    BY <1>2, <1>4 DEF PhaseOf, ScreenOf, AfterOf
  <1>8. \A i \in Reads : ScreenOf(i)' = ScreenOf(i) /\ AfterOf(i)' = AfterOf(i)
    BY <1>6, <1>7 DEF ReadKept
  <1> QED BY <1>4, <1>6, <1>7, <1>8

\* The smaller of two numbers.
LEMMA MinOfTwo ==
  ASSUME NEW a \in Nat, NEW b \in Nat
  PROVE  Min({a, b}) = IF a <= b THEN a ELSE b
PROOF
  <1> DEFINE m == IF a <= b THEN a ELSE b
  <1>1. m \in {a, b} /\ \A y \in {a, b} : m <= y
    OBVIOUS
  <1>2. \A z \in {a, b} : (\A y \in {a, b} : z <= y) => z = m
    OBVIOUS
  <1> HIDE DEF m
  <1>3. Min({a, b}) = m
    BY <1>1, <1>2 DEF Min
  <1> QED BY <1>3 DEF m

\* The first elements of a sequence.
LEMMA FirstElements ==
  ASSUME NEW s \in Seq(Nat), NEW n \in Nat, n <= Len(s)
  PROVE  /\ SubSeq(s, 1, n) \in Seq(Nat) /\ Len(SubSeq(s, 1, n)) = n
         /\ \A i \in 1 .. n : SubSeq(s, 1, n)[i] = s[i]
PROOF
  <1>1. \A i \in 1 .. n : s[i] \in Nat
    OBVIOUS
  <1>2. /\ SubSeq(s, 1, n) \in Seq(Nat)
        /\ Len(SubSeq(s, 1, n)) = IF 1 <= n THEN n - 1 + 1 ELSE 0
        /\ \A i \in 1 .. n - 1 + 1 : SubSeq(s, 1, n)[i] = s[1 + i - 1]
    BY <1>1, SubSeqProperties
  <1>3. n - 1 + 1 = n /\ \A i \in 1 .. n : 1 + i - 1 = i
    OBVIOUS
  <1> QED BY <1>2, <1>3

\* Cutting off after the new entry was put first is putting it first on what
\* had been cut off.
LEMMA NewestFirst ==
  ASSUME NEW whole \in Seq(Nat), NEW kept, NEW e \in Nat,
         kept = SubSeq(whole, 1, Min({MaxEntries, Len(whole)}))
  PROVE  SubSeq(<<e>> \o kept, 1, Min({MaxEntries, Len(kept) + 1}))
           = SubSeq(<<e>> \o whole, 1, Min({MaxEntries, Len(<<e>> \o whole)}))
PROOF
  <1> DEFINE cut == SubSeq(whole, 1, Min({MaxEntries, Len(whole)}))
             m == IF MaxEntries <= Len(whole) THEN MaxEntries ELSE Len(whole)
             n == IF MaxEntries <= Len(whole) + 1 THEN MaxEntries ELSE Len(whole) + 1
  <1>0. MaxEntries \in Nat \ {0} /\ Len(whole) \in Nat
    BY PageAssumption
  <1>1. Min({MaxEntries, Len(whole)}) = m /\ m \in 0 .. Len(whole)
    BY <1>0, MinOfTwo
  <1>2. cut = SubSeq(whole, 1, m)
    BY <1>1
  <1>3. cut \in Seq(Nat) /\ Len(cut) = m /\ \A i \in 1 .. m : cut[i] = whole[i]
    <2>1. m \in Nat /\ m <= Len(whole)
      BY <1>0, <1>1
    <2> QED BY <1>2, <2>1, FirstElements
  <1> HIDE DEF cut
  <1>4. Min({MaxEntries, Len(cut) + 1}) = n /\ n \in 1 .. m + 1
    <2>1. m + 1 \in Nat
      BY <1>1
    <2>2. Min({MaxEntries, m + 1}) = IF MaxEntries <= m + 1 THEN MaxEntries ELSE m + 1
      BY <1>0, <2>1, MinOfTwo
    <2> QED BY <1>0, <1>3, <2>2
  <1>5. <<e>> \o whole \in Seq(Nat) /\ Len(<<e>> \o whole) = Len(whole) + 1
    OBVIOUS
  <1>6. Min({MaxEntries, Len(<<e>> \o whole)}) = n
    <2>1. Len(whole) + 1 \in Nat
      BY <1>0
    <2> QED BY <1>0, <1>5, <2>1, MinOfTwo
  <1>7. <<e>> \o cut \in Seq(Nat) /\ Len(<<e>> \o cut) = m + 1
    BY <1>1, <1>3
  <1>8. n <= m + 1 /\ n <= Len(whole) + 1 /\ n \in Nat
    BY <1>0, <1>1
  <1>9. \A i \in 1 .. n : (<<e>> \o cut)[i] = (<<e>> \o whole)[i]
    <2> SUFFICES ASSUME NEW i \in 1 .. n PROVE (<<e>> \o cut)[i] = (<<e>> \o whole)[i]
      OBVIOUS
    <2> HIDE DEF n, m
    <2>1. CASE i = 1
      BY <1>3, <2>1
    <2>2. CASE i # 1
      <3>1. i - 1 \in 1 .. m /\ i - 1 \in 1 .. Len(whole) /\ m \in Nat
        BY <1>0, <1>1, <1>8, <2>2
      <3>2. (<<e>> \o cut)[i] = cut[i - 1] /\ (<<e>> \o whole)[i] = whole[i - 1]
        BY <1>3, <2>2, <3>1
      <3> QED BY <1>3, <3>1, <3>2
    <2> QED BY <2>1, <2>2
  <1> HIDE DEF n, m
  <1> DEFINE left == SubSeq(<<e>> \o cut, 1, n)
             right == SubSeq(<<e>> \o whole, 1, n)
  <1>10. /\ left \in Seq(Nat) /\ Len(left) = n /\ \A i \in 1 .. n : left[i] = (<<e>> \o cut)[i]
    BY <1>1, <1>7, <1>8, FirstElements
  <1>11. /\ right \in Seq(Nat) /\ Len(right) = n
         /\ \A i \in 1 .. n : right[i] = (<<e>> \o whole)[i]
    BY <1>0, <1>5, <1>8, FirstElements
  <1> HIDE DEF left, right
  <1>12. \A i \in 1 .. n : left[i] = right[i]
    BY <1>9, <1>10, <1>11
  <1>13. left = right
    BY <1>10, <1>11, <1>12
  <1> QED BY <1>4, <1>6, <1>13 DEF left, right, cut

\* The page opens with nothing under way and nothing to say.
LEMMA PageBegins == PageInit => PageInv
PROOF
  <1> SUFFICES ASSUME PageInit PROVE PageInv
    OBVIOUS
  <1> DEFINE first == [at |-> "sync", mount |-> 1, after |-> 0]
  <1>1. /\ run = <<>> /\ read = <<first>> /\ mount = 1 /\ chain = 0 /\ view = 0
        /\ served = 0 /\ local = 0 /\ due = 0
        /\ busy = FALSE /\ refreshing = TRUE /\ stale = FALSE /\ crowded = FALSE /\ stray = FALSE
        /\ log = <<>> /\ recorded = <<>>
    BY DEF PageInit
  <1>2. first \in ReadStates /\ first.at = "sync" /\ first.mount = 1 /\ first.after = 0
    BY DEF ReadStates
  <1> HIDE DEF first
  <1>3. run \in Seq(RunStates) /\ Runs = {} /\ Last = 0
    BY <1>1 DEF Runs, Last
  <1>4. read \in Seq(ReadStates) /\ Reads = {1} /\ read[1] = first
    BY <1>1, <1>2 DEF Reads
  <1>5. PhaseOf(1) = "sync" /\ ScreenOf(1) = 1 /\ AfterOf(1) = 0
    BY <1>2, <1>4 DEF PhaseOf, ScreenOf, AfterOf
  <1>6. log \in Seq(Nat) /\ recorded \in Seq(Nat) /\ Len(recorded) = 0
    BY <1>1
  <1>7. log = SubSeq(recorded, 1, Min({MaxEntries, Len(recorded)}))
    <2>1. Min({MaxEntries, Len(recorded)}) = 0
      BY <1>6, PageAssumption, MinOfTwo
    <2>2. SubSeq(recorded, 1, 0) = <<>>
      BY <1>1
    <2> QED BY <1>1, <2>1, <2>2
  <1>8. PageShape
    <2>1. served \in Nat /\ due \in Nat /\ due <= served
      BY <1>1
    <2> QED BY <1>1, <1>3, <1>4, <1>6, <2>1 DEF PageShape
  <1>9. NoneBeyond
    BY <1>1, <1>3, <1>4, <1>5 DEF NoneBeyond
  <1>10. BusyKnows
    BY <1>3, <1>7 DEF BusyKnows, LogHoldsNewest
  <1>11. OneThing /\ Heard /\ Fresh
    BY <1>1, <1>3, <1>4, <1>5 DEF OneThing, Heard, Fresh, Shown
  <1> QED BY <1>8, <1>9, <1>10, <1>11 DEF PageInv, OneByOne

\* While nothing overlaps, a reading does not run beside an operation.
LEMMA NoneReads ==
  ASSUME OneThing, NEW r \in Runs, NotOver(r) PROVE \A i \in Reads : ~Shown(i)
  BY DEF OneThing

\* An operation begins on a page that knows of none.
LEMMA BeginKeeps ==
  ASSUME PageInv, Begin PROVE PageInv'
PROOF
  <1> DEFINE new == [at |-> "act", says |-> "nothing", mount |-> mount,
                     landed |-> FALSE, prior |-> <<>>]
  <1>1. /\ run' = Append(run, new) /\ read' = read /\ mount' = mount /\ ~busy /\ busy' = TRUE
        /\ notice' = Silence /\ stale' = FALSE /\ refreshing' = refreshing
        /\ UNCHANGED <<chain, served, local, view, log, due, recorded>>
    BY DEF Begin, CanBegin
  <1>2. /\ crowded' = (crowded \/ (\E r \in Runs : NotOver(r)) \/ (\E i \in Reads : Shown(i)))
        /\ stray' = (stray \/ \E r \in Runs : NotOver(r) /\ HomeOf(r) # mount)
    BY DEF Begin, Reading, NotOver, Shown, StepOf, HomeOf, PhaseOf, ScreenOf
  <1>3. PageShape /\ NoneBeyond /\ BusyKnows /\ mount \in Nat /\ run \in Seq(RunStates)
    BY DEF PageInv, PageShape
  <1>4. /\ new \in RunStates /\ new.at = "act" /\ new.says = "nothing" /\ new.mount = mount
        /\ new.prior = <<>>
    BY <1>3 DEF RunStates
  <1> HIDE DEF new
  <1>5. run' \in Seq(RunStates)
    BY <1>1, <1>3, <1>4, RunAdded
  <1>6. PICK n : /\ n \notin Runs /\ n # 0 /\ Runs' = Runs \cup {n} /\ Last' = n
                 /\ StepOf(n)' = "act" /\ HomeOf(n)' = mount
                 /\ \A r \in Runs : RunKept(r)
    BY <1>1, <1>3, <1>4, RunAdded
  <1>7. Reads' = Reads /\ \A i \in Reads : ReadKept(i)
    BY <1>1, ReadsKept
  <1>8. PageShape'
    <2>1. crowded' \in BOOLEAN
      BY <1>2
    <2>2. stray' \in BOOLEAN
      BY <1>2
    <2> QED BY <1>1, <1>3, <1>5, <2>1, <2>2 DEF PageShape
  <1>9. NoneBeyond'
    BY <1>1, <1>3, <1>6, <1>7 DEF NoneBeyond, RunKept, ReadKept
  <1>10. /\ \A r \in Runs : Acting(r)' <=> Acting(r)
         /\ \A r \in Runs : NotOver(r)' <=> NotOver(r)
    BY <1>6 DEF Acting, NotOver, RunKept
  <1>11. \A r \in Runs : Acting(r) => HomeOf(r) # mount
    BY <1>1, <1>3 DEF BusyKnows
  <1>12. ~stray' => \A r \in Runs : ~Acting(r)
    BY <1>2, <1>11 DEF Acting, NotOver
  <1>13. BusyKnows'
    <2>1. \A r, s \in Runs' : Acting(r)' /\ Acting(s)' /\ HomeOf(r)' = HomeOf(s)' => r = s
      BY <1>3, <1>6, <1>10, <1>11 DEF BusyKnows, RunKept
    <2>2. stray' \/ \A r, s \in Runs' : Acting(r)' /\ Acting(s)' => r = s
      BY <1>6, <1>10, <1>12
    <2>3. stray' \/ \A r \in Runs' : StepOf(r)' = "log" => PriorOf(r)' = log'
      BY <1>6, <1>12 DEF Acting, RunKept
    <2>4. LogHoldsNewest'
      BY <1>1, <1>2, <1>3 DEF BusyKnows, LogHoldsNewest
    <2> QED BY <1>1, <2>1, <2>2, <2>3, <2>4 DEF BusyKnows
  <1>14. OneByOne'
    <2> SUFFICES ASSUME ~crowded' PROVE OneThing' /\ Heard' /\ Fresh'
      BY DEF OneByOne
    <2>1. (\A r \in Runs : ~NotOver(r)) /\ (\A i \in Reads : ~Shown(i))
      BY <1>2
    <2>2. /\ \A r \in Runs' : NotOver(r)' => r = n
          /\ \A i \in Reads' : ~Shown(i)'
          /\ NotOver(n)'
      BY <1>1, <1>6, <1>7, <1>10, <2>1 DEF Shown, ReadKept, NotOver
    <2>3. \A r \in Runs' : StepOf(r)' \notin {"sync", "read"}
      BY <1>6, <2>2 DEF NotOver
    <2>4. OneThing'
      BY <1>1, <1>6, <2>2, <2>3 DEF OneThing
    <2> QED BY <1>6, <2>2, <2>4 DEF Heard, Fresh
  <1> QED BY <1>8, <1>9, <1>13, <1>14 DEF PageInv

\* Operations and readings stay where they are; more lands, is served or is synced,
\* or an amount is rejected.
LEMMA StillKeeps ==
  ASSUME PageInv, PageShape', Runs' = Runs, Last' = Last, \A r \in Runs : RunKept(r),
         local' = local \/ local' >= due,
         notice' = notice \/ notice' = BadAmount,
         BadAmount' = BadAmount,
         UNCHANGED <<read, mount, busy, refreshing, stale, view, log, due, recorded, crowded,
                     stray>>
  PROVE  PageInv'
PROOF
  <1>1. Reads' = Reads /\ \A i \in Reads : ReadKept(i)
    BY ReadsKept
  <1>2. /\ \A r \in Runs : (Acting(r)' <=> Acting(r)) /\ (NotOver(r)' <=> NotOver(r))
        /\ \A i \in Reads : Shown(i)' <=> Shown(i)
    BY <1>1 DEF Acting, NotOver, Shown, RunKept, ReadKept
  <1>3. NoneBeyond /\ BusyKnows /\ OneByOne
    BY DEF PageInv
  <1>4. NoneBeyond'
    BY <1>1, <1>3 DEF NoneBeyond, RunKept, ReadKept
  <1>5. BusyKnows'
    <2>1. LogHoldsNewest'
      BY <1>3 DEF BusyKnows, LogHoldsNewest
    <2> QED BY <1>2, <1>3, <2>1 DEF BusyKnows, RunKept
  <1>6. OneByOne'
    <2> SUFFICES ASSUME ~crowded' PROVE OneThing' /\ Heard' /\ Fresh'
      BY DEF OneByOne
    <2>1. OneThing /\ Heard /\ Fresh
      BY <1>3 DEF OneByOne
    <2>2. OneThing'
      BY <1>1, <1>2, <2>1 DEF OneThing, RunKept, ReadKept
    <2>3. Last \in Runs => Told(Last)' = Told(Last) /\ HomeOf(Last)' = HomeOf(Last)
      BY DEF Told, RunKept, SaysOf, HomeOf
    <2>4. Heard'
      BY <1>1, <1>2, <2>1, <2>3 DEF Heard, ReadKept
    <2>5. Fresh'
      BY <1>1, <1>2, <2>1 DEF Fresh
    <2> QED BY <2>2, <2>4, <2>5
  <1> QED BY <1>4, <1>5, <1>6 DEF PageInv

\* A rejected amount names the operation before it, which stays the last one.
LEMMA BadAmountKept == ASSUME Last' = Last PROVE BadAmount' = BadAmount
  BY DEF BadAmount, Last

\* The transaction lands, before or after the operation has reported.
LEMMA LandKeeps ==
  ASSUME PageInv, NEW r \in Runs, Land(r) PROVE PageInv'
PROOF
  <1> DEFINE x == [run[r] EXCEPT !.landed = TRUE]
  <1>1. /\ run' = [run EXCEPT ![r].landed = TRUE] /\ chain' = chain + 1
        /\ UNCHANGED <<read, mount, busy, refreshing, notice, stale, served, local, view, log,
                       due, recorded, crowded, stray>>
    BY DEF Land
  <1>2. PageShape
    BY DEF PageInv
  <1>3. run \in Seq(RunStates) /\ run[r] \in RunStates
    BY <1>2, RunIsTyped DEF PageShape
  <1>4. /\ x \in RunStates /\ x.at = StepOf(r) /\ x.says = SaysOf(r) /\ x.mount = HomeOf(r)
        /\ x.prior = PriorOf(r)
    BY <1>3 DEF RunStates, StepOf, SaysOf, HomeOf, PriorOf
  <1>5. run' = [run EXCEPT ![r] = x]
    BY <1>1
  <1> HIDE DEF x
  <1>6. /\ run' \in Seq(RunStates) /\ Runs' = Runs /\ Last' = Last
        /\ \A s \in Runs : s # r => RunKept(s)
        /\ RunKept(r)
    BY <1>3, <1>4, <1>5, RunMoved DEF RunKept
  <1>7. PageShape'
    BY <1>1, <1>2, <1>6 DEF PageShape
  <1> QED BY <1>1, <1>6, <1>7, BadAmountKept, StillKeeps

\* More is served, the local database catches up, or an amount is rejected.
LEMMA AroundKeeps ==
  ASSUME PageInv, Serve \/ EnsureSynced \/ AmountRejected \/ UNCHANGED pageVars PROVE PageInv'
PROOF
  <1>1. /\ UNCHANGED <<run, read, mount, busy, refreshing, stale, chain, view, log, due,
                       recorded, crowded, stray>>
        /\ served' = served \/ served' \in (served + 1) .. chain
        /\ local' = local \/ local' = served
        /\ notice' = notice \/ notice' = BadAmount
    BY DEF Serve, EnsureSynced, AmountRejected, pageVars
  <1>2. PageShape
    BY DEF PageInv
  <1>3. Runs' = Runs /\ Last' = Last /\ \A r \in Runs : RunKept(r)
    BY <1>1, RunsKept
  <1>4. local' \in Nat /\ served' \in Nat /\ due <= served' /\ (local' = local \/ local' >= due)
    BY <1>1, <1>2 DEF PageShape
  <1>5. PageShape'
    BY <1>1, <1>2, <1>4 DEF PageShape
  <1> QED BY <1>1, <1>3, <1>4, <1>5, BadAmountKept, StillKeeps

\* An acting operation goes on acting, with the log read.
LEMMA ActingKeeps ==
  ASSUME PageInv, NEW r \in Runs, Acting(r),
         run' \in Seq(RunStates), Runs' = Runs, Last' = Last, StepOf(r)' = "log",
         \A s \in Runs : HomeOf(s)' = HomeOf(s),
         \A s \in Runs : s # r => RunKept(s),
         PriorOf(r)' = log,
         UNCHANGED <<read, mount, busy, refreshing, notice, stale, chain, served, local, view,
                     log, due, recorded, crowded, stray>>
  PROVE  PageInv'
PROOF
  <1>1. PageShape /\ NoneBeyond /\ BusyKnows
    BY DEF PageInv
  <1>2. Reads' = Reads /\ \A i \in Reads : ReadKept(i)
    BY ReadsKept
  <1>3. PageShape'
    BY <1>1 DEF PageShape
  <1>4. NoneBeyond'
    BY <1>1, <1>2 DEF NoneBeyond, ReadKept
  <1>5. /\ \A s \in Runs : Acting(s)' <=> Acting(s)
        /\ \A s \in Runs : NotOver(s)' <=> NotOver(s)
        /\ NotOver(r)
    BY DEF Acting, NotOver, RunKept
  <1>6. BusyKnows'
    <2>1. stray' \/ \A s \in Runs : StepOf(s)' = "log" => PriorOf(s)' = log'
      BY <1>1 DEF BusyKnows, RunKept
    <2>2. LogHoldsNewest'
      BY <1>1 DEF BusyKnows, LogHoldsNewest
    <2> QED BY <1>1, <1>5, <2>1, <2>2 DEF BusyKnows
  <1>7. OneByOne'
    <2> SUFFICES ASSUME ~crowded' PROVE OneThing' /\ Heard' /\ Fresh'
      BY DEF OneByOne
    <2>1. OneThing
      BY DEF PageInv, OneByOne
    <2>2. \A i \in Reads : ~Shown(i)
      BY <1>5, <2>1, NoneReads
    <2>3. \A i \in Reads' : ~Shown(i)'
      BY <1>2, <2>2 DEF Shown, ReadKept
    <2>4. \A s \in Runs : StepOf(s)' \notin {"sync", "read"}
      BY <1>5, <2>1 DEF OneThing, NotOver
    <2>5. OneThing'
      BY <1>5, <2>1, <2>3, <2>4 DEF OneThing
    <2> QED BY <1>5, <2>5 DEF Heard, Fresh
  <1> QED BY <1>3, <1>4, <1>6, <1>7 DEF PageInv

\* The operation reads the log.
LEMMA LogReadKeeps ==
  ASSUME PageInv, NEW r \in Runs, LogRead(r) PROVE PageInv'
PROOF
  <1> DEFINE x == [run[r] EXCEPT !.at = "log", !.prior = log]
  <1>1. /\ run' = [run EXCEPT ![r].at = "log", ![r].prior = log] /\ StepOf(r) = "act"
        /\ UNCHANGED <<read, mount, busy, refreshing, notice, stale, chain, served, local, view,
                       log, due, recorded, crowded, stray>>
    BY DEF LogRead, StepOf
  <1>2. run \in Seq(RunStates) /\ log \in Seq(Nat)
    BY <1>1 DEF PageInv, PageShape
  <1>3. run[r] \in RunStates
    BY <1>2, RunIsTyped
  <1>4. x \in RunStates /\ x.mount = HomeOf(r) /\ x.at = "log" /\ x.prior = log
    BY <1>2, <1>3 DEF RunStates, HomeOf
  <1>5. run' = [run EXCEPT ![r] = x]
    BY <1>1, <1>3 DEF RunStates
  <1> HIDE DEF x
  <1>6. /\ run' \in Seq(RunStates) /\ Runs' = Runs /\ Last' = Last /\ StepOf(r)' = "log"
        /\ PriorOf(r)' = log
        /\ \A s \in Runs : HomeOf(s)' = HomeOf(s)
        /\ \A s \in Runs : s # r => RunKept(s)
    BY <1>2, <1>4, <1>5, RunMoved
  <1> QED BY <1>1, <1>2, <1>6, ActingKeeps DEF Acting

\* An operation has acted, and its reading begins.
LEMMA RunEndsKeeps ==
  ASSUME PageInv, NEW r \in Runs, Acting(r), NEW says \in {"nothing", "ok", "refused", "failed"},
         RunEnds(r, says), log' \in Seq(Nat), recorded' \in Seq(Nat), LogHoldsNewest'
  PROVE  PageInv'
PROOF
  <1>1. /\ run' = [run EXCEPT ![r].at = "sync", ![r].says = says]
        /\ busy' = (IF HomeOf(r) = mount THEN FALSE ELSE busy)
        /\ refreshing' = (IF HomeOf(r) = mount THEN TRUE ELSE refreshing)
        /\ due' = (IF HomeOf(r) = mount THEN served ELSE due)
        /\ UNCHANGED <<read, mount, notice, stale, chain, served, local, view, crowded, stray>>
    BY DEF RunEnds, OnScreen, HomeOf
  <1>2. PageShape /\ NoneBeyond /\ BusyKnows
    BY DEF PageInv
  <1>3. /\ run' \in Seq(RunStates) /\ Runs' = Runs /\ Last' = Last /\ StepOf(r)' = "sync"
        /\ \A s \in Runs : HomeOf(s)' = HomeOf(s)
        /\ \A s \in Runs : s # r => RunKept(s)
    BY <1>1, <1>2, RunSteps DEF PageShape
  <1>4. Reads' = Reads /\ \A i \in Reads : ReadKept(i)
    BY <1>1, ReadsKept
  <1>5. PageShape'
    <2>1. busy' \in BOOLEAN /\ refreshing' \in BOOLEAN
      BY <1>1, <1>2 DEF PageShape
    <2>2. due' \in Nat /\ due' <= served
      <3>1. served \in Nat /\ due \in Nat /\ due <= served
        BY <1>2 DEF PageShape
      <3>2. due' = served \/ due' = due
        BY <1>1
      <3> QED BY <3>1, <3>2
    <2> QED BY <1>1, <1>2, <1>3, <2>1, <2>2 DEF PageShape
  <1>6. NoneBeyond'
    BY <1>1, <1>2, <1>3, <1>4 DEF NoneBeyond, ReadKept
  <1>7. /\ \A s \in Runs : Acting(s)' <=> Acting(s) /\ s # r
        /\ \A s \in Runs : NotOver(s)' <=> NotOver(s)
        /\ NotOver(r)
    BY <1>3 DEF Acting, NotOver, RunKept
  <1>8. BusyKnows'
    <2>1. \A s \in Runs : Acting(s)' /\ HomeOf(s)' = mount' => busy'
      BY <1>1, <1>2, <1>3, <1>7 DEF BusyKnows
    <2>2. ~stray' => \A s \in Runs : ~Acting(s)'
      BY <1>1, <1>2, <1>7 DEF BusyKnows
    <2>3. stray' \/ \A s \in Runs : StepOf(s)' = "log" => PriorOf(s)' = log'
      BY <2>2 DEF Acting
    <2> QED BY <1>2, <1>3, <1>7, <2>1, <2>2, <2>3 DEF BusyKnows
  <1>9. OneByOne'
    <2> SUFFICES ASSUME ~crowded' PROVE OneThing' /\ Heard' /\ Fresh'
      BY DEF OneByOne
    <2>1. OneThing
      BY <1>1 DEF PageInv, OneByOne
    <2>2. \A i \in Reads : ~Shown(i)
      BY <1>7, <2>1, NoneReads
    <2>3. \A i \in Reads' : ~Shown(i)'
      BY <1>1, <1>4, <2>2 DEF Shown, ReadKept
    <2>4. refreshing' /\ \A s \in Runs : StepOf(s)' # "read"
      BY <1>1, <1>3, <1>7, <2>1 DEF OneThing, NotOver
    <2>5. OneThing'
      BY <1>1, <1>3, <1>7, <2>1, <2>3, <2>4 DEF OneThing
    <2> QED BY <1>3, <1>7, <2>5 DEF Heard, Fresh
  <1> QED BY <1>5, <1>6, <1>8, <1>9 DEF PageInv

\* The log has its entry, and is the newest of all that was recorded.
LEMMA LogWrittenKeeps ==
  ASSUME PageInv, NEW r \in Runs, LogWritten(r) PROVE PageInv'
PROOF
  <1>1. /\ StepOf(r) = "log" /\ RunEnds(r, "ok") /\ stray' = stray
        /\ log' = SubSeq(<<r>> \o PriorOf(r), 1, Min({MaxEntries, Len(PriorOf(r)) + 1}))
        /\ recorded' = <<r>> \o recorded
    BY DEF LogWritten, RunEnds, StepOf, PriorOf
  <1>2. /\ run \in Seq(RunStates) /\ recorded \in Seq(Nat) /\ BusyKnows /\ r \in Nat
        /\ log \in Seq(Nat)
    BY DEF PageInv, PageShape, Runs
  <1>3. PriorOf(r) \in Seq(Nat)
    <2>1. run[r] \in RunStates
      BY <1>2, RunIsTyped
    <2> QED BY <2>1 DEF PriorOf, RunStates
  <1>4. log' \in Seq(Nat) /\ recorded' \in Seq(Nat)
    <2> DEFINE all == <<r>> \o PriorOf(r)
               n == Min({MaxEntries, Len(PriorOf(r)) + 1})
    <2>1. all \in Seq(Nat) /\ Len(all) = Len(PriorOf(r)) + 1 /\ Len(PriorOf(r)) + 1 \in Nat
      BY <1>2, <1>3
    <2>2. n = IF MaxEntries <= Len(PriorOf(r)) + 1 THEN MaxEntries ELSE Len(PriorOf(r)) + 1
      BY <2>1, PageAssumption, MinOfTwo
    <2>3. n \in Nat /\ n <= Len(all)
      BY <2>1, <2>2, PageAssumption
    <2> HIDE DEF n, all
    <2>4. SubSeq(all, 1, n) \in Seq(Nat)
      BY <2>1, <2>3, FirstElements
    <2>5. log' \in Seq(Nat)
      BY <1>1, <2>4 DEF n, all
    <2>6. <<r>> \o recorded \in Seq(Nat)
      BY <1>2
    <2> QED BY <1>1, <2>5, <2>6
  <1>5. LogHoldsNewest'
    <2> SUFFICES ASSUME ~stray
                 PROVE  log' = SubSeq(recorded', 1, Min({MaxEntries, Len(recorded')}))
      BY <1>1 DEF LogHoldsNewest
    <2>1. PriorOf(r) = log /\ log = SubSeq(recorded, 1, Min({MaxEntries, Len(recorded)}))
      BY <1>1, <1>2 DEF BusyKnows, LogHoldsNewest
    <2>2. SubSeq(<<r>> \o log, 1, Min({MaxEntries, Len(log) + 1}))
            = SubSeq(<<r>> \o recorded, 1, Min({MaxEntries, Len(<<r>> \o recorded)}))
      BY <1>2, <2>1, NewestFirst
    <2> QED BY <1>1, <2>1, <2>2
  <1> QED BY <1>1, <1>4, <1>5, RunEndsKeeps DEF Acting

\* An operation's reading has synced: the local database has what is served.
LEMMA RunSyncsKeeps ==
  ASSUME PageInv, NEW r \in Runs, RunSyncs(r) PROVE PageInv'
PROOF
  <1>1. /\ run' = [run EXCEPT ![r].at = "read"] /\ StepOf(r) = "sync" /\ local' = served
        /\ UNCHANGED <<read, mount, busy, refreshing, notice, stale, chain, served, view, log,
                       due, recorded, crowded, stray>>
    BY DEF RunSyncs, StepOf
  <1>2. PageShape /\ NoneBeyond /\ BusyKnows
    BY DEF PageInv
  <1>3. /\ run' \in Seq(RunStates) /\ Runs' = Runs /\ Last' = Last /\ StepOf(r)' = "read"
        /\ \A s \in Runs : HomeOf(s)' = HomeOf(s)
        /\ \A s \in Runs : s # r => RunKept(s)
    BY <1>1, <1>2, RunSteps DEF PageShape
  <1>4. Reads' = Reads /\ \A i \in Reads : ReadKept(i)
    BY <1>1, ReadsKept
  <1>5. PageShape'
    BY <1>1, <1>2, <1>3 DEF PageShape
  <1>6. NoneBeyond'
    BY <1>1, <1>2, <1>3, <1>4 DEF NoneBeyond, ReadKept
  <1>7. /\ \A s \in Runs : Acting(s)' <=> Acting(s)
        /\ \A s \in Runs : NotOver(s)' <=> NotOver(s)
        /\ NotOver(r)
    BY <1>1, <1>3 DEF Acting, NotOver, RunKept
  <1>8. BusyKnows'
    <2>1. stray' \/ \A s \in Runs : StepOf(s)' = "log" => PriorOf(s)' = log'
      BY <1>1, <1>2, <1>3 DEF BusyKnows, RunKept
    <2>2. LogHoldsNewest'
      BY <1>1, <1>2 DEF BusyKnows, LogHoldsNewest
    <2> QED BY <1>1, <1>2, <1>3, <1>7, <2>1, <2>2 DEF BusyKnows
  <1>9. OneByOne'
    <2> SUFFICES ASSUME ~crowded' PROVE OneThing' /\ Heard' /\ Fresh'
      BY DEF OneByOne
    <2>1. OneThing
      BY <1>1 DEF PageInv, OneByOne
    <2>2. \A i \in Reads : ~Shown(i)
      BY <1>7, <2>1, NoneReads
    <2>3. \A i \in Reads' : ~Shown(i)'
      BY <1>1, <1>4, <2>2 DEF Shown, ReadKept
    <2>4. refreshing'
      BY <1>1, <2>1 DEF OneThing
    <2>5. local' >= due'
      BY <1>1, <1>2 DEF PageShape
    <2>6. OneThing'
      BY <1>1, <1>3, <1>7, <2>1, <2>3, <2>4, <2>5 DEF OneThing
    <2> QED BY <1>3, <1>7, <2>6 DEF Heard, Fresh
  <1> QED BY <1>5, <1>6, <1>8, <1>9 DEF PageInv

\* An operation reports: its outcome, and the view it read or the warning.
LEMMA ReportsKeeps ==
  ASSUME PageInv, NEW r \in Runs, NEW failed \in BOOLEAN, StepOf(r) \in {"sync", "read"},
         Reports(r, failed),
         IF failed THEN view' = view
         ELSE StepOf(r) = "read" /\ view' = OnScreen(r, local, view)
  PROVE  PageInv'
PROOF
  <1>1. /\ run' = [run EXCEPT ![r].at = "done"]
        /\ HomeOf(r) = mount =>
             notice' = Outcome(r) /\ stale' = failed /\ refreshing' = FALSE
        /\ HomeOf(r) # mount => stale' = stale /\ refreshing' = refreshing
        /\ UNCHANGED <<read, mount, busy, chain, served, local, log, due, recorded, crowded,
                       stray>>
    BY DEF Reports, OnScreen, ResolvedNotice, HomeOf
  <1>2. PageShape /\ NoneBeyond /\ BusyKnows /\ run[r] \in RunStates
    BY RunIsTyped DEF PageInv, PageShape
  <1> DEFINE x == [run[r] EXCEPT !.at = "done"]
  <1>3. x \in RunStates /\ x.mount = HomeOf(r) /\ x.at = "done" /\ x.says = SaysOf(r)
    BY <1>2 DEF RunStates, HomeOf, SaysOf
  <1>4. run' = [run EXCEPT ![r] = x]
    BY <1>1
  <1> HIDE DEF x
  <1>5. /\ run' \in Seq(RunStates) /\ Runs' = Runs /\ Last' = Last /\ StepOf(r)' = "done"
        /\ SaysOf(r)' = SaysOf(r)
        /\ \A s \in Runs : HomeOf(s)' = HomeOf(s)
        /\ \A s \in Runs : s # r => RunKept(s)
    BY <1>2, <1>3, <1>4, RunMoved DEF PageShape
  <1>6. Reads' = Reads /\ \A i \in Reads : ReadKept(i)
    BY <1>1, ReadsKept
  <1>7. PageShape'
    <2>1. stale' \in BOOLEAN /\ refreshing' \in BOOLEAN
      BY <1>1, <1>2 DEF PageShape
    <2>2. view' \in Nat
      BY <1>2 DEF PageShape, OnScreen
    <2> QED BY <1>1, <1>2, <1>5, <2>1, <2>2 DEF PageShape
  <1>8. NoneBeyond'
    BY <1>1, <1>2, <1>5, <1>6 DEF NoneBeyond, ReadKept
  <1>9. /\ \A s \in Runs : Acting(s)' <=> Acting(s)
        /\ \A s \in Runs : NotOver(s)' <=> NotOver(s) /\ s # r
        /\ NotOver(r)
    BY <1>5 DEF Acting, NotOver, RunKept
  <1>10. BusyKnows'
    <2>1. stray' \/ \A s \in Runs : StepOf(s)' = "log" => PriorOf(s)' = log'
      BY <1>1, <1>2, <1>5 DEF BusyKnows, RunKept
    <2>2. LogHoldsNewest'
      BY <1>1, <1>2 DEF BusyKnows, LogHoldsNewest
    <2> QED BY <1>1, <1>2, <1>5, <1>9, <2>1, <2>2 DEF BusyKnows
  <1>11. OneByOne'
    <2> SUFFICES ASSUME ~crowded' PROVE OneThing' /\ Heard' /\ Fresh'
      BY DEF OneByOne
    <2>1. OneThing
      BY <1>1 DEF PageInv, OneByOne
    <2>2. \A i \in Reads : ~Shown(i)
      BY <1>9, <2>1, NoneReads
    <2>3. \A i \in Reads' : ~Shown(i)'
      BY <1>1, <1>6, <2>2 DEF Shown, ReadKept
    <2>4. r = Last /\ HomeOf(r) = mount /\ \A s \in Runs : ~NotOver(s)'
      BY <1>9, <2>1 DEF OneThing
    <2>5. \A s \in Runs : StepOf(s)' \notin {"sync", "read"}
      BY <2>4 DEF NotOver
    <2>6. OneThing'
      BY <1>5, <2>3, <2>4, <2>5 DEF OneThing
    <2>7. Told(Last)' = Outcome(r)
      <3>1. SaysOf(Last)' = SaysOf(r)
        <4>1. SaysOf(Last)' = run'[r].says
          BY <1>5, <2>4 DEF SaysOf
        <4>2. SaysOf(r)' = run'[r].says
          BY DEF SaysOf
        <4> QED BY <1>5, <4>1, <4>2
      <3> QED BY <1>5, <2>4, <3>1 DEF Told, Outcome, SaysOf
    <2>8. Heard'
      BY <1>1, <2>4, <2>7 DEF Heard
    <2>9. view' >= due' \/ stale'
      BY <1>1, <2>1, <2>4 DEF OneThing, OnScreen, HomeOf
    <2> QED BY <2>6, <2>8, <2>9 DEF Fresh
  <1> QED BY <1>7, <1>8, <1>10, <1>11 DEF PageInv

\* A reading begins: the button's, or that of a mounting.
LEMMA PageRefreshKeeps ==
  ASSUME PageInv, Refresh PROVE PageInv'
PROOF
  <1> DEFINE new == NewRead
  <1>1. /\ ~refreshing /\ ~busy /\ read' = Append(read, new) /\ refreshing' = TRUE
        /\ due' = served
        /\ UNCHANGED <<run, mount, busy, notice, stale, chain, served, local, view, log,
                       recorded, crowded, stray>>
    BY DEF Refresh
  <1>2. PageShape /\ NoneBeyond /\ BusyKnows /\ mount \in Nat /\ Last \in Nat
    BY DEF PageInv, PageShape, Last
  <1>3. new \in ReadStates /\ new.at = "sync" /\ new.mount = mount /\ new.after = Last
    BY <1>2 DEF NewRead, ReadStates, Last
  <1> HIDE DEF new
  <1>4. read' \in Seq(ReadStates)
    BY <1>1, <1>2, <1>3, ReadAdded DEF PageShape
  <1>5. PICK n : /\ n \notin Reads /\ Reads' = Reads \cup {n}
                 /\ PhaseOf(n)' = "sync" /\ ScreenOf(n)' = mount /\ AfterOf(n)' = Last
                 /\ \A i \in Reads : ReadKept(i)
    BY <1>1, <1>2, <1>3, ReadAdded DEF PageShape
  <1>6. Runs' = Runs /\ Last' = Last /\ \A r \in Runs : RunKept(r)
    BY <1>1, RunsKept
  <1>7. PageShape'
    BY <1>1, <1>2, <1>4 DEF PageShape
  <1>8. NoneBeyond'
    BY <1>1, <1>2, <1>5, <1>6 DEF NoneBeyond, RunKept, ReadKept
  <1>9. \A r \in Runs : (Acting(r)' <=> Acting(r)) /\ (NotOver(r)' <=> NotOver(r))
    BY <1>6 DEF Acting, NotOver, RunKept
  <1>10. BusyKnows'
    <2>1. LogHoldsNewest'
      BY <1>1, <1>2 DEF BusyKnows, LogHoldsNewest
    <2> QED BY <1>1, <1>2, <1>6, <1>9, <2>1 DEF BusyKnows, RunKept
  <1>11. OneByOne'
    <2> SUFFICES ASSUME ~crowded' PROVE OneThing' /\ Heard' /\ Fresh'
      BY DEF OneByOne
    <2>1. OneThing /\ Heard
      BY <1>1 DEF PageInv, OneByOne
    <2>2. \A r \in Runs : StepOf(r) \in {"act", "log", "sync", "read", "done"}
      BY <1>2, RunIsTyped DEF PageShape, StepOf, RunStates
    <2>3. \A r \in Runs : ~NotOver(r)
      BY <1>1, <1>2, <2>1, <2>2 DEF OneThing, BusyKnows, Acting, NotOver
    <2>4. \A i \in Reads : ~Shown(i)
      BY <1>1, <2>1 DEF OneThing
    <2>5. \A i \in Reads' : Shown(i)' => i = n
      BY <1>1, <1>5, <2>4 DEF Shown, ReadKept
    <2>6. Shown(n)'
      BY <1>1, <1>5 DEF Shown
    <2>7. \A r \in Runs : StepOf(r)' \notin {"sync", "read"}
      BY <1>6, <2>3 DEF RunKept, NotOver
    <2>8. OneThing'
      BY <1>1, <1>5, <1>6, <1>9, <2>3, <2>5, <2>7 DEF OneThing
    <2>9. Heard'
      <3> SUFFICES ASSUME Last \in Runs, HomeOf(Last) = mount
                   PROVE  Heard'
        BY <1>1, <1>6, <1>9, <2>3 DEF Heard, RunKept
      <3>1. notice = Told(Last) \/ notice = BadAmount
              \/ (notice = ReadError /\ \E i \in Reads : ScreenOf(i) = mount /\ AfterOf(i) = Last)
        BY <2>1, <2>3 DEF Heard
      <3>2. Told(Last)' = Told(Last) /\ BadAmount' = BadAmount
        BY <1>1 DEF Told, SaysOf, Last, BadAmount
      <3> QED BY <1>1, <1>5, <1>6, <3>1, <3>2 DEF Heard, ReadKept
    <2> QED BY <1>5, <2>6, <2>8, <2>9 DEF Fresh
  <1> QED BY <1>7, <1>8, <1>10, <1>11 DEF PageInv

\* A reading has synced.
LEMMA SyncsPageKeeps ==
  ASSUME PageInv, NEW i \in Reads, Syncs(i) PROVE PageInv'
PROOF
  <1>1. /\ PhaseOf(i) = "sync" /\ read' = [read EXCEPT ![i].at = "read"] /\ local' = served
        /\ UNCHANGED <<run, mount, busy, refreshing, notice, stale, chain, served, view, log,
                       due, recorded, crowded, stray>>
    BY DEF Syncs, PhaseOf
  <1>2. PageShape /\ NoneBeyond /\ BusyKnows
    BY DEF PageInv
  <1>3. /\ read' \in Seq(ReadStates) /\ Reads' = Reads /\ PhaseOf(i)' = "read"
        /\ \A j \in Reads : ScreenOf(j)' = ScreenOf(j) /\ AfterOf(j)' = AfterOf(j)
        /\ \A j \in Reads : j # i => ReadKept(j)
    BY <1>1, <1>2, ReadSteps DEF PageShape
  <1>4. Runs' = Runs /\ Last' = Last /\ \A r \in Runs : RunKept(r)
    BY <1>1, RunsKept
  <1>5. PageShape'
    BY <1>1, <1>2, <1>3 DEF PageShape
  <1>6. NoneBeyond'
    BY <1>1, <1>2, <1>3, <1>4 DEF NoneBeyond, RunKept
  <1>7. /\ \A r \in Runs : (Acting(r)' <=> Acting(r)) /\ (NotOver(r)' <=> NotOver(r))
        /\ \A j \in Reads : Shown(j)' <=> Shown(j)
    BY <1>1, <1>3, <1>4 DEF Acting, NotOver, Shown, RunKept, ReadKept
  <1>8. BusyKnows'
    <2>1. LogHoldsNewest'
      BY <1>1, <1>2 DEF BusyKnows, LogHoldsNewest
    <2> QED BY <1>1, <1>2, <1>4, <1>7, <2>1 DEF BusyKnows, RunKept
  <1>9. OneByOne'
    <2> SUFFICES ASSUME ~crowded' PROVE OneThing' /\ Heard' /\ Fresh'
      BY DEF OneByOne
    <2>1. OneThing /\ Heard /\ Fresh
      BY <1>1 DEF PageInv, OneByOne
    <2>2. OneThing'
      <3>1. local' >= due'
        BY <1>1, <1>2 DEF PageShape
      <3> QED BY <1>1, <1>3, <1>4, <1>7, <2>1, <3>1 DEF OneThing, RunKept
    <2>3. /\ Told(Last)' = Told(Last) /\ HomeOf(Last)' = HomeOf(Last)
          /\ BadAmount' = BadAmount
      BY <1>1 DEF Told, SaysOf, HomeOf, Last, BadAmount
    <2>4. Heard'
      BY <1>1, <1>3, <1>4, <1>7, <2>1, <2>3 DEF Heard
    <2>5. Fresh'
      BY <1>1, <1>3, <1>4, <1>7, <2>1 DEF Fresh
    <2> QED BY <2>2, <2>4, <2>5
  <1> QED BY <1>5, <1>6, <1>8, <1>9 DEF PageInv

\* A reading ends, with the view it read or with the warning and the error.
LEMMA ReadEndsKeeps ==
  ASSUME PageInv, NEW i \in Reads, NEW failed \in BOOLEAN, PhaseOf(i) # "done",
         ReadEnds(i, failed),
         IF failed THEN view' = view
         ELSE PhaseOf(i) = "read" /\ view' = ReadOnScreen(i, local, view)
  PROVE  PageInv'
PROOF
  <1>1. /\ read' = [read EXCEPT ![i].at = "done"]
        /\ ScreenOf(i) = mount => refreshing' = FALSE /\ stale' = failed
        /\ ScreenOf(i) # mount => refreshing' = refreshing /\ stale' = stale /\ view' = view
        /\ notice' = IF failed /\ ScreenOf(i) = mount THEN ReadError ELSE notice
        /\ ScreenOf(i) = mount /\ ~failed => PhaseOf(i) = "read" /\ view' = local
        /\ UNCHANGED <<run, mount, busy, chain, served, local, log, due, recorded, crowded,
                       stray>>
    BY DEF ReadEnds, Warns, ReadOnScreen, ScreenOf
  <1>2. PageShape /\ NoneBeyond /\ BusyKnows
    BY DEF PageInv
  <1>3. /\ read' \in Seq(ReadStates) /\ Reads' = Reads /\ PhaseOf(i)' = "done"
        /\ \A j \in Reads : ScreenOf(j)' = ScreenOf(j) /\ AfterOf(j)' = AfterOf(j)
        /\ \A j \in Reads : j # i => ReadKept(j)
    BY <1>1, <1>2, ReadSteps DEF PageShape
  <1>4. Runs' = Runs /\ Last' = Last /\ \A r \in Runs : RunKept(r)
    BY <1>1, RunsKept
  <1>5. PageShape'
    <2>1. refreshing' \in BOOLEAN /\ stale' \in BOOLEAN
      BY <1>1, <1>2 DEF PageShape
    <2>2. view' \in Nat
      BY <1>2 DEF PageShape, ReadOnScreen
    <2> QED BY <1>1, <1>2, <1>3, <2>1, <2>2 DEF PageShape
  <1>6. NoneBeyond'
    BY <1>1, <1>2, <1>3, <1>4 DEF NoneBeyond, RunKept
  <1>7. /\ \A r \in Runs : (Acting(r)' <=> Acting(r)) /\ (NotOver(r)' <=> NotOver(r))
        /\ \A j \in Reads : Shown(j)' <=> Shown(j) /\ j # i
    BY <1>1, <1>3, <1>4 DEF Acting, NotOver, Shown, RunKept, ReadKept
  <1>8. BusyKnows'
    <2>1. LogHoldsNewest'
      BY <1>1, <1>2 DEF BusyKnows, LogHoldsNewest
    <2> QED BY <1>1, <1>2, <1>4, <1>7, <2>1 DEF BusyKnows, RunKept
  <1>9. OneByOne'
    <2> SUFFICES ASSUME ~crowded' PROVE OneThing' /\ Heard' /\ Fresh'
      BY DEF OneByOne
    <2>1. OneThing /\ Heard /\ Fresh
      BY <1>1 DEF PageInv, OneByOne
    <2>2. /\ Told(Last)' = Told(Last) /\ HomeOf(Last)' = HomeOf(Last)
          /\ BadAmount' = BadAmount
      BY <1>1 DEF Told, SaysOf, HomeOf, Last, BadAmount
    <2>3. CASE ScreenOf(i) = mount
      <3>1. Shown(i) /\ (\A r \in Runs : ~NotOver(r)) /\ \A j \in Reads : ~Shown(j)'
        BY <1>7, <2>1, <2>3 DEF Shown, OneThing
      <3>2. AfterOf(i)' = Last' /\ ScreenOf(i)' = mount'
        BY <1>1, <1>3, <1>4, <2>1, <2>3, <3>1 DEF OneThing
      <3>3. \A r \in Runs : StepOf(r)' \notin {"sync", "read"}
        BY <1>4, <3>1 DEF RunKept, NotOver
      <3>4. OneThing'
        BY <1>3, <1>4, <1>7, <3>1, <3>3 DEF OneThing
      <3>5. Heard'
        BY <1>1, <1>3, <1>4, <1>7, <2>1, <2>2, <3>2 DEF Heard
      <3>6. view' >= due' \/ stale'
        BY <1>1, <2>1, <2>3, <3>1 DEF OneThing
      <3> QED BY <3>4, <3>5, <3>6 DEF Fresh
    <2>4. CASE ScreenOf(i) # mount
      <3>1. \A j \in Reads : Shown(j)' <=> Shown(j)
        BY <1>7, <2>4 DEF Shown
      <3>2. \A j \in Reads : Shown(j) => ReadKept(j)
        BY <1>3, <2>4 DEF Shown
      <3>3. OneThing'
        BY <1>1, <1>3, <1>4, <1>7, <2>1, <2>4, <3>1, <3>2 DEF OneThing, RunKept, ReadKept
      <3>4. Heard'
        BY <1>1, <1>3, <1>4, <1>7, <2>1, <2>2, <2>4 DEF Heard
      <3>5. Fresh'
        BY <1>1, <1>3, <1>4, <1>7, <2>1, <2>4, <3>1 DEF Fresh
      <3> QED BY <3>3, <3>4, <3>5
    <2> QED BY <2>3, <2>4
  <1> QED BY <1>5, <1>6, <1>8, <1>9 DEF PageInv

\* The tab is left and mounted again.
LEMMA RemountKeeps ==
  ASSUME PageInv, Remount PROVE PageInv'
PROOF
  <1> DEFINE new == [at |-> "sync", mount |-> mount + 1, after |-> Len(run)]
  <1>1. /\ mount' = mount + 1 /\ read' = Append(read, new)
        /\ busy' = FALSE /\ refreshing' = TRUE /\ stale' = FALSE
        /\ view' = 0 /\ due' = served
        /\ UNCHANGED <<run, chain, served, local, log, recorded, stray>>
    BY DEF Remount
  <1>2. /\ crowded' = (crowded \/ \E r \in Runs : NotOver(r))
        /\ crowded' \in BOOLEAN
    BY DEF Remount, NotOver, StepOf
  <1>3. PageShape /\ NoneBeyond /\ BusyKnows /\ mount \in Nat /\ Last \in Nat
    BY DEF PageInv, PageShape, Last
  <1>4. new \in ReadStates /\ new.at = "sync" /\ new.mount = mount + 1 /\ new.after = Last
    BY <1>3 DEF ReadStates, Last
  <1> HIDE DEF new
  <1>5. read' \in Seq(ReadStates)
    BY <1>1, <1>3, <1>4, ReadAdded DEF PageShape
  <1>6. PICK n : /\ n \notin Reads /\ Reads' = Reads \cup {n}
                 /\ PhaseOf(n)' = "sync" /\ ScreenOf(n)' = mount + 1 /\ AfterOf(n)' = Last
                 /\ \A i \in Reads : ReadKept(i)
    BY <1>1, <1>3, <1>4, ReadAdded DEF PageShape
  <1>7. Runs' = Runs /\ Last' = Last /\ \A r \in Runs : RunKept(r)
    BY <1>1, RunsKept
  <1>8. PageShape'
    <2>1. /\ run' \in Seq(RunStates) /\ stray' \in BOOLEAN
          /\ chain' \in Nat /\ served' \in Nat /\ local' \in Nat
          /\ view' \in Nat /\ due' \in Nat /\ due' <= served'
      BY <1>1, <1>3 DEF PageShape
    <2>2. log' \in Seq(Nat) /\ recorded' \in Seq(Nat)
      BY <1>1, <1>3 DEF PageShape
    <2>3. busy' \in BOOLEAN /\ refreshing' \in BOOLEAN /\ stale' \in BOOLEAN
      BY <1>1
    <2>4. mount' \in Nat
      BY <1>1, <1>3
    <2> QED BY <1>2, <1>5, <2>1, <2>2, <2>3, <2>4 DEF PageShape
  <1>9. NoneBeyond'
    BY <1>1, <1>3, <1>6, <1>7 DEF NoneBeyond, RunKept, ReadKept
  <1>10. \A r \in Runs : (Acting(r)' <=> Acting(r)) /\ (NotOver(r)' <=> NotOver(r))
    BY <1>7 DEF Acting, NotOver, RunKept
  <1>11. \A r \in Runs : HomeOf(r)' # mount'
    BY <1>1, <1>3, <1>7 DEF NoneBeyond, RunKept
  <1>12. BusyKnows'
    <2>1. LogHoldsNewest'
      BY <1>1, <1>3 DEF BusyKnows, LogHoldsNewest
    <2> QED BY <1>1, <1>3, <1>7, <1>10, <1>11, <2>1 DEF BusyKnows, RunKept
  <1>13. OneByOne'
    <2> SUFFICES ASSUME ~crowded' PROVE OneThing' /\ Heard' /\ Fresh'
      BY DEF OneByOne
    <2>1. \A r \in Runs : ~NotOver(r)
      BY <1>2
    <2>2. \A i \in Reads' : Shown(i)' => i = n
      BY <1>1, <1>3, <1>6 DEF Shown, ReadKept, NoneBeyond
    <2>3. Shown(n)'
      BY <1>1, <1>6 DEF Shown
    <2>4. \A r \in Runs : StepOf(r)' \notin {"sync", "read"}
      BY <1>7, <2>1 DEF RunKept, NotOver
    <2>5. OneThing'
      BY <1>1, <1>6, <1>7, <1>10, <2>1, <2>2, <2>4 DEF OneThing
    <2>6. Heard'
      BY <1>7, <1>11 DEF Heard
    <2> QED BY <1>6, <2>3, <2>5, <2>6 DEF Fresh
  <1> QED BY <1>8, <1>9, <1>12, <1>13 DEF PageInv

\* Every step of the page keeps the invariant.
LEMMA PageKeeps == PageInv /\ [PageNext]_pageVars => PageInv'
PROOF
  <1> SUFFICES ASSUME PageInv, [PageNext]_pageVars PROVE PageInv'
    OBVIOUS
  <1>1. /\ log \in Seq(Nat) /\ recorded \in Seq(Nat) /\ LogHoldsNewest
    BY DEF PageInv, PageShape, BusyKnows
  <1>2. ASSUME NEW r \in Runs, Succeeds(r) \/ Refused(r) \/ Fails(r) \/ LogFails(r)
        PROVE  PageInv'
    <2>1. PICK says \in {"nothing", "ok", "refused", "failed"} :
            Acting(r) /\ RunEnds(r, says) /\ log' = log /\ recorded' = recorded
      BY <1>2 DEF Succeeds, Refused, Fails, LogFails, Acting, StepOf
    <2>2. stray' = stray
      BY <2>1 DEF RunEnds
    <2>3. LogHoldsNewest'
      BY <1>1, <2>1, <2>2 DEF LogHoldsNewest
    <2> QED BY <1>1, <2>1, <2>3, RunEndsKeeps
  <1>3. ASSUME NEW r \in Runs, RunReads(r) \/ RunReadFails(r) PROVE PageInv'
    <2>1. CASE RunReads(r)
      <3>1. StepOf(r) = "read" /\ Reports(r, FALSE) /\ view' = OnScreen(r, local, view)
        BY <2>1 DEF RunReads, StepOf
      <3> QED BY <3>1, ReportsKeeps
    <2>2. CASE RunReadFails(r)
      <3>1. StepOf(r) \in {"sync", "read"} /\ Reports(r, TRUE) /\ view' = view
        BY <2>2 DEF RunReadFails, StepOf
      <3> QED BY <3>1, ReportsKeeps
    <2> QED BY <1>3, <2>1, <2>2
  <1>4. ASSUME NEW i \in Reads, Read(i) \/ ReadFails(i) PROVE PageInv'
    <2>1. CASE Read(i)
      <3>1. PhaseOf(i) = "read" /\ ReadEnds(i, FALSE) /\ view' = ReadOnScreen(i, local, view)
        BY <2>1 DEF Read, PhaseOf
      <3> QED BY <3>1, ReadEndsKeeps
    <2>2. CASE ReadFails(i)
      <3>1. PhaseOf(i) # "done" /\ ReadEnds(i, TRUE) /\ view' = view
        BY <2>2 DEF ReadFails, PhaseOf
      <3> QED BY <3>1, ReadEndsKeeps
    <2> QED BY <1>4, <2>1, <2>2
  <1> QED BY <1>2, <1>3, <1>4, AroundKeeps, BeginKeeps, LandKeeps, LogReadKeeps,
             LogWrittenKeeps, RunSyncsKeeps, PageRefreshKeeps, SyncsPageKeeps, RemountKeeps DEF PageNext

\* The page's invariant holds in every state.
LEMMA PageInvariant == PageSpec => []PageInv
  BY PageBegins, PageKeeps, PTL DEF PageSpec

\* The quiet page, in the invariant's terms.
LEMMA QuietPage ==
  ASSUME PageInv, ~crowded, Quiet
  PROVE  (\A r \in Runs : ~NotOver(r)) /\ (\A i \in Reads : ~Shown(i))
PROOF
  <1>1. OneThing
    BY DEF PageInv, OneByOne
  <1>2. \A r \in Runs : ~(HomeOf(r) = mount /\ NotOver(r))
    BY DEF Quiet, Running, HomeOf, NotOver, StepOf
  <1>3. \A i \in Reads : ~Shown(i)
    BY DEF Quiet, Reading, Shown, PhaseOf, ScreenOf
  <1> QED BY <1>1, <1>2, <1>3 DEF OneThing

\* The outcome of the last operation is the one shown, unless operations and
\* readings have overlapped: no other answer replaces it but the error of a later
\* reading or that of an amount rejected since (run, refreshAndReport, parseAmount
\* and parseShieldAmount in Shielded.tsx).
THEOREM OutcomeIsShown == PageSpec => []OutcomeShownApart
PROOF
  <1>1. PageInv => OutcomeShownApart
    <2> SUFFICES ASSUME PageInv, ~crowded, Quiet, Last # 0, run[Last].mount = mount
                 PROVE  \/ notice = Outcome(Last) \/ notice = BadAmount
                        \/ /\ notice = ReadError
                           /\ \E i \in Reads : read[i].mount = mount /\ read[i].after = Last
      BY DEF OutcomeShownApart, OutcomeShown
    <2>1. Last \in Runs /\ HomeOf(Last) = mount
      BY DEF PageInv, PageShape, Last, Runs, HomeOf
    <2>2. Heard /\ \A r \in Runs : ~NotOver(r)
      BY QuietPage DEF PageInv, OneByOne
    <2> QED BY <2>1, <2>2 DEF Heard, Told, Outcome, SaysOf, ScreenOf, AfterOf
  <1> QED BY <1>1, PageInvariant, PTL

\* On a quiet page where nothing has overlapped, a view that misses an operation
\* that the sources served when its reading began is marked stale, however late
\* operations land and however far the sources lag (refresh, refreshAndReport and
\* run in Shielded.tsx).
THEOREM OldViewIsSaid == PageSpec => []OldViewSaid
PROOF
  <1>1. PageInv => OldViewSaid
    <2> SUFFICES ASSUME PageInv, Quiet, ~crowded, view < due PROVE stale
      BY DEF OldViewSaid
    <2>1. view >= due \/ stale
      BY QuietPage DEF PageInv, OneByOne, Fresh
    <2>2. view \in Nat /\ due \in Nat
      BY DEF PageInv, PageShape
    <2> QED BY <2>1, <2>2
  <1> QED BY <1>1, PageInvariant, PTL

\* The log holds the newest of all that was recorded, but for operations of
\* two mountings.
THEOREM LogIsNewest == PageSpec => []LogHoldsNewest
PROOF
  <1>1. PageInv => LogHoldsNewest
    BY DEF PageInv, BusyKnows
  <1> QED BY <1>1, PageInvariant, PTL

-----------------------------------------------------------------------------
(*****************************************************************************)
(* ConfidentialTab: the confidential rail's tab.                             *)
(*****************************************************************************)

\* What an operation, a refresh and a form hold, and the type of the tab.
OpStates ==
  [kind : {"merge", "transfer", "deposit", "withdraw"}, form : Nat, mount : Nat,
   at : {"act", "landed", "refresh", "done"}, ok : BOOLEAN]
LoadStates == [at : {"sync", "verify", "done"}, of : Nat, seen : Nat, mount : Nat]
FormStates == [panel : {"Send", "Move"}, id : Nat \ {0}, busy : BOOLEAN]

TabShape ==
  /\ op \in Seq(OpStates) /\ load \in Seq(LoadStates) /\ form \in FormStates
  /\ opened \in Nat /\ landed \in Nat
  /\ loading \in BOOLEAN /\ viewError \in BOOLEAN
  /\ mingled \in BOOLEAN /\ abandoned \in BOOLEAN

\* The fields by name: the provers reason better about these than about records.
AtOf(o) == op[o].at
FormOf(o) == op[o].form
MountOf(o) == op[o].mount
KindOf(o) == op[o].kind
OkOf(o) == op[o].ok
Stage(i) == load[i].at
For(i) == load[i].of
Seen(i) == load[i].seen
On(i) == load[i].mount
FormId == form.id
FormBusy == form.busy
Newest == Len(op)

\* What runs: an operation, a refresh whose screen is still there, the refresh
\* of an operation, an operation of the open form.
Live(o) == AtOf(o) # "done"
Shows(i) == Stage(i) # "done" /\ On(i) = opened
OfOp(i) == Stage(i) # "done" /\ For(i) # 0
InForm(o) == Live(o) /\ FormOf(o) = FormId

\* Form and mounting of an operation are those of before or the ones on screen.
NoneFromLater ==
  /\ FormId \in Nat \ {0}
  /\ \A o \in Ops : /\ FormOf(o) \in Nat /\ FormOf(o) <= FormId
                    /\ MountOf(o) \in Nat /\ MountOf(o) <= opened
  /\ \A i \in Loads : On(i) \in Nat /\ On(i) <= opened

\* An operation that waits for its refresh has one, and it is on the mounting
\* the operation began on; only such an operation has been reported done.
OwnRefresh ==
  /\ \A i \in Loads : OfOp(i) =>
       For(i) \in Ops /\ AtOf(For(i)) = "refresh" /\ MountOf(For(i)) = On(i)
  /\ \A i, j \in Loads : OfOp(i) /\ OfOp(j) /\ For(i) = For(j) => i = j
  /\ \A o \in Ops : OkOf(o) => AtOf(o) \in {"refresh", "done"}

\* The open form knows of its one operation, and spends are operations of the
\* open form, unless one was abandoned.
FormKnows ==
  /\ \A o \in Ops : InForm(o) => FormBusy
  /\ \A o, p \in Ops : InForm(o) /\ InForm(p) => o = p
  /\ abandoned \/ \A o \in Ops : Live(o) /\ KindOf(o) \in Spends => InForm(o)

\* While nothing has overlapped, only the last operation can be under way, and
\* only with its own refresh.
Single ==
  /\ \A o \in Ops : Live(o) => o = Newest /\ MountOf(o) = opened
  /\ \A i, j \in Loads : Shows(i) /\ Shows(j) => i = j
  /\ \A i \in Loads : Shows(i) =>
       /\ loading
       /\ For(i) # 0 \/ \A o \in Ops : ~Live(o)
       /\ Stage(i) = "verify" => Seen(i) = landed

\* A tab at rest has the balances of all that landed, or says that it may not.
Said ==
  /\ \A o \in Ops : ~Live(o)
  /\ \A i \in Loads : ~Shows(i)
  /\ Newest \in Ops
  /\ OkOf(Newest)
  => balances = landed \/ viewError

\* Either operations and refreshes have mingled, or each was alone.
Apart == mingled \/ (Single /\ Said)

TabInv == TabShape /\ NoneFromLater /\ OwnRefresh /\ FormKnows /\ Apart

\* What a step leaves of an operation, and of a refresh.
OpKept(o) ==
  /\ AtOf(o)' = AtOf(o) /\ FormOf(o)' = FormOf(o) /\ MountOf(o)' = MountOf(o)
  /\ KindOf(o)' = KindOf(o) /\ OkOf(o)' = OkOf(o)
LoadKept(i) ==
  Stage(i)' = Stage(i) /\ For(i)' = For(i) /\ Seen(i)' = Seen(i) /\ On(i)' = On(i)

\* Operations, refreshes and a form that are not assigned are kept.
LEMMA OpsKept ==
  ASSUME op' = op PROVE Ops' = Ops /\ Newest' = Newest /\ \A o \in Ops : OpKept(o)
  BY DEF Ops, Newest, OpKept, AtOf, FormOf, MountOf, KindOf, OkOf

\* The same for the refreshes.
LEMMA LoadsKept ==
  ASSUME load' = load PROVE Loads' = Loads /\ \A i \in Loads : LoadKept(i)
  BY DEF Loads, LoadKept, Stage, For, Seen, On

\* The same for the form.
LEMMA FormKept ==
  ASSUME form' = form PROVE FormId' = FormId /\ FormBusy' = FormBusy
  BY DEF FormId, FormBusy

\* An operation begins: it is the newest, and the others are as they were.
LEMMA OpAdded ==
  ASSUME op \in Seq(OpStates), NEW x \in OpStates, op' = Append(op, x)
  PROVE  /\ op' \in Seq(OpStates)
         /\ \E n : /\ n \notin Ops /\ n # 0 /\ Ops' = Ops \cup {n} /\ Newest' = n
                   /\ AtOf(n)' = x.at /\ FormOf(n)' = x.form /\ MountOf(n)' = x.mount
                   /\ KindOf(n)' = x.kind /\ OkOf(n)' = x.ok
                   /\ \A o \in Ops : OpKept(o)
PROOF
  <1>1. op' \in Seq(OpStates)
    OBVIOUS
  <1>2. \E n : n = Len(op) + 1
    OBVIOUS
  <1>3. PICK n : n = Len(op) + 1
    BY <1>2
  <1>4. Len(op') = n /\ n # 0 /\ n \notin Ops /\ Ops' = Ops \cup {n}
    BY <1>3 DEF Ops
  <1>5. op'[n] = x
    BY <1>3
  <1>6. \A o \in Ops : op'[o] = op[o]
    BY <1>3 DEF Ops
  <1>7. \A o \in Ops : OpKept(o)
    BY <1>6 DEF OpKept, AtOf, FormOf, MountOf, KindOf, OkOf
  <1>8. /\ AtOf(n)' = x.at /\ FormOf(n)' = x.form /\ MountOf(n)' = x.mount
        /\ KindOf(n)' = x.kind /\ OkOf(n)' = x.ok
    BY <1>5 DEF AtOf, FormOf, MountOf, KindOf, OkOf
  <1> QED BY <1>1, <1>4, <1>7, <1>8 DEF Newest

\* A refresh begins, and the others are as they were.
LEMMA LoadAdded ==
  ASSUME load \in Seq(LoadStates), NEW x \in LoadStates, load' = Append(load, x)
  PROVE  /\ load' \in Seq(LoadStates)
         /\ \E n : /\ n \notin Loads /\ Loads' = Loads \cup {n}
                   /\ Stage(n)' = x.at /\ For(n)' = x.of /\ Seen(n)' = x.seen /\ On(n)' = x.mount
                   /\ \A i \in Loads : LoadKept(i)
PROOF
  <1>1. load' \in Seq(LoadStates)
    OBVIOUS
  <1>2. \E n : n = Len(load) + 1
    OBVIOUS
  <1>3. PICK n : n = Len(load) + 1
    BY <1>2
  <1>4. n \notin Loads /\ Loads' = Loads \cup {n}
    BY <1>3 DEF Loads
  <1>5. load'[n] = x
    BY <1>3
  <1>6. \A i \in Loads : load'[i] = load[i]
    BY <1>3 DEF Loads
  <1>7. \A i \in Loads : LoadKept(i)
    BY <1>6 DEF LoadKept, Stage, For, Seen, On
  <1>8. Stage(n)' = x.at /\ For(n)' = x.of /\ Seen(n)' = x.seen /\ On(n)' = x.mount
    BY <1>5 DEF Stage, For, Seen, On
  <1> QED BY <1>1, <1>4, <1>7, <1>8

\* An operation steps, and the others are as they were.
LEMMA OpMoved ==
  ASSUME op \in Seq(OpStates), NEW k \in Ops, NEW a \in {"act", "landed", "refresh", "done"},
         NEW b \in BOOLEAN, op' = [op EXCEPT ![k] = [op[k] EXCEPT !.at = a, !.ok = b]]
  PROVE  /\ op' \in Seq(OpStates) /\ Ops' = Ops /\ Newest' = Newest /\ AtOf(k)' = a /\ OkOf(k)' = b
         /\ \A o \in Ops : FormOf(o)' = FormOf(o) /\ MountOf(o)' = MountOf(o)
                           /\ KindOf(o)' = KindOf(o)
         /\ \A o \in Ops : o # k => OpKept(o)
PROOF
  <1> DEFINE x == [op[k] EXCEPT !.at = a, !.ok = b]
  <1>1. op[k] \in OpStates
    BY DEF Ops
  <1>2. /\ x \in OpStates /\ x.at = a /\ x.ok = b /\ x.form = op[k].form
        /\ x.mount = op[k].mount /\ x.kind = op[k].kind
    BY <1>1 DEF OpStates
  <1>3. op' = [op EXCEPT ![k] = x]
    OBVIOUS
  <1> HIDE DEF x
  <1>4. op' \in Seq(OpStates) /\ Len(op') = Len(op) /\ Ops' = Ops /\ op'[k] = x
    BY <1>2, <1>3 DEF Ops
  <1>5. \A o \in Ops : o # k => op'[o] = op[o]
    BY <1>3 DEF Ops
  <1>6. \A o \in Ops : o # k => OpKept(o)
    BY <1>5 DEF OpKept, AtOf, FormOf, MountOf, KindOf, OkOf
  <1>7. /\ AtOf(k)' = a /\ OkOf(k)' = b /\ FormOf(k)' = FormOf(k) /\ MountOf(k)' = MountOf(k)
        /\ KindOf(k)' = KindOf(k)
    BY <1>2, <1>4 DEF AtOf, FormOf, MountOf, KindOf, OkOf
  <1>8. \A o \in Ops : FormOf(o)' = FormOf(o) /\ MountOf(o)' = MountOf(o)
                       /\ KindOf(o)' = KindOf(o)
    BY <1>6, <1>7 DEF OpKept
  <1> QED BY <1>4, <1>6, <1>7, <1>8 DEF Newest

\* A refresh steps, and the others are as they were.
LEMMA LoadMoved ==
  ASSUME load \in Seq(LoadStates), NEW k \in Loads, NEW a \in {"sync", "verify", "done"},
         NEW c \in Nat, load' = [load EXCEPT ![k] = [load[k] EXCEPT !.at = a, !.seen = c]]
  PROVE  /\ load' \in Seq(LoadStates) /\ Loads' = Loads /\ Stage(k)' = a /\ Seen(k)' = c
         /\ \A i \in Loads : For(i)' = For(i) /\ On(i)' = On(i)
         /\ \A i \in Loads : i # k => LoadKept(i)
PROOF
  <1> DEFINE x == [load[k] EXCEPT !.at = a, !.seen = c]
  <1>1. load[k] \in LoadStates
    BY DEF Loads
  <1>2. x \in LoadStates /\ x.at = a /\ x.seen = c /\ x.of = load[k].of /\ x.mount = load[k].mount
    BY <1>1 DEF LoadStates
  <1>3. load' = [load EXCEPT ![k] = x]
    OBVIOUS
  <1> HIDE DEF x
  <1>4. load' \in Seq(LoadStates) /\ Loads' = Loads /\ load'[k] = x
    BY <1>2, <1>3 DEF Loads
  <1>5. \A i \in Loads : i # k => load'[i] = load[i]
    BY <1>3 DEF Loads
  <1>6. \A i \in Loads : i # k => LoadKept(i)
    BY <1>5 DEF LoadKept, Stage, For, Seen, On
  <1>7. Stage(k)' = a /\ Seen(k)' = c /\ For(k)' = For(k) /\ On(k)' = On(k)
    BY <1>2, <1>4 DEF Stage, For, Seen, On
  <1>8. \A i \in Loads : For(i)' = For(i) /\ On(i)' = On(i)
    BY <1>6, <1>7 DEF LoadKept
  <1> QED BY <1>4, <1>6, <1>7, <1>8

\* The tab opens with nothing under way.
LEMMA TabBegins == TabInit => TabInv
PROOF
  <1> SUFFICES ASSUME TabInit PROVE TabInv
    OBVIOUS
  <1> DEFINE first == [at |-> "sync", of |-> 0, seen |-> 0, mount |-> 1]
  <1>1. /\ op = <<>> /\ load = <<first>> /\ opened = 1 /\ landed = 0
        /\ loading = TRUE /\ viewError = FALSE /\ mingled = FALSE /\ abandoned = FALSE
    BY DEF TabInit
  <1>2. form \in FormStates
    BY DEF TabInit, FormStates
  <1>3. first \in LoadStates /\ first.at = "sync" /\ first.of = 0 /\ first.mount = 1
    BY DEF LoadStates
  <1> HIDE DEF first
  <1>4. op \in Seq(OpStates) /\ Ops = {}
    BY <1>1 DEF Ops
  <1>5. load \in Seq(LoadStates) /\ Loads = {1} /\ load[1] = first
    BY <1>1, <1>3 DEF Loads
  <1>6. Stage(1) = "sync" /\ For(1) = 0 /\ On(1) = 1 /\ FormId \in Nat \ {0}
    BY <1>2, <1>3, <1>5 DEF Stage, For, On, FormId, FormStates
  <1>7. TabShape
    BY <1>1, <1>2, <1>4, <1>5 DEF TabShape
  <1>8. NoneFromLater /\ OwnRefresh /\ FormKnows
    BY <1>1, <1>4, <1>5, <1>6 DEF NoneFromLater, OwnRefresh, OfOp, FormKnows
  <1>9. Single /\ Said
    BY <1>1, <1>4, <1>5, <1>6 DEF Single, Said, Shows
  <1> QED BY <1>7, <1>8, <1>9 DEF TabInv, Apart

\* An operation under way is not what a refresh of this mounting is for, unless
\* it waits for one.
LEMMA NoneLoads ==
  ASSUME TabInv, ~mingled, NEW o \in Ops, Live(o), AtOf(o) # "refresh"
  PROVE  \A i \in Loads : ~Shows(i)
PROOF
  <1> SUFFICES ASSUME NEW i \in Loads, Shows(i) PROVE FALSE
    OBVIOUS
  <1>1. Single /\ OwnRefresh
    BY DEF TabInv, Apart
  <1>2. OfOp(i)
    BY <1>1 DEF Single, OfOp, Shows
  <1>3. For(i) \in Ops /\ AtOf(For(i)) = "refresh" /\ Live(For(i))
    BY <1>1, <1>2 DEF OwnRefresh, Live
  <1>4. For(i) = Newest /\ o = Newest
    BY <1>1, <1>3 DEF Single
  <1> QED BY <1>3, <1>4

\* A button starts an operation: of the card, or of a form that was free.
LEMMA OpBegins ==
  ASSUME TabInv, NEW sort \in {"merge", "transfer", "deposit", "withdraw"}, NEW id,
         BeginsOp(sort, id), form' \in FormStates, FormId' = FormId,
         \/ id = NoForm /\ FormBusy' = FormBusy /\ sort \notin Spends
         \/ id = FormId /\ ~FormBusy /\ FormBusy'
  PROVE  TabInv'
PROOF
  <1> DEFINE new == [kind |-> sort, form |-> id, mount |-> opened, at |-> "act", ok |-> FALSE]
  <1>1. /\ op' = Append(op, new) /\ load' = load /\ opened' = opened /\ landed' = landed
        /\ loading' = loading /\ viewError' = viewError /\ abandoned' = abandoned
        /\ mingled' = (mingled \/ (\E o \in Ops : Underway(o)) \/ (\E i \in Loads : Loading(i)))
    BY DEF BeginsOp
  <1>2. /\ op \in Seq(OpStates) /\ opened \in Nat /\ NoneFromLater /\ OwnRefresh /\ FormKnows
        /\ FormId \in Nat \ {0}
    BY DEF TabInv, TabShape, NoneFromLater
  <1>3. id \in Nat /\ id <= FormId
    BY <1>2 DEF NoForm
  <1>4. /\ new \in OpStates /\ new.kind = sort /\ new.form = id /\ new.mount = opened
        /\ new.at = "act" /\ new.ok = FALSE
    BY <1>2, <1>3 DEF OpStates
  <1> HIDE DEF new
  <1>5. op' \in Seq(OpStates)
    BY <1>1, <1>2, <1>4, OpAdded
  <1>6. PICK n : /\ n \notin Ops /\ n # 0 /\ Ops' = Ops \cup {n} /\ Newest' = n
                 /\ AtOf(n)' = "act" /\ FormOf(n)' = id /\ MountOf(n)' = opened
                 /\ KindOf(n)' = sort /\ OkOf(n)' = FALSE
                 /\ \A o \in Ops : OpKept(o)
    BY <1>1, <1>2, <1>4, OpAdded
  <1>7. Loads' = Loads /\ \A i \in Loads : LoadKept(i)
    BY <1>1, LoadsKept
  <1>8. TabShape'
    <2>1. mingled' \in BOOLEAN
      BY <1>1 DEF TabInv, TabShape
    <2> QED BY <1>1, <1>5, <2>1 DEF TabInv, TabShape
  <1>9. NoneFromLater'
    BY <1>1, <1>2, <1>3, <1>6, <1>7 DEF NoneFromLater, OpKept, LoadKept
  <1>10. OwnRefresh'
    BY <1>1, <1>2, <1>6, <1>7 DEF OwnRefresh, OfOp, OpKept, LoadKept
  <1>11. FormKnows'
    <2>1. CASE id = NoForm /\ FormBusy' = FormBusy /\ sort \notin Spends
      BY <1>1, <1>2, <1>6, <2>1 DEF FormKnows, InForm, Live, OpKept, NoForm
    <2>2. CASE id = FormId /\ ~FormBusy /\ FormBusy'
      BY <1>1, <1>2, <1>6, <2>2 DEF FormKnows, InForm, Live, OpKept
    <2> QED BY <2>1, <2>2
  <1>12. Apart'
    <2> SUFFICES ASSUME ~mingled' PROVE Single' /\ Said'
      BY DEF Apart
    <2>1. /\ \A o \in Ops : ~Live(o)
          /\ \A i \in Loads : ~Shows(i)
      BY <1>1 DEF Underway, Loading, Live, Shows, AtOf, Stage, On
    <2>2. \A i \in Loads' : ~Shows(i)'
      BY <1>1, <1>7, <2>1 DEF Shows, LoadKept
    <2>3. \A o \in Ops' : Live(o)' => o = n
      BY <1>6, <2>1 DEF Live, OpKept
    <2>4. Single'
      BY <1>1, <1>6, <2>2, <2>3 DEF Single
    <2> QED BY <1>6, <2>4 DEF Said
  <1> QED BY <1>8, <1>9, <1>10, <1>11, <1>12 DEF TabInv

\* A contract executes an operation.
LEMMA LandsKeeps ==
  ASSUME TabInv, NEW o \in Ops, Lands(o) PROVE TabInv'
PROOF
  <1>1. /\ load' = load /\ form' = form /\ opened' = opened /\ landed' = landed + 1
        /\ loading' = loading /\ viewError' = viewError /\ abandoned' = abandoned
        /\ mingled' = mingled /\ balances' = balances
        /\ op' = [op EXCEPT ![o].at = "landed"] /\ op[o].at = "act"
    BY DEF Lands
  <1>2. TabShape /\ NoneFromLater /\ OwnRefresh /\ FormKnows /\ AtOf(o) = "act"
    BY <1>1 DEF TabInv, AtOf
  <1>3. op[o] \in OpStates /\ OkOf(o) \in BOOLEAN
    <2>1. op[o] \in OpStates
      BY <1>2 DEF TabShape, Ops
    <2> QED BY <2>1 DEF OkOf, OpStates
  <1>4. op' = [op EXCEPT ![o] = [op[o] EXCEPT !.at = "landed", !.ok = OkOf(o)]]
    BY <1>1, <1>3 DEF OkOf, OpStates
  <1>5. /\ op' \in Seq(OpStates) /\ Ops' = Ops /\ Newest' = Newest
        /\ AtOf(o)' = "landed" /\ OkOf(o)' = OkOf(o)
        /\ \A p \in Ops : FormOf(p)' = FormOf(p) /\ MountOf(p)' = MountOf(p)
                          /\ KindOf(p)' = KindOf(p)
        /\ \A p \in Ops : p # o => OpKept(p)
    BY <1>2, <1>3, <1>4, OpMoved DEF TabShape
  <1>6. Loads' = Loads /\ (\A i \in Loads : LoadKept(i)) /\ FormId' = FormId /\ FormBusy' = FormBusy
    BY <1>1, LoadsKept, FormKept
  <1>7. TabShape'
    BY <1>1, <1>2, <1>5 DEF TabShape
  <1>8. NoneFromLater'
    BY <1>1, <1>2, <1>5, <1>6 DEF NoneFromLater, LoadKept
  <1>9. OwnRefresh'
    BY <1>1, <1>2, <1>5, <1>6 DEF OwnRefresh, OfOp, OpKept, LoadKept
  <1>10. \A p \in Ops : Live(p)' <=> Live(p)
    BY <1>2, <1>5 DEF Live, OpKept
  <1>11. FormKnows'
    BY <1>1, <1>2, <1>5, <1>6, <1>10 DEF FormKnows, InForm
  <1>12. Apart'
    <2> SUFFICES ASSUME ~mingled' PROVE Single' /\ Said'
      BY DEF Apart
    <2>1. ~mingled /\ Live(o)
      BY <1>1, <1>2 DEF Live
    <2>2. \A i \in Loads : ~Shows(i)
      BY <1>2, <2>1, NoneLoads
    <2>3. \A i \in Loads : ~Shows(i)'
      BY <1>1, <1>6, <2>2 DEF Shows, LoadKept
    <2>4. Single
      BY <2>1 DEF TabInv, Apart
    <2>5. Single'
      BY <1>1, <1>5, <1>6, <1>10, <2>3, <2>4 DEF Single
    <2> QED BY <1>5, <1>10, <2>1, <2>5 DEF Said
  <1> QED BY <1>7, <1>8, <1>9, <1>11, <1>12 DEF TabInv

\* The marks that the end of an operation takes away.
LEMMA FreesForm ==
  ASSUME form \in FormStates, NEW o, Frees(o)
  PROVE  form' \in FormStates /\ FormId' = FormId /\ (FormBusy' <=> FormBusy /\ FormOf(o) # FormId)
  BY DEF Frees, FormStates, FormId, FormBusy, FormOf

\* An operation ends: the form knows of it no more, and had no other.
LEMMA EndKeepsForm ==
  ASSUME FormKnows, NEW o \in Ops, Live(o), Ops' = Ops, FormId' = FormId, abandoned' = abandoned,
         FormBusy' <=> FormBusy /\ FormOf(o) # FormId,
         \A p \in Ops : FormOf(p)' = FormOf(p) /\ KindOf(p)' = KindOf(p),
         \A p \in Ops : Live(p)' <=> Live(p) /\ p # o
  PROVE  FormKnows'
  BY DEF FormKnows, InForm

\* An operation throws.
LEMMA OpFailsKeeps ==
  ASSUME TabInv, NEW o \in Ops, OpFails(o) PROVE TabInv'
PROOF
  <1>1. /\ load' = load /\ opened' = opened /\ landed' = landed
        /\ loading' = loading /\ viewError' = viewError /\ abandoned' = abandoned
        /\ mingled' = mingled /\ balances' = balances /\ Frees(o)
        /\ op' = [op EXCEPT ![o].at = "done"] /\ op[o].at \in {"act", "landed"}
    BY DEF OpFails
  <1>2. /\ TabShape /\ NoneFromLater /\ OwnRefresh /\ FormKnows
        /\ AtOf(o) \in {"act", "landed"} /\ Live(o) /\ AtOf(o) # "refresh"
    BY <1>1 DEF TabInv, AtOf, Live
  <1>3. op[o] \in OpStates /\ OkOf(o) \in BOOLEAN
    <2>1. op[o] \in OpStates
      BY <1>2 DEF TabShape, Ops
    <2> QED BY <2>1 DEF OkOf, OpStates
  <1>4. op' = [op EXCEPT ![o] = [op[o] EXCEPT !.at = "done", !.ok = OkOf(o)]]
    BY <1>1, <1>3 DEF OkOf, OpStates
  <1>5. /\ op' \in Seq(OpStates) /\ Ops' = Ops /\ Newest' = Newest
        /\ AtOf(o)' = "done" /\ OkOf(o)' = OkOf(o)
        /\ \A p \in Ops : FormOf(p)' = FormOf(p) /\ MountOf(p)' = MountOf(p)
                          /\ KindOf(p)' = KindOf(p)
        /\ \A p \in Ops : p # o => OpKept(p)
    BY <1>2, <1>3, <1>4, OpMoved DEF TabShape
  <1>6. Loads' = Loads /\ \A i \in Loads : LoadKept(i)
    BY <1>1, LoadsKept
  <1>7. form' \in FormStates /\ FormId' = FormId /\ (FormBusy' <=> FormBusy /\ FormOf(o) # FormId)
    BY <1>1, <1>2, FreesForm DEF TabShape
  <1>8. TabShape'
    BY <1>1, <1>2, <1>5, <1>7 DEF TabShape
  <1>9. NoneFromLater'
    BY <1>1, <1>2, <1>5, <1>6, <1>7 DEF NoneFromLater, LoadKept
  <1>10. ~OkOf(o)
    BY <1>2 DEF OwnRefresh
  <1>11. OwnRefresh'
    BY <1>1, <1>2, <1>5, <1>6, <1>10 DEF OwnRefresh, OfOp, OpKept, LoadKept
  <1>12. \A p \in Ops : Live(p)' <=> Live(p) /\ p # o
    BY <1>5 DEF Live, OpKept
  <1>13. FormKnows'
    BY <1>1, <1>2, <1>5, <1>7, <1>12, EndKeepsForm
  <1>14. Apart'
    <2> SUFFICES ASSUME ~mingled' PROVE Single' /\ Said'
      BY DEF Apart
    <2>1. ~mingled /\ Single
      BY <1>1 DEF TabInv, Apart
    <2>2. \A i \in Loads : ~Shows(i)
      BY <1>2, <2>1, NoneLoads
    <2>3. \A i \in Loads : ~Shows(i)'
      BY <1>1, <1>6, <2>2 DEF Shows, LoadKept
    <2>4. Single'
      BY <1>1, <1>5, <1>6, <1>12, <2>1, <2>3 DEF Single
    <2>5. Newest = o
      BY <1>2, <2>1 DEF Single
    <2>6. ~OkOf(Newest)'
      BY <1>5, <1>10, <2>5
    <2> QED BY <2>4, <2>6 DEF Said
  <1> QED BY <1>8, <1>9, <1>11, <1>13, <1>14 DEF TabInv

\* An operation that has landed asks for its refresh.
LEMMA AsksKeeps ==
  ASSUME TabInv, NEW o \in Ops, AsksRefresh(o) PROVE TabInv'
PROOF
  <1> DEFINE new == [at |-> "sync", of |-> o, seen |-> 0, mount |-> op[o].mount]
  <1>1. /\ form' = form /\ opened' = opened /\ landed' = landed
        /\ abandoned' = abandoned /\ mingled' = mingled /\ balances' = balances
        /\ op' = [op EXCEPT ![o].at = "refresh", ![o].ok = TRUE] /\ op[o].at = "landed"
        /\ BeginsLoad(new)
    BY DEF AsksRefresh
  <1>2. TabShape /\ NoneFromLater /\ OwnRefresh /\ FormKnows /\ AtOf(o) = "landed" /\ Live(o)
    BY <1>1 DEF TabInv, AtOf, Live
  <1>3. op[o] \in OpStates /\ o \in Nat /\ o # 0
    BY <1>2 DEF TabShape, Ops
  <1>4. op' = [op EXCEPT ![o] = [op[o] EXCEPT !.at = "refresh", !.ok = TRUE]]
    BY <1>1, <1>3 DEF OpStates
  <1>5. /\ op' \in Seq(OpStates) /\ Ops' = Ops /\ Newest' = Newest
        /\ AtOf(o)' = "refresh" /\ OkOf(o)' = TRUE
        /\ \A p \in Ops : FormOf(p)' = FormOf(p) /\ MountOf(p)' = MountOf(p)
                          /\ KindOf(p)' = KindOf(p)
        /\ \A p \in Ops : p # o => OpKept(p)
    BY <1>2, <1>3, <1>4, OpMoved DEF TabShape
  <1>6. /\ new \in LoadStates /\ new.at = "sync" /\ new.of = o /\ new.seen = 0
        /\ new.mount = MountOf(o)
    BY <1>3 DEF LoadStates, OpStates, MountOf
  <1>7. /\ load' = Append(load, new) /\ (loading' <=> loading \/ MountOf(o) = opened)
        /\ loading' \in BOOLEAN /\ viewError' \in BOOLEAN
    BY <1>1, <1>2 DEF BeginsLoad, MountOf, TabShape
  <1>0. MountOf(o) \in Nat
    BY <1>3 DEF MountOf, OpStates
  <1> HIDE DEF new
  <1>8. load' \in Seq(LoadStates)
    BY <1>2, <1>6, <1>7, LoadAdded DEF TabShape
  <1>9. PICK n : /\ n \notin Loads /\ Loads' = Loads \cup {n}
                 /\ Stage(n)' = "sync" /\ For(n)' = o /\ Seen(n)' = 0 /\ On(n)' = MountOf(o)
                 /\ \A i \in Loads : LoadKept(i)
    BY <1>2, <1>6, <1>7, LoadAdded DEF TabShape
  <1>10. FormId' = FormId /\ FormBusy' = FormBusy
    BY <1>1, FormKept
  <1>11. TabShape'
    BY <1>1, <1>2, <1>5, <1>7, <1>8 DEF TabShape
  <1>12. NoneFromLater'
    BY <1>1, <1>2, <1>5, <1>9, <1>10 DEF NoneFromLater, LoadKept
  <1>13. OwnRefresh'
    BY <1>1, <1>2, <1>3, <1>5, <1>9 DEF OwnRefresh, OfOp, OpKept, LoadKept
  <1>14. \A p \in Ops : Live(p)' <=> Live(p)
    BY <1>2, <1>5 DEF Live, OpKept
  <1>15. FormKnows'
    BY <1>1, <1>2, <1>5, <1>10, <1>14 DEF FormKnows, InForm
  <1>16. Apart'
    <2> SUFFICES ASSUME ~mingled' PROVE Single' /\ Said'
      BY DEF Apart
    <2>1. ~mingled /\ Single /\ MountOf(o) = opened
      BY <1>1, <1>2 DEF TabInv, Apart, Single
    <2>2. \A i \in Loads : ~Shows(i)
      BY <1>2, <2>1, NoneLoads
    <2>3. \A i \in Loads' : Shows(i)' => i = n
      BY <1>1, <1>9, <2>2 DEF Shows, LoadKept
    <2>4. Single'
      BY <1>1, <1>3, <1>5, <1>7, <1>9, <1>14, <2>1, <2>3 DEF Single
    <2> QED BY <1>2, <1>5, <1>14, <2>4 DEF Said
  <1> QED BY <1>11, <1>12, <1>13, <1>15, <1>16 DEF TabInv

\* A refresh has read the account.
LEMMA SyncsKeeps ==
  ASSUME TabInv, NEW i \in Loads, SyncsBalances(i) PROVE TabInv'
PROOF
  <1>1. /\ op' = op /\ form' = form /\ opened' = opened /\ landed' = landed
        /\ loading' = loading /\ viewError' = viewError /\ abandoned' = abandoned
        /\ mingled' = mingled /\ balances' = balances
        /\ load' = [load EXCEPT ![i].at = "verify", ![i].seen = landed] /\ load[i].at = "sync"
    BY DEF SyncsBalances
  <1>2. /\ TabShape /\ NoneFromLater /\ OwnRefresh /\ FormKnows /\ Stage(i) = "sync"
        /\ landed \in Nat
    BY <1>1 DEF TabInv, Stage, TabShape
  <1>3. load' = [load EXCEPT ![i] = [load[i] EXCEPT !.at = "verify", !.seen = landed]]
    BY <1>1, <1>2 DEF TabShape, LoadStates, Loads
  <1>4. /\ load' \in Seq(LoadStates) /\ Loads' = Loads
        /\ Stage(i)' = "verify" /\ Seen(i)' = landed
        /\ \A j \in Loads : For(j)' = For(j) /\ On(j)' = On(j)
        /\ \A j \in Loads : j # i => LoadKept(j)
    BY <1>2, <1>3, LoadMoved DEF TabShape
  <1>5. Ops' = Ops /\ Newest' = Newest /\ \A o \in Ops : OpKept(o)
    BY <1>1, OpsKept
  <1>6. FormId' = FormId /\ FormBusy' = FormBusy
    BY <1>1, FormKept
  <1>7. TabShape'
    BY <1>1, <1>2, <1>4 DEF TabShape
  <1>8. NoneFromLater'
    BY <1>1, <1>2, <1>4, <1>5, <1>6 DEF NoneFromLater, OpKept
  <1>9. /\ \A j \in Loads : (OfOp(j)' <=> OfOp(j)) /\ (Shows(j)' <=> Shows(j))
        /\ \A o \in Ops : Live(o)' <=> Live(o)
    BY <1>1, <1>2, <1>4, <1>5 DEF OfOp, Shows, Live, LoadKept, OpKept
  <1>10. OwnRefresh'
    BY <1>1, <1>2, <1>4, <1>5, <1>9 DEF OwnRefresh, OpKept
  <1>11. FormKnows'
    BY <1>1, <1>2, <1>5, <1>6, <1>9 DEF FormKnows, InForm, OpKept
  <1>12. Apart'
    <2> SUFFICES ASSUME ~mingled' PROVE Single' /\ Said'
      BY DEF Apart
    <2>1. Single /\ Said
      BY <1>1 DEF TabInv, Apart
    <2>2. Single'
      BY <1>1, <1>4, <1>5, <1>9, <2>1 DEF Single, OpKept, LoadKept
    <2>3. Said'
      BY <1>1, <1>4, <1>5, <1>9, <2>1 DEF Said, OpKept
    <2> QED BY <2>2, <2>3
  <1> QED BY <1>7, <1>8, <1>10, <1>11, <1>12 DEF TabInv

\* A refresh ends.  If an operation waited for it, that ends with it; on the
\* mounting on screen either the balances have every operation, or the error is
\* said.
LEMMA OpEndsKeeps ==
  ASSUME TabInv, NEW i \in Loads, Stage(i) # "done", EndsLoad(i), viewError' \in BOOLEAN,
         On(i) # opened => balances' = balances /\ viewError' = viewError,
         On(i) = opened =>
           viewError' \/ (Stage(i) = "verify" /\ balances' = Seen(i))
  PROVE  TabInv'
PROOF
  <1>1. /\ opened' = opened /\ landed' = landed /\ abandoned' = abandoned /\ mingled' = mingled
        /\ load' = [load EXCEPT ![i].at = "done", ![i].seen = 0]
        /\ loading' = (loading /\ On(i) # opened)
        /\ IF For(i) = 0 THEN op' = op /\ form' = form
           ELSE op' = [op EXCEPT ![For(i)].at = "done"] /\ Frees(For(i))
    BY DEF EndsLoad, On, For
  <1>2. TabShape /\ NoneFromLater /\ OwnRefresh /\ FormKnows
    BY DEF TabInv
  <1>3. load' = [load EXCEPT ![i] = [load[i] EXCEPT !.at = "done", !.seen = 0]]
    BY <1>1, <1>2 DEF TabShape, LoadStates, Loads
  <1>4. /\ load' \in Seq(LoadStates) /\ Loads' = Loads /\ Stage(i)' = "done"
        /\ \A j \in Loads : For(j)' = For(j) /\ On(j)' = On(j)
        /\ \A j \in Loads : j # i => LoadKept(j)
    BY <1>2, <1>3, LoadMoved DEF TabShape
  <1>5. \A j \in Loads : /\ OfOp(j)' <=> OfOp(j) /\ j # i
                         /\ Shows(j)' <=> Shows(j) /\ j # i
    BY <1>1, <1>4 DEF OfOp, Shows, LoadKept
  <1>6. loading' \in BOOLEAN
    BY <1>1, <1>2 DEF TabShape
  <1>7. CASE For(i) = 0
    <2>1. /\ op' = op /\ form' = form /\ Ops' = Ops /\ Newest' = Newest
          /\ FormId' = FormId /\ FormBusy' = FormBusy
          /\ \A o \in Ops : OpKept(o)
      BY <1>1, <1>7, OpsKept, FormKept
    <2>2. TabShape'
      BY <1>1, <1>2, <1>4, <1>6, <2>1 DEF TabShape
    <2>3. NoneFromLater'
      BY <1>1, <1>2, <1>4, <2>1 DEF NoneFromLater, OpKept
    <2>4. OwnRefresh'
      BY <1>2, <1>4, <1>5, <2>1 DEF OwnRefresh, OpKept
    <2>5. \A o \in Ops : Live(o)' <=> Live(o)
      BY <2>1 DEF Live, OpKept
    <2>6. FormKnows'
      BY <1>1, <1>2, <2>1, <2>5 DEF FormKnows, InForm, OpKept
    <2>7. Apart'
      <3> SUFFICES ASSUME ~mingled' PROVE Single' /\ Said'
        BY DEF Apart
      <3>1. Single /\ Said
        BY <1>1 DEF TabInv, Apart
      <3>2. CASE On(i) = opened
        <4>1. Shows(i) /\ \A o \in Ops : ~Live(o)
          BY <1>7, <3>1, <3>2 DEF Single, Shows
        <4>2. \A j \in Loads : ~Shows(j)'
          BY <1>5, <3>1, <4>1 DEF Single
        <4>3. Single'
          BY <1>4, <2>1, <2>5, <4>1, <4>2 DEF Single
        <4>4. balances' = landed' \/ viewError'
          BY <1>1, <3>1, <3>2, <4>1 DEF Single
        <4> QED BY <4>3, <4>4 DEF Said
      <3>3. CASE On(i) # opened
        <4>1. ~Shows(i)
          BY <3>3 DEF Shows
        <4>2. \A j \in Loads : Shows(j)' <=> Shows(j)
          BY <1>5, <4>1
        <4>3. loading' = loading /\ balances' = balances /\ viewError' = viewError
          BY <1>1, <1>2, <3>3 DEF TabShape
        <4>4. Single'
          BY <1>1, <1>4, <1>5, <2>1, <2>5, <3>1, <4>1, <4>2, <4>3
             DEF Single, OpKept, LoadKept
        <4>5. Said'
          BY <1>1, <1>4, <2>1, <2>5, <3>1, <4>2, <4>3 DEF Said, OpKept
        <4> QED BY <4>4, <4>5
      <3> QED BY <3>2, <3>3
    <2> QED BY <2>2, <2>3, <2>4, <2>6, <2>7 DEF TabInv
  <1>8. CASE For(i) # 0
    <2>1. PICK o : o = For(i)
      OBVIOUS
    <2>2. OfOp(i) /\ o \in Ops /\ AtOf(o) = "refresh" /\ MountOf(o) = On(i) /\ Live(o)
      BY <1>2, <1>8, <2>1 DEF OwnRefresh, OfOp, Live
    <2>3. op' = [op EXCEPT ![o].at = "done"] /\ Frees(o)
      BY <1>1, <1>8, <2>1
    <2>4. op[o] \in OpStates
      BY <1>2, <2>2 DEF TabShape, Ops
    <2>5. OkOf(o) \in BOOLEAN /\ op' = [op EXCEPT ![o] = [op[o] EXCEPT !.at = "done", !.ok = OkOf(o)]]
      BY <2>3, <2>4 DEF OkOf, OpStates
    <2>6. /\ op' \in Seq(OpStates) /\ Ops' = Ops /\ Newest' = Newest
          /\ AtOf(o)' = "done" /\ OkOf(o)' = OkOf(o)
          /\ \A p \in Ops : FormOf(p)' = FormOf(p) /\ MountOf(p)' = MountOf(p)
                            /\ KindOf(p)' = KindOf(p)
          /\ \A p \in Ops : p # o => OpKept(p)
      BY <1>2, <2>2, <2>5, OpMoved DEF TabShape
    <2>7. form' \in FormStates /\ FormId' = FormId /\ (FormBusy' <=> FormBusy /\ FormOf(o) # FormId)
      BY <1>2, <2>3, FreesForm DEF TabShape
    <2>8. TabShape'
      BY <1>1, <1>2, <1>4, <1>6, <2>6, <2>7 DEF TabShape
    <2>9. NoneFromLater'
      BY <1>1, <1>2, <1>4, <2>6, <2>7 DEF NoneFromLater
    <2>10. \A j \in Loads : OfOp(j)' => OfOp(j) /\ For(j) # o
      BY <1>2, <1>5, <2>1, <2>2 DEF OwnRefresh
    <2>11. OwnRefresh'
      BY <1>2, <1>4, <2>6, <2>10 DEF OwnRefresh, OpKept
    <2>12. \A p \in Ops : Live(p)' <=> Live(p) /\ p # o
      BY <2>6 DEF Live, OpKept
    <2>13. FormKnows'
      BY <1>1, <1>2, <2>2, <2>6, <2>7, <2>12, EndKeepsForm
    <2>14. Apart'
      <3> SUFFICES ASSUME ~mingled' PROVE Single' /\ Said'
        BY DEF Apart
      <3>1. Single
        BY <1>1 DEF TabInv, Apart
      <3>2. o = Newest /\ On(i) = opened /\ Shows(i)
        BY <2>2, <3>1 DEF Single, Shows
      <3>3. /\ \A j \in Loads : ~Shows(j)'
            /\ \A p \in Ops : ~Live(p)'
        BY <1>5, <2>12, <3>1, <3>2 DEF Single
      <3>4. Single'
        BY <1>4, <2>6, <3>3 DEF Single
      <3>5. balances' = landed' \/ viewError'
        BY <1>1, <3>1, <3>2 DEF Single
      <3> QED BY <3>4, <3>5 DEF Said
    <2> QED BY <2>8, <2>9, <2>11, <2>13, <2>14 DEF TabInv
  <1> QED BY <1>7, <1>8

\* The refresh succeeds, or it fails and the provider says so.
LEMMA LoadedKeeps ==
  ASSUME TabInv, NEW i \in Loads, Loaded(i) \/ LoadFails(i) PROVE TabInv'
PROOF
  <1>1. viewError \in BOOLEAN
    BY DEF TabInv, TabShape
  <1>2. CASE Loaded(i)
    <2>1. /\ Stage(i) = "verify" /\ EndsLoad(i) /\ viewError' = viewError
          /\ balances' = IF On(i) = opened THEN Seen(i) ELSE balances
      BY <1>2 DEF Loaded, Stage, On, Seen
    <2> QED BY <1>1, <2>1, OpEndsKeeps
  <1>3. CASE LoadFails(i)
    <2>1. /\ Stage(i) \in {"sync", "verify"} /\ EndsLoad(i) /\ balances' = balances
          /\ viewError' = (viewError \/ On(i) = opened)
      BY <1>3 DEF LoadFails, SaysFailed, Stage, On
    <2>2. Stage(i) # "done" /\ viewError' \in BOOLEAN /\ (On(i) = opened => viewError')
          /\ (On(i) # opened => viewError' = viewError)
      BY <1>1, <2>1
    <2> QED BY <2>1, <2>2, OpEndsKeeps
  <1> QED BY <1>2, <1>3

\* A refresh without an operation: the button's, or that of a tab just opened.
LEMMA TabRefreshKeeps ==
  ASSUME TabInv, RefreshButton PROVE TabInv'
PROOF
  <1> DEFINE new == [at |-> "sync", of |-> 0, seen |-> 0, mount |-> opened]
  <1>1. /\ ~loading /\ op' = op /\ form' = form /\ opened' = opened /\ landed' = landed
        /\ abandoned' = abandoned /\ load' = Append(load, new)
        /\ mingled' = (mingled \/ \E o \in Ops : Underway(o))
        /\ loading' /\ ~viewError' /\ loading' \in BOOLEAN /\ viewError' \in BOOLEAN
    BY DEF RefreshButton, BeginsLoad, OwnLoad
  <1>2. TabShape /\ NoneFromLater /\ OwnRefresh /\ FormKnows /\ opened \in Nat
    BY DEF TabInv, TabShape
  <1>3. new \in LoadStates /\ new.at = "sync" /\ new.of = 0 /\ new.mount = opened
    BY <1>2 DEF LoadStates
  <1> HIDE DEF new
  <1>4. load' \in Seq(LoadStates)
    BY <1>1, <1>2, <1>3, LoadAdded DEF TabShape
  <1>5. PICK n : /\ n \notin Loads /\ Loads' = Loads \cup {n}
                 /\ Stage(n)' = "sync" /\ For(n)' = 0 /\ On(n)' = opened
                 /\ \A i \in Loads : LoadKept(i)
    BY <1>1, <1>2, <1>3, LoadAdded DEF TabShape
  <1>6. /\ Ops' = Ops /\ Newest' = Newest /\ FormId' = FormId /\ FormBusy' = FormBusy
        /\ \A o \in Ops : OpKept(o)
    BY <1>1, OpsKept, FormKept
  <1>7. TabShape'
    <2>1. mingled' \in BOOLEAN
      BY <1>1, <1>2 DEF TabShape
    <2> QED BY <1>1, <1>2, <1>4, <2>1 DEF TabShape
  <1>8. NoneFromLater'
    BY <1>1, <1>2, <1>5, <1>6 DEF NoneFromLater, OpKept, LoadKept
  <1>9. OwnRefresh'
    BY <1>2, <1>5, <1>6 DEF OwnRefresh, OfOp, OpKept, LoadKept
  <1>10. \A o \in Ops : Live(o)' <=> Live(o)
    BY <1>6 DEF Live, OpKept
  <1>11. FormKnows'
    BY <1>1, <1>2, <1>6, <1>10 DEF FormKnows, InForm, OpKept
  <1>12. Apart'
    <2> SUFFICES ASSUME ~mingled' PROVE Single' /\ Said'
      BY DEF Apart
    <2>1. Single /\ \A o \in Ops : ~Live(o)
      BY <1>1 DEF TabInv, Apart, Live, Underway, AtOf
    <2>2. \A i \in Loads : ~Shows(i)
      BY <1>1, <2>1 DEF Single
    <2>3. \A i \in Loads' : Shows(i)' => i = n
      BY <1>1, <1>5, <2>2 DEF Shows, LoadKept
    <2>4. Shows(n)'
      BY <1>1, <1>5 DEF Shows
    <2>5. Single'
      BY <1>1, <1>5, <1>6, <1>10, <2>1, <2>3 DEF Single
    <2> QED BY <1>5, <2>4, <2>5 DEF Said
  <1> QED BY <1>7, <1>8, <1>9, <1>11, <1>12 DEF TabInv

\* A spend runs when some operation that spends has not ended.
LEMMA SpendsRunning == SpendRuns <=> \E o \in Ops : Live(o) /\ KindOf(o) \in Spends
  BY DEF SpendRuns, Underway, Live, AtOf, KindOf

\* Another panel: a form that knows of no operation.
LEMMA SwitchKeeps ==
  ASSUME TabInv, SwitchPanel PROVE TabInv'
PROOF
  <1>1. /\ op' = op /\ load' = load /\ opened' = opened /\ landed' = landed
        /\ loading' = loading /\ viewError' = viewError /\ mingled' = mingled
        /\ balances' = balances /\ abandoned' = (abandoned \/ SpendRuns)
    BY DEF SwitchPanel
  <1>2. /\ TabShape /\ NoneFromLater /\ OwnRefresh /\ FormKnows /\ FormId \in Nat \ {0}
    BY DEF TabInv, NoneFromLater
  <1>3. form' \in FormStates /\ FormId' = FormId + 1
    BY <1>2 DEF SwitchPanel, FormStates, FormId
  <1>4. /\ Ops' = Ops /\ Newest' = Newest /\ (\A o \in Ops : OpKept(o))
        /\ Loads' = Loads /\ (\A i \in Loads : LoadKept(i))
    BY <1>1, OpsKept, LoadsKept
  <1>5. TabShape'
    <2>1. abandoned' \in BOOLEAN
      BY <1>1, <1>2 DEF TabShape
    <2> QED BY <1>1, <1>2, <1>3, <2>1 DEF TabShape
  <1>6. NoneFromLater'
    BY <1>1, <1>2, <1>3, <1>4 DEF NoneFromLater, OpKept, LoadKept
  <1>7. OwnRefresh'
    BY <1>2, <1>4 DEF OwnRefresh, OfOp, OpKept, LoadKept
  <1>8. \A o \in Ops : (Live(o)' <=> Live(o)) /\ ~InForm(o)'
    BY <1>2, <1>3, <1>4 DEF Live, InForm, OpKept, NoneFromLater
  <1>9. FormKnows'
    BY <1>1, <1>4, <1>8, SpendsRunning DEF FormKnows, OpKept
  <1>10. Apart'
    <2> SUFFICES ASSUME ~mingled' PROVE Single' /\ Said'
      BY DEF Apart
    <2>1. Single /\ Said
      BY <1>1 DEF TabInv, Apart
    <2>2. \A i \in Loads : Shows(i)' <=> Shows(i)
      BY <1>1, <1>4 DEF Shows, LoadKept
    <2>3. Single'
      BY <1>1, <1>4, <1>8, <2>1, <2>2 DEF Single, OpKept, LoadKept
    <2>4. Said'
      BY <1>1, <1>4, <1>8, <2>1, <2>2 DEF Said, OpKept
    <2> QED BY <2>3, <2>4
  <1> QED BY <1>5, <1>6, <1>7, <1>9, <1>10 DEF TabInv

\* The tab is left and opened again: nothing that runs belongs to what is on
\* screen.
LEMMA LeaveKeeps ==
  ASSUME TabInv, LeaveTab PROVE TabInv'
PROOF
  <1> DEFINE new == [OwnLoad EXCEPT !.mount = opened + 1]
  <1>1. /\ op' = op /\ opened' = opened + 1 /\ landed' = landed
        /\ load' = Append(load, new) /\ loading' = TRUE /\ viewError' = FALSE
        /\ abandoned' = (abandoned \/ SpendRuns)
        /\ mingled' = (mingled \/ \E o \in Ops : Underway(o)) /\ mingled' \in BOOLEAN
        /\ abandoned' \in BOOLEAN
    BY DEF LeaveTab
  <1>2. /\ TabShape /\ NoneFromLater /\ OwnRefresh /\ FormKnows /\ FormId \in Nat \ {0}
        /\ opened \in Nat
    BY DEF TabInv, NoneFromLater, TabShape
  <1>3. form' \in FormStates /\ FormId' = FormId + 1
    BY <1>2 DEF LeaveTab, FormStates, FormId
  <1>4. new \in LoadStates /\ new.at = "sync" /\ new.of = 0 /\ new.mount = opened + 1
    BY <1>2 DEF LoadStates, OwnLoad
  <1> HIDE DEF new
  <1>5. load' \in Seq(LoadStates)
    BY <1>1, <1>2, <1>4, LoadAdded DEF TabShape
  <1>6. PICK n : /\ n \notin Loads /\ Loads' = Loads \cup {n}
                 /\ Stage(n)' = "sync" /\ For(n)' = 0 /\ On(n)' = opened + 1
                 /\ \A i \in Loads : LoadKept(i)
    BY <1>1, <1>2, <1>4, LoadAdded DEF TabShape
  <1>7. Ops' = Ops /\ Newest' = Newest /\ \A o \in Ops : OpKept(o)
    BY <1>1, OpsKept
  <1>8. TabShape'
    <2>1. op' \in Seq(OpStates) /\ landed' \in Nat
      BY <1>1, <1>2 DEF TabShape
    <2>3. loading' \in BOOLEAN /\ viewError' \in BOOLEAN
      BY <1>1
    <2>4. opened' \in Nat
      BY <1>1, <1>2
    <2>2. mingled' \in BOOLEAN /\ abandoned' \in BOOLEAN
      BY <1>1
    <2> QED BY <1>3, <1>5, <2>1, <2>2, <2>3, <2>4 DEF TabShape
  <1>9. NoneFromLater'
    BY <1>1, <1>2, <1>3, <1>6, <1>7 DEF NoneFromLater, OpKept, LoadKept
  <1>10. OwnRefresh'
    BY <1>2, <1>6, <1>7 DEF OwnRefresh, OfOp, OpKept, LoadKept
  <1>11. \A o \in Ops : (Live(o)' <=> Live(o)) /\ ~InForm(o)'
    BY <1>2, <1>3, <1>7 DEF Live, InForm, OpKept, NoneFromLater
  <1>12. FormKnows'
    BY <1>1, <1>7, <1>11, SpendsRunning DEF FormKnows, OpKept
  <1>13. Apart'
    <2> SUFFICES ASSUME ~mingled' PROVE Single' /\ Said'
      BY DEF Apart
    <2>1. \A o \in Ops : ~Live(o)
      BY <1>1 DEF Live, Underway, AtOf
    <2>2. \A i \in Loads' : Shows(i)' => i = n
      BY <1>1, <1>2, <1>6 DEF Shows, LoadKept, NoneFromLater
    <2>3. Shows(n)'
      BY <1>1, <1>6 DEF Shows
    <2>4. Single'
      BY <1>1, <1>6, <1>7, <1>11, <2>1, <2>2 DEF Single
    <2> QED BY <1>6, <2>3, <2>4 DEF Said
  <1> QED BY <1>8, <1>9, <1>10, <1>12, <1>13 DEF TabInv

\* A form's submit button.
LEMMA SubmitForm ==
  ASSUME form \in FormStates, FormFree, form' = [form EXCEPT !.busy = TRUE]
  PROVE  form' \in FormStates /\ FormId' = FormId /\ ~FormBusy /\ FormBusy'
  BY DEF FormStates, FormFree, FormId, FormBusy

\* Every step of the tab keeps the invariant.
LEMMA TabKeeps == TabInv /\ [TabNext]_tabVars => TabInv'
PROOF
  <1> SUFFICES ASSUME TabInv, [TabNext]_tabVars PROVE TabInv'
    OBVIOUS
  <1>1. form \in FormStates
    BY DEF TabInv, TabShape
  <1>2. CASE Press
    <2>1. BeginsOp("merge", NoForm) /\ form' = form
      BY <1>2 DEF Press
    <2>2. form' \in FormStates /\ FormId' = FormId /\ FormBusy' = FormBusy
      BY <1>1, <2>1, FormKept
    <2>3. "merge" \notin Spends
      BY DEF Spends
    <2> QED BY <2>1, <2>2, <2>3, OpBegins
  <1>3. CASE SubmitSend
    <2>1. BeginsOp("transfer", FormId) /\ FormFree /\ form' = [form EXCEPT !.busy = TRUE]
      BY <1>3 DEF SubmitSend, FormId
    <2> QED BY <1>1, <2>1, SubmitForm, OpBegins
  <1>4. ASSUME NEW sort \in {"deposit", "withdraw"}, SubmitMove(sort) PROVE TabInv'
    <2>1. BeginsOp(sort, FormId) /\ FormFree /\ form' = [form EXCEPT !.busy = TRUE]
      BY <1>4 DEF SubmitMove, FormId
    <2> QED BY <1>1, <1>4, <2>1, SubmitForm, OpBegins
  <1>5. CASE UNCHANGED tabVars
    <2>1. /\ TabShape /\ NoneFromLater /\ OwnRefresh /\ FormKnows /\ Apart
      BY DEF TabInv
    <2>2. /\ Ops' = Ops /\ Newest' = Newest /\ (\A o \in Ops : OpKept(o))
          /\ Loads' = Loads /\ (\A i \in Loads : LoadKept(i))
          /\ FormId' = FormId /\ FormBusy' = FormBusy
      BY <1>5, OpsKept, LoadsKept, FormKept DEF tabVars
    <2>3. /\ \A o \in Ops : (Live(o)' <=> Live(o)) /\ (InForm(o)' <=> InForm(o))
          /\ \A i \in Loads : (Shows(i)' <=> Shows(i)) /\ (OfOp(i)' <=> OfOp(i))
      BY <1>5, <2>2 DEF tabVars, Live, InForm, Shows, OfOp, OpKept, LoadKept
    <2>4. TabShape'
      BY <1>5, <2>1 DEF tabVars, TabShape
    <2>5. NoneFromLater' /\ OwnRefresh'
      BY <1>5, <2>1, <2>2, <2>3 DEF tabVars, NoneFromLater, OwnRefresh, OpKept, LoadKept
    <2>6. FormKnows'
      BY <1>5, <2>1, <2>2, <2>3 DEF tabVars, FormKnows, OpKept
    <2>7. Apart'
      <3>1. Single => Single'
        BY <1>5, <2>2, <2>3 DEF tabVars, Single, OpKept, LoadKept
      <3>2. Said => Said'
        BY <1>5, <2>2, <2>3 DEF tabVars, Said, OpKept
      <3> QED BY <1>5, <2>1, <3>1, <3>2 DEF tabVars, Apart
    <2> QED BY <2>4, <2>5, <2>6, <2>7 DEF TabInv
  <1> QED BY <1>2, <1>3, <1>4, <1>5, LandsKeeps, OpFailsKeeps, AsksKeeps, SyncsKeeps,
             LoadedKeeps, TabRefreshKeeps, SwitchKeeps, LeaveKeeps DEF TabNext

\* Two spends of one tab never overlap, unless a form was closed or the tab
\* left while one ran (ConfidentialActions.tsx keeps its busy flag per form).
THEOREM OneSpend == TabSpec => []OneSpendAtATime
PROOF
  <1>1. TabInv => OneSpendAtATime
    <2> SUFFICES ASSUME FormKnows PROVE OneSpendAtATime
      BY DEF TabInv
    <2>1. abandoned \/ \A o, p \in Ops :
            Live(o) /\ Live(p) /\ KindOf(o) \in Spends /\ KindOf(p) \in Spends => o = p
      BY DEF FormKnows
    <2> QED BY <2>1 DEF OneSpendAtATime, Underway, Live, AtOf, KindOf
  <1> QED BY <1>1, TabBegins, TabKeeps, PTL DEF TabSpec

\* At rest, with nothing mingled and the last operation reported done, the
\* balances have all that landed, or the provider says that a refresh failed.
THEOREM OldBalanceIsSaid == TabSpec => []OldBalanceSaid
PROOF
  <1>1. TabInv => OldBalanceSaid
    <2> SUFFICES ASSUME TabInv, Settled, ~mingled, op # <<>>, op[Len(op)].ok
                 PROVE  balances = landed \/ viewError
      BY DEF OldBalanceSaid
    <2>1. Newest \in Ops /\ OkOf(Newest)
      BY DEF TabInv, TabShape, Newest, Ops, OkOf
    <2>2. (\A o \in Ops : ~Live(o)) /\ (\A i \in Loads : ~Shows(i))
      BY DEF Settled, Underway, Loading, Live, Shows, AtOf, Stage, On
    <2> QED BY <2>1, <2>2 DEF TabInv, Apart, Said
  <1> QED BY <1>1, TabBegins, TabKeeps, PTL DEF TabSpec

-----------------------------------------------------------------------------
(*****************************************************************************)
(* ActivityFeed: the list of transfers and the amounts under it.             *)
(*****************************************************************************)

\* What a row shows, what an attempt is, and the type of the list.
Lines ==
  [amount : {"public", "none", "value"}, direction : {"none", "in", "out"},
   decrypting : BOOLEAN, failed : BOOLEAN, attempt : Nat]
AttemptStates == [row : Rows, number : Nat, at : {"event", "recipient"}]

FeedTypeOK ==
  /\ kind \in [Rows -> Kinds]
  /\ entries \subseteq Rows
  /\ feed.shown \subseteq Rows
  /\ line \in [Rows -> Lines]
  /\ attempts \subseteq AttemptStates
  /\ ended \in [Rows -> {"none", "threw", "nothing", "read"}]

\* An attempt has a number of its own, none later than the row's latest, and
\* reads a recipient only for a transfer that was sent.
AttemptsDistinct ==
  /\ \A t, u \in attempts : t.row = u.row /\ t.number = u.number => t = u
  /\ \A t \in attempts :
       /\ t.number <= line[t.row].attempt /\ kind[t.row] # "deposit"
       /\ t.at = "recipient" => kind[t.row] = "out"

\* What a row says is what its latest attempt has come to.
AttemptRuns(r) == \E t \in attempts : t.row = r /\ t.number = line[r].attempt
LineSays(r, l) ==
  /\ l.decrypting <=> ended[r] = "none"
  /\ l.failed <=> ended[r] = "threw"
  /\ ended[r] = "read" => l.amount = "value"
  /\ l.amount = "value" => l.direction = kind[r]
RowSettled(r) == LineSays(r, line[r]) /\ (line[r].decrypting <=> AttemptRuns(r))

\* A row whose effect has not run has no attempt.
RowFresh(r) ==
  /\ line[r].amount # "value" /\ \A t \in attempts : t.row # r

\* A row with an attempt says what it came to; one without says nothing yet.
RowsBegun ==
  \A r \in Rows : kind[r] # "deposit" =>
    /\ line[r].attempt > 0 => RowSettled(r)
    /\ line[r].attempt = 0 => RowFresh(r)

\* A row on screen has had its effect run.
ShownBegun == \A r \in feed.shown : kind[r] # "deposit" => line[r].attempt > 0

\* All of it.
FeedInv == FeedTypeOK /\ AttemptsDistinct /\ RowsBegun /\ ShownBegun

\* The list opens empty.
LEMMA FeedBegins == FeedInit => FeedInv
PROOF
  <1> SUFFICES ASSUME FeedInit PROVE FeedInv
    OBVIOUS
  <1>1. /\ kind \in [Rows -> Kinds] /\ entries \subseteq Rows /\ feed.shown = {} /\ attempts = {}
        /\ ended \in [Rows -> {"none", "threw", "nothing", "read"}]
    BY DEF FeedInit
  <1>2. ASSUME NEW r \in Rows
        PROVE  /\ FreshRow(r) \in Lines /\ FreshRow(r).attempt = 0
               /\ FreshRow(r).amount # "value"
    BY DEF FreshRow, Lines
  <1>3. line = [r \in Rows |-> FreshRow(r)]
    BY DEF FeedInit
  <1>4. line \in [Rows -> Lines] /\ \A r \in Rows : line[r].attempt = 0 /\ line[r].amount # "value"
    BY <1>2, <1>3
  <1>5. FeedTypeOK
    BY <1>1, <1>4 DEF FeedTypeOK
  <1> QED BY <1>1, <1>4, <1>5 DEF FeedInv, AttemptsDistinct, RowsBegun, ShownBegun, RowFresh

\* The row as a new attempt finds it.
Again(l) == [l EXCEPT !.decrypting = TRUE, !.failed = FALSE, !.attempt = @ + 1]

\* A new attempt numbers the row anew and keeps its amount.
LEMMA LineAgain ==
  ASSUME NEW l \in Lines
  PROVE  /\ l.attempt \in Nat /\ Again(l) \in Lines /\ Again(l).attempt = l.attempt + 1
         /\ Again(l).decrypting = TRUE /\ Again(l).failed = FALSE
         /\ Again(l).amount = l.amount /\ Again(l).direction = l.direction
PROOF
  <1>1. l.attempt \in Nat /\ l.attempt + 1 \in Nat
    BY DEF Lines
  <1>2. /\ Again(l).attempt = l.attempt + 1 /\ Again(l).decrypting = TRUE
        /\ Again(l).failed = FALSE
        /\ Again(l).amount = l.amount /\ Again(l).direction = l.direction
    BY DEF Lines, Again
  <1>3. Again(l) \in Lines
    BY <1>1 DEF Lines, Again
  <1> QED BY <1>1, <1>2, <1>3

\* The attempt of a row with that number.
Numbered(r, n) == [row |-> r, number |-> n, at |-> "event"]

\* It has the row and the number.
LEMMA NumberedType ==
  ASSUME NEW r \in Rows, NEW n \in Nat
  PROVE  /\ Numbered(r, n) \in AttemptStates /\ Numbered(r, n).row = r
         /\ Numbered(r, n).number = n /\ Numbered(r, n).at = "event"
  BY DEF AttemptStates, Numbered

\* Attempts begin on rows: each gets the row's next number, and so becomes
\* the one whose answer counts.
LEMMA BeginsKeeps ==
  ASSUME FeedInv, NEW started, started \subseteq Rows, BeginsAttempts(started),
         kind' = kind, entries' = entries,
         feed'.shown \subseteq feed.shown \cup started
  PROVE  FeedInv'
PROOF
  <1> DEFINE private == {r \in started : kind[r] # "deposit"}
             again(r) == Again(line[r])
             new(r) == Numbered(r, line[r].attempt + 1)
  <1>1. /\ line' = [r \in Rows |-> IF r \in private THEN again(r) ELSE line[r]]
        /\ attempts' = attempts \cup {new(r) : r \in private}
        /\ ended' = [r \in Rows |-> IF r \in private THEN "none" ELSE ended[r]]
    BY DEF BeginsAttempts, Again, Numbered
  <1>2. /\ kind \in [Rows -> Kinds] /\ line \in [Rows -> Lines] /\ attempts \subseteq AttemptStates
        /\ ended \in [Rows -> {"none", "threw", "nothing", "read"}]
        /\ feed.shown \subseteq Rows /\ entries \subseteq Rows
    BY DEF FeedInv, FeedTypeOK
  <1>3. \A r \in Rows :
          /\ line[r] \in Lines /\ line[r].attempt \in Nat
          /\ again(r) \in Lines /\ again(r).attempt = line[r].attempt + 1
          /\ again(r).decrypting = TRUE /\ again(r).failed = FALSE
          /\ again(r).amount = line[r].amount /\ again(r).direction = line[r].direction
    BY <1>2, LineAgain
  <1>4. \A r \in Rows : /\ new(r) \in AttemptStates /\ new(r).row = r
                        /\ new(r).number = line[r].attempt + 1 /\ new(r).at = "event"
    BY <1>3, NumberedType
  <1>5. private \subseteq Rows /\ \A r \in private : kind[r] # "deposit"
    OBVIOUS
  <1>6. \A r \in Rows : r \in started /\ kind[r] # "deposit" => r \in private
    OBVIOUS
  <1> HIDE DEF private, again, new
  <1>7. \A r \in Rows : /\ line'[r] = IF r \in private THEN again(r) ELSE line[r]
                        /\ ended'[r] = IF r \in private THEN "none" ELSE ended[r]
    BY <1>1
  <1>8. \A t \in attempts' : t \in attempts \/ \E r \in private : t = new(r)
    BY <1>1
  <1>9. FeedTypeOK'
    <2>1. line' \in [Rows -> Lines]
      BY <1>1, <1>3
    <2>2. attempts' \subseteq AttemptStates
      BY <1>2, <1>4, <1>5, <1>8
    <2>3. ended' \in [Rows -> {"none", "threw", "nothing", "read"}]
      BY <1>1, <1>2
    <2>4. feed'.shown \subseteq Rows
      BY <1>2
    <2> QED BY <1>2, <2>1, <2>2, <2>3, <2>4 DEF FeedTypeOK
  <1>10. \A t \in attempts : /\ t.row \in Rows /\ t.number \in Nat
                             /\ t.number <= line[t.row].attempt /\ kind[t.row] # "deposit"
                             /\ t.at = "recipient" => kind[t.row] = "out"
    BY <1>2 DEF FeedInv, AttemptsDistinct, AttemptStates
  <1>11. AttemptsDistinct'
    <2>1. ASSUME NEW t \in attempts', NEW u \in attempts', t.row = u.row, t.number = u.number
          PROVE  t = u
      <3>1. CASE t \in attempts /\ u \in attempts
        BY <2>1, <3>1 DEF FeedInv, AttemptsDistinct
      <3>2. ASSUME NEW x \in attempts, NEW r \in private, x.row = new(r).row,
                   x.number = new(r).number
            PROVE  FALSE
        BY <3>2, <1>3, <1>4, <1>5, <1>10
      <3> QED BY <1>4, <1>5, <1>8, <2>1, <3>1, <3>2
    <2>2. ASSUME NEW t \in attempts'
          PROVE  /\ t.number <= line'[t.row].attempt /\ kind'[t.row] # "deposit"
                 /\ t.at = "recipient" => kind'[t.row] = "out"
      <3>1. CASE t \in attempts
        <4>1. line'[t.row].attempt \in {line[t.row].attempt, line[t.row].attempt + 1}
          BY <1>3, <1>7, <1>10, <3>1
        <4> QED BY <1>3, <1>10, <3>1, <4>1
      <3>2. ASSUME NEW r \in private, t = new(r)
            PROVE  /\ t.number <= line'[t.row].attempt /\ kind'[t.row] # "deposit"
                   /\ t.at # "recipient"
        BY <1>3, <1>4, <1>5, <1>7, <3>2
      <3> QED BY <1>8, <3>1, <3>2
    <2> QED BY <2>1, <2>2 DEF AttemptsDistinct
  <1>12. RowsBegun'
    <2> SUFFICES ASSUME NEW r \in Rows, kind[r] # "deposit"
                 PROVE  /\ line'[r].attempt > 0 => RowSettled(r)'
                        /\ line'[r].attempt = 0 => RowFresh(r)'
      BY DEF RowsBegun
    <2>1. line[r].attempt > 0 => RowSettled(r)
      BY DEF FeedInv, RowsBegun
    <2>2. line[r].attempt = 0 => RowFresh(r)
      BY DEF FeedInv, RowsBegun
    <2>3. line[r].amount = "value" => line[r].direction = kind[r]
      BY <1>3, <2>1, <2>2 DEF RowSettled, LineSays, RowFresh
    <2>4. CASE r \in private
      <3>1. line'[r] = again(r) /\ ended'[r] = "none" /\ new(r) \in attempts'
        BY <1>1, <1>7, <2>4
      <3>2. AttemptRuns(r)'
        BY <1>3, <1>4, <3>1 DEF AttemptRuns
      <3>3. LineSays(r, line[r])'
        BY <1>3, <2>3, <3>1 DEF LineSays
      <3>4. line'[r].decrypting = TRUE /\ line'[r].attempt # 0
        BY <1>3, <3>1
      <3> QED BY <3>2, <3>3, <3>4 DEF RowSettled
    <2>5. CASE r \notin private
      <3>1. line'[r] = line[r] /\ ended'[r] = ended[r]
        BY <1>7, <2>5
      <3>2. \A t : t.row = r => (t \in attempts' <=> t \in attempts)
        BY <1>1, <1>4, <1>5, <1>8, <2>5
      <3>3. AttemptRuns(r)' <=> AttemptRuns(r)
        BY <3>1, <3>2 DEF AttemptRuns
      <3>4. RowFresh(r) => RowFresh(r)'
        BY <3>1, <3>2 DEF RowFresh
      <3> QED BY <2>1, <2>2, <3>1, <3>3, <3>4 DEF RowSettled, LineSays
    <2> QED BY <2>4, <2>5
  <1>13. ShownBegun'
    <2> SUFFICES ASSUME NEW r \in feed'.shown, kind[r] # "deposit"
                 PROVE  line'[r].attempt > 0
      BY DEF ShownBegun
    <2>1. CASE r \in private
      BY <1>3, <1>5, <1>7, <2>1
    <2>2. CASE r \notin private
      <3>1. r \in Rows /\ r \in feed.shown
        BY <1>2, <1>6, <2>2
      <3> QED BY <1>7, <2>2, <3>1 DEF FeedInv, ShownBegun
    <2> QED BY <2>1, <2>2
  <1> QED BY <1>9, <1>11, <1>12, <1>13 DEF FeedInv

\* The row of an attempt: while the attempt is current it has no failure, and
\* an amount has its own sign.
LEMMA CurrentRuns ==
  ASSUME FeedInv, NEW t \in attempts
  PROVE  /\ t.row \in Rows /\ kind[t.row] # "deposit" /\ line[t.row] \in Lines
         /\ line[t.row].amount = "value" => line[t.row].direction = kind[t.row]
         /\ Current(t) => ~line[t.row].failed
PROOF
  <1> DEFINE r == t.row
  <1>1. /\ r \in Rows /\ kind[r] # "deposit" /\ line[r] \in Lines /\ line[r].attempt \in Nat
    BY DEF FeedInv, FeedTypeOK, AttemptsDistinct, AttemptStates, Lines
  <1>2. line[r].attempt # 0
    BY <1>1 DEF FeedInv, RowsBegun, RowFresh
  <1>3. RowSettled(r)
    BY <1>1, <1>2 DEF FeedInv, RowsBegun
  <1>4. Current(t) => AttemptRuns(r)
    BY DEF Current, AttemptRuns
  <1>5. Current(t) => ~line[r].failed
    BY <1>3, <1>4 DEF RowSettled, LineSays
  <1> QED BY <1>1, <1>3, <1>5 DEF RowSettled, LineSays

\* An attempt ends.  Only a current one may change what the row says.
LEMMA AttemptEndsKeeps ==
  ASSUME FeedInv, NEW t \in attempts, NEW shown \in Lines, NEW how \in {"threw", "nothing", "read"},
         Ends(t, shown, how),
         shown.attempt = line[t.row].attempt, shown.decrypting = FALSE,
         Current(t) => (shown.failed <=> how = "threw"),
         how = "read" => shown.amount = "value",
         shown.amount = "value" => shown.direction = kind[t.row]
  PROVE  FeedInv'
PROOF
  <1> DEFINE r == t.row
  <1>1. /\ r \in Rows /\ attempts' = attempts \ {t} /\ kind' = kind /\ entries' = entries
        /\ feed' = feed
        /\ line' = IF Current(t) THEN [line EXCEPT ![r] = shown] ELSE line
        /\ ended' = IF Current(t) THEN [ended EXCEPT ![r] = how] ELSE ended
    BY CurrentRuns DEF Ends
  <1>2. /\ line \in [Rows -> Lines] /\ attempts \subseteq AttemptStates
        /\ ended \in [Rows -> {"none", "threw", "nothing", "read"}]
    BY DEF FeedInv, FeedTypeOK
  <1>3. /\ line' \in [Rows -> Lines] /\ ended' \in [Rows -> {"none", "threw", "nothing", "read"}]
        /\ Current(t) => line'[r] = shown /\ ended'[r] = how
        /\ ~Current(t) => line' = line /\ ended' = ended
        /\ \A q \in Rows : q # r => line'[q] = line[q] /\ ended'[q] = ended[q]
    BY <1>1, <1>2
  <1>4. \A q \in Rows : line'[q].attempt = line[q].attempt
    BY <1>3
  <1>5. FeedTypeOK'
    BY <1>1, <1>2, <1>3 DEF FeedInv, FeedTypeOK
  <1>6. \A u \in attempts : u.row \in Rows
    BY <1>2 DEF AttemptStates
  <1>7. AttemptsDistinct'
    BY <1>1, <1>4, <1>6 DEF FeedInv, AttemptsDistinct
  <1>8. ShownBegun'
    BY <1>1, <1>4 DEF FeedInv, FeedTypeOK, ShownBegun
  <1>9. RowsBegun'
    <2> SUFFICES ASSUME NEW q \in Rows, kind[q] # "deposit"
                 PROVE  /\ line'[q].attempt > 0 => RowSettled(q)'
                        /\ line'[q].attempt = 0 => RowFresh(q)'
      BY <1>1 DEF RowsBegun
    <2>1. line[q].attempt > 0 => RowSettled(q)
      BY DEF FeedInv, RowsBegun
    <2>2. line[q].attempt = 0 => RowFresh(q)
      BY DEF FeedInv, RowsBegun
    <2>3. CASE q = r /\ Current(t)
      <3>1. line'[q] = shown /\ ended'[q] = how
        BY <1>3, <2>3
      <3>2. LineSays(q, line[q])'
        BY <1>1, <2>3, <3>1 DEF LineSays
      <3>3. ~AttemptRuns(q)'
        <4>1. \A u \in attempts' : u.row = q /\ u.number = line[q].attempt => u = t
          BY <1>1, <2>3 DEF FeedInv, AttemptsDistinct, Current
        <4> QED BY <1>1, <1>4, <4>1 DEF AttemptRuns
      <3>4. line[q].attempt # 0
        BY <2>2, <2>3 DEF RowFresh
      <3> QED BY <1>4, <3>1, <3>2, <3>3, <3>4 DEF RowSettled
    <2>4. CASE ~(q = r /\ Current(t))
      <3>1. line'[q] = line[q] /\ ended'[q] = ended[q]
        BY <1>3, <2>4
      <3>2. AttemptRuns(q)' <=> AttemptRuns(q)
        <4>1. t.row = q => t.number # line[q].attempt
          BY <2>4 DEF Current
        <4> QED BY <1>1, <3>1, <4>1 DEF AttemptRuns
      <3>3. RowFresh(q) => RowFresh(q)'
        BY <1>1, <3>1 DEF RowFresh
      <3> QED BY <1>1, <2>1, <2>2, <3>1, <3>2, <3>3 DEF RowSettled, LineSays
    <2> QED BY <2>3, <2>4
  <1> QED BY <1>5, <1>7, <1>8, <1>9 DEF FeedInv

\* What a result writes on the line.
LineWith(l, amount, direction) ==
  [l EXCEPT !.amount = amount, !.direction = direction, !.decrypting = FALSE]

\* A line that an attempt has ended on.
EndedOn(new, l, failed, amount, direction) ==
  /\ new \in Lines /\ new.attempt = l.attempt /\ new.decrypting = FALSE
  /\ new.failed = failed /\ new.amount = amount /\ new.direction = direction

\* The row of an attempt that ended with an answer.
LEMMA LineResolved ==
  ASSUME NEW l \in Lines, NEW amount \in {"none", "value"}, NEW direction \in {"in", "out"}
  PROVE  EndedOn(LineWith(l, amount, direction), l, l.failed, amount, direction)
  BY DEF Lines, LineWith, EndedOn

\* The row of an attempt that ended without one, or threw.
LEMMA LineUnresolved ==
  ASSUME NEW l \in Lines
  PROVE  /\ LET new == [l EXCEPT !.decrypting = FALSE]
            IN  /\ new \in Lines /\ new.attempt = l.attempt /\ new.decrypting = FALSE
                /\ new.failed = l.failed /\ new.amount = l.amount
                /\ new.direction = l.direction
         /\ LET new == [l EXCEPT !.failed = TRUE, !.decrypting = FALSE]
            IN  /\ new \in Lines /\ new.attempt = l.attempt /\ new.decrypting = FALSE
                /\ new.failed /\ new.amount = l.amount /\ new.direction = l.direction
  BY DEF Lines

\* An attempt that ends with an answer keeps the invariant.
LEMMA ResolvedKeeps ==
  ASSUME FeedInv, NEW t \in attempts,
         NEW amount \in {"none", "value"}, NEW direction \in {"in", "out"},
         NEW how \in {"nothing", "read"}, Resolved(t, amount, direction, how),
         how = "read" => amount = "value", amount = "value" => direction = kind[t.row]
  PROVE  FeedInv'
PROOF
  <1> DEFINE l == line[t.row]
             shown == LineWith(l, amount, direction)
  <1>1. l \in Lines /\ (Current(t) => ~l.failed)
    BY CurrentRuns
  <1>2. Ends(t, shown, how)
    BY DEF Resolved, LineWith
  <1> HIDE DEF l
  <1>3. /\ shown \in Lines /\ shown.attempt = l.attempt /\ shown.decrypting = FALSE
        /\ shown.failed = l.failed /\ shown.amount = amount
        /\ shown.direction = direction
    <2> HIDE DEF shown
    <2>1. EndedOn(shown, l, l.failed, amount, direction)
      BY <1>1, LineResolved DEF shown
    <2> QED BY <2>1 DEF EndedOn
  <1> HIDE DEF shown
  <1>4. how # "threw" /\ how \in {"threw", "nothing", "read"}
    OBVIOUS
  <1>5. Current(t) => (shown.failed <=> how = "threw")
    BY <1>1, <1>3, <1>4
  <1> QED BY <1>2, <1>3, <1>4, <1>5, AttemptEndsKeeps DEF l

\* An attempt whose event was not found keeps it.
LEMMA UnmatchedKeeps ==
  ASSUME FeedInv, NEW t \in attempts, Unmatched(t)
  PROVE  FeedInv'
PROOF
  <1> DEFINE shown == [line[t.row] EXCEPT !.decrypting = FALSE]
  <1>1. /\ line[t.row] \in Lines /\ (Current(t) => ~line[t.row].failed)
        /\ line[t.row].amount = "value" => line[t.row].direction = kind[t.row]
    BY CurrentRuns
  <1>2. /\ shown \in Lines /\ shown.attempt = line[t.row].attempt /\ shown.decrypting = FALSE
        /\ shown.failed = line[t.row].failed /\ shown.amount = line[t.row].amount
        /\ shown.direction = line[t.row].direction
    BY <1>1, LineUnresolved
  <1>3. Ends(t, shown, "nothing")
    BY DEF Unmatched
  <1> HIDE DEF shown
  <1>4. Current(t) => (shown.failed <=> "nothing" = "threw")
    BY <1>1, <1>2
  <1>5. shown.amount = "value" => shown.direction = kind[t.row]
    BY <1>1, <1>2
  <1> QED BY <1>2, <1>3, <1>4, <1>5, AttemptEndsKeeps

\* An attempt that throws keeps it.
LEMMA ThrowsKeeps ==
  ASSUME FeedInv, NEW t \in attempts, Throws(t)
  PROVE  FeedInv'
PROOF
  <1> DEFINE shown == [line[t.row] EXCEPT !.failed = TRUE, !.decrypting = FALSE]
  <1>1. /\ line[t.row] \in Lines
        /\ line[t.row].amount = "value" => line[t.row].direction = kind[t.row]
    BY CurrentRuns
  <1>2. /\ shown \in Lines /\ shown.attempt = line[t.row].attempt /\ shown.decrypting = FALSE
        /\ shown.failed /\ shown.amount = line[t.row].amount
        /\ shown.direction = line[t.row].direction
    BY <1>1, LineUnresolved
  <1>3. Ends(t, shown, "threw")
    BY DEF Throws
  <1> HIDE DEF shown
  <1>4. Current(t) => (shown.failed <=> "threw" = "threw")
    BY <1>2
  <1>5. shown.amount = "value" => shown.direction = kind[t.row]
    BY <1>1, <1>2
  <1> QED BY <1>2, <1>3, <1>4, <1>5, AttemptEndsKeeps

\* The event of a transfer that was sent is there: the attempt goes on to read
\* the recipient, under its number.
LEMMA ReadsRecipientKeeps ==
  ASSUME FeedInv, NEW t \in attempts, kind[t.row] = "out",
         attempts' = (attempts \ {t}) \cup {[t EXCEPT !.at = "recipient"]},
         UNCHANGED <<kind, entries, feed, line, ended>>
  PROVE  FeedInv'
PROOF
  <1> DEFINE next == [t EXCEPT !.at = "recipient"]
  <1>1. t \in AttemptStates /\ attempts \subseteq AttemptStates
    BY DEF FeedInv, FeedTypeOK
  <1>2. next \in AttemptStates /\ next.row = t.row /\ next.number = t.number
        /\ next.at = "recipient"
    BY <1>1 DEF AttemptStates
  <1>3. attempts' = (attempts \ {t}) \cup {next}
    OBVIOUS
  <1> HIDE DEF next
  <1>4. FeedTypeOK'
    BY <1>1, <1>2, <1>3 DEF FeedInv, FeedTypeOK
  <1>5. AttemptsDistinct'
    BY <1>2, <1>3 DEF FeedInv, AttemptsDistinct
  <1>6. \A r : AttemptRuns(r)' <=> AttemptRuns(r)
    BY <1>2, <1>3 DEF AttemptRuns
  <1>7. \A r : RowFresh(r) => RowFresh(r)'
    BY <1>2, <1>3 DEF RowFresh
  <1>8. RowsBegun' /\ ShownBegun'
    BY <1>6, <1>7 DEF FeedInv, RowsBegun, ShownBegun, RowSettled, LineSays
  <1> QED BY <1>4, <1>5, <1>8 DEF FeedInv

\* Every step of the list keeps the invariant.
LEMMA FeedKeeps == FeedInv /\ [FeedNext]_feedVars => FeedInv'
PROOF
  <1> SUFFICES ASSUME FeedInv, [FeedNext]_feedVars PROVE FeedInv'
    OBVIOUS
  <1>1. CASE FeedLoads
    <2>1. feed'.shown = entries /\ entries \subseteq Rows
      BY <1>1 DEF FeedLoads, FeedInv, FeedTypeOK
    <2> QED BY <1>1, <2>1, BeginsKeeps DEF FeedLoads
  <1>2. ASSUME feed'.shown = feed.shown, UNCHANGED <<kind, line, attempts, ended>>,
               entries' \subseteq Rows
        PROVE  FeedInv'
    BY <1>2 DEF FeedInv, FeedTypeOK, AttemptsDistinct, RowsBegun, RowSettled, RowFresh, AttemptRuns,
                LineSays, ShownBegun
  <1>3. \A x, y : /\ [feed EXCEPT !.loading = x, !.failed = y].shown = feed.shown
    OBVIOUS
  <1>4. CASE FeedFails
    BY <1>2, <1>4 DEF FeedFails, FeedInv, FeedTypeOK
  <1>5. CASE Reload
    BY <1>2, <1>5 DEF Reload, FeedInv, FeedTypeOK
  <1>6. ASSUME NEW r \in Rows, Arrives(r) PROVE FeedInv'
    BY <1>2, <1>6 DEF Arrives, FeedInv, FeedTypeOK
  <1>7. ASSUME NEW r \in Rows, Retry(r) PROVE FeedInv'
    BY <1>7, BeginsKeeps DEF Retry
  <1>8. ASSUME NEW t \in attempts, Unmatched(t) PROVE FeedInv'
    BY <1>8, UnmatchedKeeps
  <1>9. ASSUME NEW t \in attempts, Throws(t) PROVE FeedInv'
    BY <1>9, ThrowsKeeps
  <1>10. ASSUME NEW t \in attempts, Decrypts(t) PROVE FeedInv'
    <2>1. CASE kind[t.row] = "in" /\ Resolved(t, "value", "in", "read")
      BY <2>1, ResolvedKeeps
    <2>2. CASE kind[t.row] = "otherkeys" /\ Resolved(t, "none", "out", "nothing")
      BY <2>2, ResolvedKeeps
    <2> QED BY <1>10, <2>1, <2>2, ReadsRecipientKeeps DEF Decrypts
  <1>11. ASSUME NEW t \in attempts, RecipientRead(t) PROVE FeedInv'
    <2>1. kind[t.row] = "out" /\ Resolved(t, "value", "out", "read")
      BY <1>11 DEF RecipientRead, FeedInv, AttemptsDistinct
    <2> QED BY <2>1, ResolvedKeeps
  <1>12. ASSUME NEW t \in attempts, RecipientMissed(t) PROVE FeedInv'
    <2>1. Resolved(t, "none", "out", "nothing")
      BY <1>12 DEF RecipientMissed
    <2> QED BY <2>1, ResolvedKeeps
  <1>13. CASE UNCHANGED feedVars
    BY <1>2, <1>13 DEF feedVars, FeedInv, FeedTypeOK
  <1> QED BY <1>1, <1>4, <1>5, <1>6, <1>7, <1>8, <1>9, <1>10, <1>11, <1>12, <1>13 DEF FeedNext

\* The rows on screen are honest in every state: "Decrypting" has an attempt
\* that will settle it, a retry is offered after a failure alone, and an amount
\* has its own sign (ActivityFeed.tsx).
THEOREM RowsStayHonest == FeedSpec => []RowsHonest
PROOF
  <1>1. FeedInv => RowsHonest
    <2> SUFFICES ASSUME FeedInv, NEW r \in feed.shown, kind[r] # "deposit"
                 PROVE  /\ line[r].decrypting <=>
                              \E t \in attempts : t.row = r /\ t.number = line[r].attempt
                        /\ line[r].failed => ended[r] = "threw"
                        /\ Sealed(r) => ended[r] = "nothing"
                        /\ line[r].amount = "value" => line[r].direction = kind[r]
      BY DEF RowsHonest
    <2>1. r \in Rows /\ line[r].attempt > 0
      BY DEF FeedInv, FeedTypeOK, ShownBegun
    <2>2. RowSettled(r) /\ ended[r] \in {"none", "threw", "nothing", "read"}
      BY <2>1 DEF FeedInv, FeedTypeOK, RowsBegun
    <2>3. Sealed(r) => ended[r] = "nothing"
      BY <2>2 DEF Sealed, RowSettled, LineSays
    <2> QED BY <2>2, <2>3 DEF RowSettled, LineSays, AttemptRuns
  <1> QED BY <1>1, FeedBegins, FeedKeeps, PTL DEF FeedSpec

-----------------------------------------------------------------------------
(*****************************************************************************)
(* RecipientBox: the recipient's field and its badge.                        *)
(*****************************************************************************)

\* A lookup of a recipient.
Lookups == [of : Recipients, open : BOOLEAN]

\* While the badge can only be about the address in the field, so are the
\* lookups that are still open.
OpenLookupsAreOfBox ==
  ~mixed => \A i \in DOMAIN lookup : lookup[i].open => lookup[i].of = box

\* The badge is honest, and every open lookup is about the field's address.
BoxInv ==
  /\ screen \in {"confidential", "shielded"}
  /\ known \subseteq registered
  /\ lookup \in Seq(Lookups)
  /\ mixed \in BOOLEAN
  /\ OpenLookupsAreOfBox
  /\ BadgeHonest

\* A look at an address (checkRecipient): no badge says "ready" after it, and the
\* lookups that are open are of the text in the field, or the badge may be about
\* another one.
LEMMA CheckKeeps ==
  ASSUME BoxInv, NEW address, CheckRecipient(address), registered' = registered,
         known' = known, screen' = screen
  PROVE  BoxInv'
PROOF
  <1>1. lookup \in Seq(Lookups) /\ mixed' = Astray(lookup', box') /\ mixed' \in BOOLEAN
    BY DEF BoxInv, CheckRecipient, Astray
  <1>2. CASE address \in Recipients
    <2> DEFINE new == [of |-> address, open |-> TRUE]
               n == Len(lookup)
    <2>1. lookup' = Append(lookup, new) /\ badge' = "checking" /\ new \in Lookups
      BY <1>2 DEF CheckRecipient, AsksFor, Lookups
    <2>2. new.of = address /\ new.open
      OBVIOUS
    <2> HIDE DEF new
    <2>3. /\ lookup' \in Seq(Lookups) /\ n + 1 \in DOMAIN lookup' /\ lookup'[n + 1] = new
          /\ \A i \in DOMAIN lookup' : i # n + 1 => i \in DOMAIN lookup /\ lookup'[i] = lookup[i]
      BY <1>1, <2>1
    <2>4. OpenLookupsAreOfBox'
      BY <1>1 DEF OpenLookupsAreOfBox, Astray
    <2>5. BadgeHonest'
      BY <2>1, <2>2, <2>3 DEF BadgeHonest, Waiting
    <2> QED BY <1>1, <2>3, <2>4, <2>5 DEF BoxInv
  <1>3. CASE address \notin Recipients
    <2>1. lookup' = lookup /\ badge' \in {"idle", "invalid"}
      BY <1>3 DEF CheckRecipient, SaidAtOnce
    <2>2. OpenLookupsAreOfBox' /\ BadgeHonest'
      BY <1>1, <2>1 DEF OpenLookupsAreOfBox, BadgeHonest, Astray
    <2> QED BY <1>1, <2>1, <2>2 DEF BoxInv
  <1> QED BY <1>2, <1>3

\* An answer that says "ready" is about a recipient that can receive.
LEMMA AnswerKeeps ==
  ASSUME BoxInv, NEW i \in DOMAIN lookup, NEW says, Answer(i, says), says # "checking",
         says = "ready" => lookup[i].of \in registered
  PROVE  BoxInv'
PROOF
  <1>1. /\ lookup \in Seq(Lookups) /\ lookup[i] \in Lookups /\ lookup[i].open
        /\ lookup' = [lookup EXCEPT ![i].open = FALSE] /\ badge' = says
        /\ registered' = registered /\ known' = known /\ box' = box /\ mixed' = mixed
        /\ screen' = screen
    BY DEF Answer, BoxInv
  <1> DEFINE closed == [lookup[i] EXCEPT !.open = FALSE]
  <1>2. closed \in Lookups /\ closed.open = FALSE
    BY <1>1 DEF Lookups
  <1>3. /\ lookup' \in Seq(Lookups) /\ DOMAIN lookup' = DOMAIN lookup
        /\ lookup'[i] = closed
        /\ \A j \in DOMAIN lookup : j # i => lookup'[j] = lookup[j]
    BY <1>1, <1>2
  <1> HIDE DEF closed
  <1>4. OpenLookupsAreOfBox'
    BY <1>1, <1>2, <1>3 DEF BoxInv, OpenLookupsAreOfBox
  <1>5. BadgeHonest'
    BY <1>1 DEF BoxInv, OpenLookupsAreOfBox, BadgeHonest
  <1> QED BY <1>1, <1>3, <1>4, <1>5 DEF BoxInv

\* A badge that says "ready" is about a recipient that can receive, however many
\* lookups of the address in the field are open and in whatever order they are
\* answered, unless the field was changed while a lookup of another text was open
\* or under a "ready" of the confidential form (checkRecipient of SendForm.tsx and
\* Shielded.tsx).
THEOREM BadgeStaysHonest == BoxSpec => []BadgeHonest
PROOF
  <1>1. BoxInit => BoxInv
    <2> SUFFICES ASSUME BoxInit PROVE BoxInv
      OBVIOUS
    <2>1. known \subseteq registered /\ mixed \in BOOLEAN /\ badge = "idle"
          /\ screen \in {"confidential", "shielded"}
      BY Zenon DEF BoxInit
    <2>2. lookup = <<>>
      BY DEF BoxInit
    <2>3. lookup \in Seq(Lookups) /\ DOMAIN lookup = {}
      BY <2>2
    <2> QED BY <2>1, <2>3 DEF BoxInv, OpenLookupsAreOfBox, BadgeHonest
  <1>2. BoxInv /\ [BoxNext]_boxVars => BoxInv'
    <2> SUFFICES ASSUME BoxInv, [BoxNext]_boxVars PROVE BoxInv'
      OBVIOUS
    <2>1. ASSUME NEW r \in Recipients, Register(r) PROVE BoxInv'
      BY <2>1 DEF Register, BoxInv, OpenLookupsAreOfBox, BadgeHonest, Waiting
    <2>2. CASE SyncRegistry
      BY <2>2 DEF SyncRegistry, BoxInv, OpenLookupsAreOfBox, BadgeHonest, Waiting
    <2>3. ASSUME NEW a, Edit(a) PROVE BoxInv'
      <3>1. /\ known' \subseteq registered' /\ lookup' \in Seq(Lookups) /\ Waiting' = Waiting
            /\ mixed' \in BOOLEAN /\ screen' = screen
        BY <2>3 DEF Edit, BoxInv, Waiting, Astray
      <3>2. ~mixed' => badge' # "ready"
        BY <2>3 DEF Edit, EditedBadge, BoxInv
      <3>3. OpenLookupsAreOfBox'
        BY <2>3 DEF Edit, OpenLookupsAreOfBox, Astray
      <3>4. BadgeHonest'
        BY <2>3, <3>1, <3>2 DEF Edit, EditedBadge, BoxInv, BadgeHonest
      <3> QED BY <3>1, <3>3, <3>4 DEF BoxInv
    <2>4. ASSUME NEW a, Paste(a) PROVE BoxInv'
      BY <2>4, CheckKeeps DEF Paste
    <2>5. CASE LeaveField
      BY <2>5, CheckKeeps DEF LeaveField
    <2>6. ASSUME NEW i \in DOMAIN lookup, ChainAnswers(i) PROVE BoxInv'
      BY <2>6, AnswerKeeps DEF ChainAnswers
    <2>7. ASSUME NEW i \in DOMAIN lookup, RegistryAnswers(i) PROVE BoxInv'
      BY <2>7, AnswerKeeps DEF RegistryAnswers, BoxInv
    <2>8. ASSUME NEW i \in DOMAIN lookup, RegistryFails(i) PROVE BoxInv'
      BY <2>8, AnswerKeeps DEF RegistryFails
    <2>9. CASE Sent
      BY <2>9 DEF Sent, BoxInv, OpenLookupsAreOfBox, BadgeHonest, Waiting, Astray
    <2>10. CASE UNCHANGED boxVars
      BY <2>10 DEF boxVars, BoxInv, OpenLookupsAreOfBox, BadgeHonest, Waiting
    <2> QED BY <2>1, <2>2, <2>3, <2>4, <2>5, <2>6, <2>7, <2>8, <2>9, <2>10 DEF BoxNext
  <1>3. BoxInv => BadgeHonest
    BY DEF BoxInv
  <1> QED BY <1>1, <1>2, <1>3, PTL DEF BoxSpec
=============================================================================
