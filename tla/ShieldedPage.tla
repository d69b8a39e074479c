---------------------------- MODULE ShieldedPage ----------------------------
(***************************************************************************)
(* The shielded tab at work: its operations, its readings of the shielded  *)
(* state and what it tells the user.                                       *)
(*                                                                         *)
(* A shield or an unshield changes the chain, then writes a line to a log  *)
(* of the wallet's public boundary, then reports.  Every operation ends    *)
(* with a reading: a sync of the local database and a read of it.  The     *)
(* mount and the Refresh button start readings of their own.  All report   *)
(* into one notice and one staleness warning.  Buttons are disabled while  *)
(* an operation runs, but not while it reads; leaving the tab forgets the  *)
(* component's state and stops nothing.                                    *)
(*                                                                         *)
(* The shielded state is a count of this wallet's operations: on chain, of *)
(* those the ones that the sources of events serve, that the local         *)
(* database holds, that the view shows.  The sources lag the chain (see    *)
(* SppSync), so a sync that succeeds brings what they serve, not all that  *)
(* has landed.  The transactions of an operation count as one.             *)
(***************************************************************************)
EXTENDS Integers, Sequences, FiniteSetsExt

CONSTANTS
  MaxRuns,      \* bound: operations
  MaxReads,     \* bound: readings of the mount and of the button
  MaxEntries    \* entries the boundary log keeps

ASSUME PageAssumption == MaxEntries \in Nat \ {0}

VARIABLES
  run,        \* operation -> [at, says, mount, landed, prior]
  read,       \* reading -> [at, mount, after]
  mount,      \* which mounting of the component is on screen
  busy,       \* an operation runs
  refreshing, \* a reading runs
  notice,     \* what the user is told: [of, says]
  stale,      \* the staleness warning is shown
  chain,      \* operations of this wallet on chain
  served,     \* of those, the ones that a sync finds
  local,      \* of those, in the local database
  view,       \* of those, in the view
  log,        \* the boundary log, newest first
  due,        \* history: what was served when the newest reading on screen began
  recorded,   \* history: every entry written, newest first
  crowded,    \* history: an operation began while another or a reading was under way
  stray       \* history: one began while one of an earlier mounting was under way

pageVars == <<run, read, mount, busy, refreshing, notice, stale, chain, served, local, view,
              log, due, recorded, crowded, stray>>

Runs == DOMAIN run
Reads == DOMAIN read
Silence == [of |-> 0, says |-> "nothing"]
ReadError == [of |-> 0, says |-> "reading failed"]
BadAmount == [of |-> Len(run), says |-> "amount rejected"]   \* entered after that operation
Outcome(r) == [of |-> r, says |-> run[r].says]

\* Of this mounting, and not yet over.
Running(r) == run[r].mount = mount /\ run[r].at # "done"
Reading(i) == read[i].mount = mount /\ read[i].at # "done"

NewRead == [at |-> "sync", mount |-> mount, after |-> Len(run)]

PageInit ==
  /\ run = <<>>
  /\ mount = 1
  /\ read = << [at |-> "sync", mount |-> 1, after |-> 0] >>
  /\ busy = FALSE
  /\ refreshing = TRUE
  /\ notice = Silence
  /\ stale = FALSE
  /\ chain = 0 /\ served = 0 /\ local = 0 /\ view = 0
  /\ log = <<>> /\ recorded = <<>> /\ due = 0
  /\ crowded = FALSE /\ stray = FALSE

----------------------------------------------------------------------------
(* The chain and its sources. *)

\* The operation's transaction is on chain, whatever it will report; also after
\* it has reported a failure, when the failure was a confirmation that timed out.
Land(r) ==
  /\ ~run[r].landed
  /\ run[r].at = "act" \/ run[r].says = "failed"
  /\ run' = [run EXCEPT ![r].landed = TRUE]
  /\ chain' = chain + 1
  /\ UNCHANGED <<read, mount, busy, refreshing, notice, stale, served, local, view, log, due,
                 recorded, crowded, stray>>

\* The sources serve more of what is on chain.
Serve ==
  /\ served' \in (served + 1) .. chain
  /\ UNCHANGED <<run, read, mount, busy, refreshing, notice, stale, chain, local, view, log,
                 due, recorded, crowded, stray>>

\* The pool's and the account's calls sync before they read or act.
EnsureSynced ==
  /\ \/ \E r \in Runs : run[r].at \in {"act", "read"}
     \/ \E i \in Reads : read[i].at = "read"
  /\ local' = served
  /\ UNCHANGED <<run, read, mount, busy, refreshing, notice, stale, chain, served, view, log,
                 due, recorded, crowded, stray>>

----------------------------------------------------------------------------
(* run: busy from the start to the end of fn; the notice is cleared. *)

NeverBusy == TRUE   \* a mutation of the next
\* The buttons of the forms.
CanBegin == ~busy

Begin ==
  /\ CanBegin
  /\ Len(run) < MaxRuns
  /\ run' = Append(run, [at |-> "act", says |-> "nothing", mount |-> mount,
                        landed |-> FALSE, prior |-> <<>>])
  /\ busy' = TRUE
  /\ notice' = Silence
  /\ stale' = FALSE
  /\ crowded' = (crowded \/ (\E r \in Runs : run[r].at # "done") \/ (\E i \in Reads : Reading(i)))
  /\ stray' = (stray \/ \E r \in Runs : run[r].at # "done" /\ run[r].mount # mount)
  /\ UNCHANGED <<read, mount, refreshing, chain, served, local, view, log, due, recorded>>

\* parseAmount, parseShieldAmount: an amount that is no amount, or too large for
\* a deposit, is told in the notice, and no operation begins.
AmountRejected ==
  /\ CanBegin
  /\ notice' = BadAmount
  /\ UNCHANGED <<run, read, mount, busy, refreshing, stale, chain, served, local, view, log,
                 due, recorded, crowded, stray>>

\* The component's setters do nothing once it is unmounted.
OnScreen(r, new, old) == IF run[r].mount = mount THEN new ELSE old

\* fn is over: busy is cleared and the reading begins.
RunEnds(r, says) ==
  /\ run' = [run EXCEPT ![r].at = "sync", ![r].says = says]
  /\ busy' = OnScreen(r, FALSE, busy)
  /\ refreshing' = OnScreen(r, TRUE, refreshing)
  /\ due' = OnScreen(r, served, due)
  /\ UNCHANGED <<read, mount, notice, stale, chain, served, local, view, crowded, stray>>

\* A transfer or a registration succeeds; nothing is written to the log.
Succeeds(r) ==
  /\ run[r].at = "act" /\ run[r].landed
  /\ RunEnds(r, "ok")
  /\ UNCHANGED <<log, recorded>>

\* Not approved by the ASP, or canceled by the user, maybe with the first
\* transactions of several on chain; what was not signed never lands.
Refused(r) ==
  /\ run[r].at = "act"
  /\ RunEnds(r, "refused")
  /\ UNCHANGED <<log, recorded>>

\* A failure, with transactions submitted before it or without.
Fails(r) ==
  /\ run[r].at = "act"
  /\ RunEnds(r, "failed")
  /\ UNCHANGED <<log, recorded>>

\* A shield or an unshield has succeeded and recordSppBoundaryEvent reads the log ...
LogRead(r) ==
  /\ run[r].at = "act" /\ run[r].landed
  /\ run' = [run EXCEPT ![r].at = "log", ![r].prior = log]
  /\ UNCHANGED <<read, mount, busy, refreshing, notice, stale, chain, served, local, view, log,
                 due, recorded, crowded, stray>>

\* ... and writes it back, with its entry first and the oldest cut off.
LogWritten(r) ==
  /\ run[r].at = "log"
  /\ log' = SubSeq(<<r>> \o run[r].prior, 1, Min({MaxEntries, Len(run[r].prior) + 1}))
  /\ recorded' = <<r>> \o recorded
  /\ RunEnds(r, "ok")

\* The log cannot be read or written: the operation is reported as failed.
LogFails(r) ==
  /\ run[r].at = "log" \/ (run[r].at = "act" /\ run[r].landed)
  /\ RunEnds(r, "failed")
  /\ UNCHANGED <<log, recorded>>

----------------------------------------------------------------------------
(* The readings. *)

\* The operation's own reading: sync, then read.  The sync brings what is served.
RunSyncs(r) ==
  /\ run[r].at = "sync"
  /\ run' = [run EXCEPT ![r].at = "read"]
  /\ local' = served
  /\ UNCHANGED <<read, mount, busy, refreshing, notice, stale, chain, served, view, log, due,
                 recorded, crowded, stray>>

FailureFirst(outcome, failed) == IF failed THEN ReadError ELSE outcome   \* a mutation of the next
\* resolveNotices: an operation always has an outcome to say.
ResolvedNotice(outcome, failed) == outcome

\* The reading ends and the outcome is shown, with the warning if it failed.
Reports(r, failed) ==
  /\ run' = [run EXCEPT ![r].at = "done"]
  /\ notice' = OnScreen(r, ResolvedNotice(Outcome(r), failed), notice)
  /\ stale' = OnScreen(r, failed, stale)
  /\ refreshing' = OnScreen(r, FALSE, refreshing)
  /\ UNCHANGED <<read, mount, busy, chain, served, local, log, due, recorded, crowded, stray>>

RunReads(r) == run[r].at = "read" /\ Reports(r, FALSE) /\ view' = OnScreen(r, local, view)
RunReadFails(r) == run[r].at \in {"sync", "read"} /\ Reports(r, TRUE) /\ UNCHANGED view

\* The Refresh button.
Refresh ==
  /\ ~refreshing /\ ~busy
  /\ Len(read) < MaxReads
  /\ read' = Append(read, NewRead)
  /\ refreshing' = TRUE
  /\ due' = served
  /\ UNCHANGED <<run, mount, busy, notice, stale, chain, served, local, view, log, recorded,
                 crowded, stray>>

Syncs(i) ==
  /\ read[i].at = "sync"
  /\ read' = [read EXCEPT ![i].at = "read"]
  /\ local' = served
  /\ UNCHANGED <<run, mount, busy, refreshing, notice, stale, chain, served, view, log, due,
                 recorded, crowded, stray>>

ReadOnScreen(i, new, old) == IF read[i].mount = mount THEN new ELSE old

\* A mutation of the next: a reading that fails leaves no warning.
SilentFailure(i, failed) ==
  /\ stale' = ReadOnScreen(i, FALSE, stale)
  /\ UNCHANGED notice

\* refreshAndReport: the warning is set or cleared; a failure takes the notice.
Warns(i, failed) ==
  /\ stale' = ReadOnScreen(i, failed, stale)
  /\ notice' = IF failed THEN ReadOnScreen(i, ReadError, notice) ELSE notice

ReadEnds(i, failed) ==
  /\ read' = [read EXCEPT ![i].at = "done"]
  /\ refreshing' = ReadOnScreen(i, FALSE, refreshing)
  /\ Warns(i, failed)
  /\ UNCHANGED <<run, mount, busy, chain, served, local, log, due, recorded, crowded, stray>>

Read(i) == read[i].at = "read" /\ ReadEnds(i, FALSE) /\ view' = ReadOnScreen(i, local, view)
ReadFails(i) == read[i].at \in {"sync", "read"} /\ ReadEnds(i, TRUE) /\ UNCHANGED view

\* The tab is left and mounted again: fresh state, and a reading of its own.
Remount ==
  /\ Len(read) < MaxReads
  /\ mount' = mount + 1
  /\ read' = Append(read, [at |-> "sync", mount |-> mount + 1, after |-> Len(run)])
  /\ busy' = FALSE /\ refreshing' = TRUE
  /\ notice' = Silence /\ stale' = FALSE
  /\ view' = 0
  /\ due' = served
  /\ crowded' = (crowded \/ \E r \in Runs : run[r].at # "done")
  /\ UNCHANGED <<run, chain, served, local, log, recorded, stray>>

PageNext ==
  \/ Begin
  \/ AmountRejected
  \/ Serve
  \/ EnsureSynced
  \/ \E r \in Runs :
       \/ Land(r) \/ Succeeds(r) \/ Refused(r) \/ Fails(r)
       \/ LogRead(r) \/ LogWritten(r) \/ LogFails(r)
       \/ RunSyncs(r) \/ RunReads(r) \/ RunReadFails(r)
  \/ Refresh
  \/ \E i \in Reads : Syncs(i) \/ Read(i) \/ ReadFails(i)
  \/ Remount

PageSpec == PageInit /\ [][PageNext]_pageVars

----------------------------------------------------------------------------
Quiet == (\A r \in Runs : ~Running(r)) /\ (\A i \in Reads : ~Reading(i))

Last == Len(run)

\* The last operation of this mounting is what the user hears of, unless an
\* amount was rejected since or a reading begun after it has failed.
OutcomeShown ==
  Quiet /\ Last # 0 /\ run[Last].mount = mount =>
    notice = Outcome(Last)
      \/ notice = BadAmount
      \/ (notice = ReadError /\ \E i \in Reads : read[i].mount = mount /\ read[i].after = Last)

\* When operations and readings have not overlapped, the outcome is shown.
OutcomeShownApart == crowded \/ OutcomeShown

\* A view that misses an operation that was served when the newest reading
\* began comes with a warning.  (What is served or lands later needs another
\* reading, and nothing on the page says so.)
OldViewSaid == Quiet /\ ~crowded /\ view < due => stale

\* The log is the newest of all that was recorded: an operation never writes
\* back a log that misses another's entry.  (Operations of two mountings do:
\* the tab that is left forgets that it was busy.)
LogHoldsNewest ==
  stray \/ log = SubSeq(recorded, 1, Min({MaxEntries, Len(recorded)}))
=============================================================================
