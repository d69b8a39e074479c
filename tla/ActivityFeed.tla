---------------------------- MODULE ActivityFeed ----------------------------
(***************************************************************************)
(* The activity list of the confidential tab and the amounts of its rows.  *)
(*                                                                         *)
(* A transfer's amount is not in the API's row.  The row reads the event,  *)
(* decrypts what it received with the viewing key, and what it sent with   *)
(* the recipient's key, which is a second read.  Every new answer of the   *)
(* feed, and every retry, starts another attempt and cancels the one that  *)
(* runs: a cancelled attempt still ends, and must not touch the row.       *)
(***************************************************************************)
EXTENDS Integers, FiniteSets

CONSTANTS
  Rows,         \* ids of the account's activity
  MaxAttempts   \* bound: attempts of a row

VARIABLES
  kind,      \* row -> what it is, and for a transfer on which side we are
  entries,   \* the rows the API has
  feed,      \* the list: [shown, loading, failed]
  line,      \* row -> [amount, direction, decrypting, failed, attempt]
  attempts,  \* attempts that have not ended: [row, number, at]
  ended      \* history: row -> how its latest attempt ended

feedVars == <<kind, entries, feed, line, attempts, ended>>

\* A deposit's amount is public.  A transfer came in, was sent with the keys
\* of this bundle, or was sent by this account with other keys.
Kinds == {"deposit", "in", "out", "otherkeys"}

\* A row that is mounted.  Its effect has not run.
FreshRow(r) ==
  [amount |-> IF kind[r] = "deposit" THEN "public" ELSE "none", direction |-> "none",
   decrypting |-> kind[r] # "deposit", failed |-> FALSE, attempt |-> 0]

\* The list loads when it is mounted.
FeedInit ==
  /\ kind \in [Rows -> Kinds]
  /\ entries \in SUBSET Rows
  /\ feed = [shown |-> {}, loading |-> TRUE, failed |-> FALSE]
  /\ line = [r \in Rows |-> FreshRow(r)]
  /\ attempts = {}
  /\ ended = [r \in Rows |-> "none"]

----------------------------------------------------------------------------
(* The list *)

\* The indexer has another row of the account.
Arrives(r) ==
  /\ r \notin entries
  /\ entries' = entries \cup {r}
  /\ UNCHANGED <<kind, feed, line, attempts, ended>>

\* The effect of the transfers among these rows: mark them, forget the last
\* error, read anew.  What a row showed is still there when that has ended.
BeginsAttempts(started) ==
  LET private == {r \in started : kind[r] # "deposit"}
  IN  /\ \A r \in private : line[r].attempt < MaxAttempts
      /\ line' = [r \in Rows |->
           IF r \in private
             THEN [line[r] EXCEPT !.decrypting = TRUE, !.failed = FALSE, !.attempt = @ + 1]
             ELSE line[r]]
      /\ attempts' = attempts \cup
           {[row |-> r, number |-> line[r].attempt + 1, at |-> "event"] : r \in private}
      /\ ended' = [r \in Rows |-> IF r \in private THEN "none" ELSE ended[r]]

\* The answer holds new row objects: every transfer in it is read again.
FeedLoads ==
  /\ feed.loading
  /\ feed' = [shown |-> entries, loading |-> FALSE, failed |-> FALSE]
  /\ BeginsAttempts(entries)
  /\ UNCHANGED <<kind, entries>>

FeedFails ==
  /\ feed.loading
  /\ feed' = [feed EXCEPT !.loading = FALSE, !.failed = TRUE]
  /\ UNCHANGED <<kind, entries, line, attempts, ended>>

Reload ==
  /\ ~feed.loading
  /\ feed' = [feed EXCEPT !.loading = TRUE, !.failed = FALSE]
  /\ UNCHANGED <<kind, entries, line, attempts, ended>>

\* "Amount unavailable": the row offers another attempt.
Retry(r) ==
  /\ r \in feed.shown
  /\ line[r].failed
  /\ BeginsAttempts({r})
  /\ UNCHANGED <<kind, entries, feed>>

----------------------------------------------------------------------------
(* The attempts *)

CurrentAlways(t) == TRUE   \* a mutation of the next
\* The attempt has not been cancelled by a later one.
Current(t) == line[t.row].attempt = t.number

\* The attempt ends; the row learns of it if the attempt is current.
Ends(t, shown, how) ==
  /\ attempts' = attempts \ {t}
  /\ line' = IF Current(t) THEN [line EXCEPT ![t.row] = shown] ELSE line
  /\ ended' = IF Current(t) THEN [ended EXCEPT ![t.row] = how] ELSE ended
  /\ UNCHANGED <<kind, entries, feed>>

\* resolveTransferAmount has a result.
Resolved(t, amount, direction, how) ==
  Ends(t, [line[t.row] EXCEPT !.amount = amount, !.direction = direction,
                              !.decrypting = FALSE], how)

\* The API answers without the event, or with an error status: no match.
Unmatched(t) ==
  /\ t.at = "event"
  /\ Ends(t, [line[t.row] EXCEPT !.decrypting = FALSE], "nothing")

\* The API cannot be reached or its answer not be decoded.
Throws(t) ==
  /\ t.at = "event"
  /\ Ends(t, [line[t.row] EXCEPT !.failed = TRUE, !.decrypting = FALSE], "threw")

\* The event is there: decryptTransferAmount for the side we are on.
Decrypts(t) ==
  /\ t.at = "event"
  /\ \/ kind[t.row] = "in" /\ Resolved(t, "value", "in", "read")
     \/ kind[t.row] = "otherkeys" /\ Resolved(t, "none", "out", "nothing")
     \/ /\ kind[t.row] = "out"
        /\ attempts' = (attempts \ {t}) \cup {[t EXCEPT !.at = "recipient"]}
        /\ UNCHANGED <<kind, entries, feed, line, ended>>

\* The recipient's account is read, or the read fails: a failure is taken for
\* an account that is not there.
RecipientRead(t) == t.at = "recipient" /\ Resolved(t, "value", "out", "read")
RecipientMissed(t) == t.at = "recipient" /\ Resolved(t, "none", "out", "nothing")

FeedNext ==
  \/ FeedLoads
  \/ FeedFails
  \/ Reload
  \/ \E r \in Rows : Arrives(r) \/ Retry(r)
  \/ \E t \in attempts :
       Unmatched(t) \/ Throws(t) \/ Decrypts(t) \/ RecipientRead(t) \/ RecipientMissed(t)

FeedSpec == FeedInit /\ [][FeedNext]_feedVars

----------------------------------------------------------------------------
\* What a row says when nothing runs: no amount and no offer to try again.
Sealed(r) == ~line[r].failed /\ ~line[r].decrypting /\ line[r].amount = "none"

\* The rows on screen are honest: one that says "Decrypting" has an attempt that
\* will settle it; one that offers a retry is one whose latest attempt failed;
\* a sealed one has no attempt running, and either cannot be read with these
\* keys or got no answer to one of its two reads; an amount has its own sign.
RowsHonest ==
  \A r \in feed.shown : kind[r] # "deposit" =>
    /\ line[r].decrypting <=> \E t \in attempts : t.row = r /\ t.number = line[r].attempt
    /\ line[r].failed => ended[r] = "threw"
    /\ Sealed(r) => ended[r] = "nothing"
    /\ line[r].amount = "value" => line[r].direction = kind[r]
=============================================================================
