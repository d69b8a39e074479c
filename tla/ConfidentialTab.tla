--------------------------- MODULE ConfidentialTab ---------------------------
(***************************************************************************)
(* The confidential tab at work: its balance card, its one open form, and  *)
(* the provider that reads the balances for both.                          *)
(*                                                                         *)
(* An operation is a call of CtRail; when it succeeds it asks the provider *)
(* for a refresh and its button stays disabled until that has ended.  The  *)
(* card and the form have a busy mark each.  Another panel unmounts the    *)
(* send form, or mounts it anew, and the mark goes with it; leaving the    *)
(* tab unmounts everything.  Neither stops what runs.                      *)
(*                                                                         *)
(* A balance is a count of this account's operations: those that landed on *)
(* chain, and those of the balances on screen.  Two idealisations: a sync  *)
(* that succeeds sees all that has landed (a source that lags is CtSync's  *)
(* matter, and the view's matchesChain tells of it), and an operation that *)
(* was reported failed does not land afterwards.                           *)
(***************************************************************************)
EXTENDS Integers, Sequences, FiniteSets

CONSTANTS
  MaxOps,     \* bound: operations
  MaxLoads    \* bound: refreshes of the provider's own and of the button

VARIABLES
  op,        \* operation -> [kind, form, mount, at, ok]
  load,      \* refresh -> [at, of, seen, mount]
  opened,    \* which mounting of the tab is on screen
  form,      \* the open form: [panel, id, busy]
  cardBusy,  \* the balance card runs an operation
  loading,   \* the provider's mark of a refresh
  viewError, \* the provider says that a refresh failed
  balances,  \* operations in the balances on screen, or NoView
  landed,    \* operations on chain
  mingled,   \* history: an operation began beside another one or a refresh
  abandoned  \* history: a form was closed, or the tab left, while a spend ran

tabVars == <<op, load, opened, form, cardBusy, loading, viewError, balances, landed,
             mingled, abandoned>>

Ops == DOMAIN op
Loads == DOMAIN load
NoView == -1
NoForm == 0
Spends == {"transfer", "withdraw"}

Underway(o) == op[o].at # "done"
Loading(i) == load[i].at # "done" /\ load[i].mount = opened
SpendRuns == \E o \in Ops : Underway(o) /\ op[o].kind \in Spends

OwnLoad == [at |-> "sync", of |-> 0, seen |-> 0, mount |-> opened]

TabInit ==
  /\ op = <<>>
  /\ opened = 1
  /\ load = << [at |-> "sync", of |-> 0, seen |-> 0, mount |-> 1] >>
  /\ form = [panel |-> "Send", id |-> 1, busy |-> FALSE]
  /\ cardBusy = FALSE
  /\ loading = TRUE
  /\ viewError = FALSE
  /\ balances = NoView
  /\ landed = 0
  /\ mingled = FALSE /\ abandoned = FALSE

----------------------------------------------------------------------------
(* The forms *)

BeginsOp(kind, id) ==
  /\ Len(op) < MaxOps
  /\ op' = Append(op, [kind |-> kind, form |-> id, mount |-> opened,
                       at |-> "act", ok |-> FALSE])
  /\ mingled' = (mingled \/ (\E o \in Ops : Underway(o)) \/ (\E i \in Loads : Loading(i)))
  /\ UNCHANGED <<load, opened, loading, viewError, balances, landed, abandoned>>

\* BalanceCard: activating the balance, moving what has arrived.
Press ==
  /\ ~cardBusy
  /\ cardBusy' = TRUE
  /\ BeginsOp("merge", NoForm)
  /\ UNCHANGED form

AlwaysFree == TRUE   \* a mutation of the next
FormFree == ~form.busy

\* SendForm, and MoveFunds for deposits and withdrawals.
SubmitSend ==
  /\ form.panel = "Send"
  /\ FormFree
  /\ form' = [form EXCEPT !.busy = TRUE]
  /\ BeginsOp("transfer", form.id)
  /\ UNCHANGED cardBusy

SubmitMove(kind) ==
  /\ form.panel = "Move"
  /\ FormFree
  /\ form' = [form EXCEPT !.busy = TRUE]
  /\ BeginsOp(kind, form.id)
  /\ UNCHANGED cardBusy

\* Send and the other panel are different components, Deposit and Withdraw the
\* same one.
SwitchPanel ==
  /\ form' = [panel |-> IF form.panel = "Send" THEN "Move" ELSE "Send",
              id |-> form.id + 1, busy |-> FALSE]
  /\ form.id < MaxOps
  /\ abandoned' = (abandoned \/ SpendRuns)
  /\ UNCHANGED <<op, load, opened, cardBusy, loading, viewError, balances, landed, mingled>>

----------------------------------------------------------------------------
(* The operations *)

\* The contract has executed it.
Lands(o) ==
  /\ op[o].at = "act"
  /\ op' = [op EXCEPT ![o].at = "landed"]
  /\ landed' = landed + 1
  /\ UNCHANGED <<load, opened, form, cardBusy, loading, viewError, balances, mingled,
                 abandoned>>

\* The marks of the component that began it, if that is still on screen.
Frees(o) ==
  /\ form' = [form EXCEPT !.busy = @ /\ op[o].form # form.id]
  /\ cardBusy' = (cardBusy /\ ~(op[o].form = NoForm /\ op[o].mount = opened))

\* CtRail throws, before the transaction or after it.
OpFails(o) ==
  /\ op[o].at \in {"act", "landed"}
  /\ op' = [op EXCEPT ![o].at = "done"]
  /\ Frees(o)
  /\ UNCHANGED <<load, opened, loading, viewError, balances, landed, mingled, abandoned>>

\* refresh of the provider: its mark is set and the last error forgotten.
BeginsLoad(new) ==
  /\ load' = Append(load, new)
  /\ loading' = (loading \/ new.mount = opened)
  /\ viewError' = (viewError /\ new.mount # opened)

\* The operation has succeeded.
AsksRefresh(o) ==
  /\ op[o].at = "landed"
  /\ op' = [op EXCEPT ![o].at = "refresh", ![o].ok = TRUE]
  /\ BeginsLoad([at |-> "sync", of |-> o, seen |-> 0, mount |-> op[o].mount])
  /\ UNCHANGED <<opened, form, cardBusy, balances, landed, mingled, abandoned>>

----------------------------------------------------------------------------
(* The refreshes *)

\* CtRail.refresh: the sync, the account and the public balance, here without
\* a source that lags.
SyncsBalances(i) ==
  /\ load[i].at = "sync"
  /\ load' = [load EXCEPT ![i].at = "verify", ![i].seen = landed]
  /\ UNCHANGED <<op, opened, form, cardBusy, loading, viewError, balances, landed,
                 mingled, abandoned>>

\* The refresh never throws: an operation that waited for it ends.
EndsLoad(i) ==
  /\ load' = [load EXCEPT ![i].at = "done", ![i].seen = 0]
  /\ loading' = (loading /\ load[i].mount # opened)
  /\ IF load[i].of = 0 THEN UNCHANGED <<op, form, cardBusy>>
     ELSE op' = [op EXCEPT ![load[i].of].at = "done"] /\ Frees(load[i].of)
  /\ UNCHANGED <<opened, landed, mingled, abandoned>>

Loaded(i) ==
  /\ load[i].at = "verify"
  /\ EndsLoad(i)
  /\ balances' = IF load[i].mount = opened THEN load[i].seen ELSE balances
  /\ UNCHANGED viewError

FailsSilently(i) == viewError' = viewError   \* a mutation of the next
SaysFailed(i) == viewError' = (viewError \/ load[i].mount = opened)

LoadFails(i) ==
  /\ load[i].at \in {"sync", "verify"}
  /\ EndsLoad(i)
  /\ SaysFailed(i)
  /\ UNCHANGED balances

OwnLoads == Cardinality({i \in Loads : load[i].of = 0})

RefreshButton ==
  /\ ~loading
  /\ OwnLoads < MaxLoads
  /\ BeginsLoad(OwnLoad)
  /\ mingled' = (mingled \/ \E o \in Ops : Underway(o))
  /\ UNCHANGED <<op, opened, form, cardBusy, balances, landed, abandoned>>

\* The tab is left and opened again.
LeaveTab ==
  /\ OwnLoads < MaxLoads
  /\ opened' = opened + 1
  /\ load' = Append(load, [OwnLoad EXCEPT !.mount = opened + 1])
  /\ form' = [panel |-> "Send", id |-> form.id + 1, busy |-> FALSE]
  /\ cardBusy' = FALSE
  /\ loading' = TRUE
  /\ viewError' = FALSE
  /\ balances' = NoView
  /\ abandoned' = (abandoned \/ SpendRuns)
  /\ mingled' = (mingled \/ \E o \in Ops : Underway(o))
  /\ UNCHANGED <<op, landed>>

TabNext ==
  \/ Press
  \/ SubmitSend
  \/ \E kind \in {"deposit", "withdraw"} : SubmitMove(kind)
  \/ SwitchPanel
  \/ \E o \in Ops : Lands(o) \/ OpFails(o) \/ AsksRefresh(o)
  \/ \E i \in Loads : SyncsBalances(i) \/ Loaded(i) \/ LoadFails(i)
  \/ RefreshButton
  \/ LeaveTab

TabSpec == TabInit /\ [][TabNext]_tabVars

----------------------------------------------------------------------------
\* Two spends of one tab do not overlap, unless a form was closed or the tab
\* left while one ran: then no component knows of it any more.
OneSpendAtATime ==
  abandoned \/ \A o, p \in Ops :
    Underway(o) /\ Underway(p) /\ op[o].kind \in Spends /\ op[p].kind \in Spends => o = p

Settled == (\A o \in Ops : ~Underway(o)) /\ (\A i \in Loads : ~Loading(i))

\* When operations and refreshes have not overlapped and the last operation was
\* reported done, the balances on screen have every operation that landed, or
\* the provider says that a refresh failed: a refresh's failure is never lost.
\* (A sync that succeeds is taken to see all that landed.)
OldBalanceSaid ==
  Settled /\ ~mingled /\ op # <<>> /\ op[Len(op)].ok => balances = landed \/ viewError
=============================================================================
