------------------------------- MODULE Pool -------------------------------
(***************************************************************************)
(* The yield-bearing shielded pool contract.                               *)
(*                                                                         *)
(* Owners hold notes, which are leaves of a Merkle tree.  A transaction    *)
(* spends up to two notes and creates two; the difference is a deposit     *)
(* (ext > 0), a withdrawal (ext < 0) or nothing.  The contract keeps a     *)
(* buffer of idle tokens, invests the rest in a vault whose share price    *)
(* moves, and lets its administrator collect what exceeds its liabilities. *)
(*                                                                         *)
(* A contract call is one step: the ledger runs calls one at a time, and   *)
(* a call that returns an error or panics leaves no trace, so it is not a  *)
(* step at all.  What does interleave is the making of a proof, done off   *)
(* chain against some earlier state, and its submission.  A transaction    *)
(* here carries the root and the policy roots it was proved against, any   *)
(* that there may have been, and can be submitted again and again.         *)
(***************************************************************************)
EXTENDS Integers, FiniteSets, NoteValue, RootWindow, VaultPricing

CONSTANTS
    Owners,                  \* holders of note keys
    Levels,                  \* depth of the Merkle tree
    RequiresMembership,      \* policy flag: every input key is on the allow list
    RequiresNonMembership,   \* policy flag: no input key is on the block list
    AllowLists,              \* allow lists the membership root may commit to
    BlockLists,              \* block lists the non-membership root may commit to
    MaximumDepositAmount,
    NoteAmounts,             \* amounts a note may have
    ExtAmounts,              \* external amounts a transaction may name
    ProofSkew,               \* proof's public amount minus the external amount
    InvestParams,            \* <<threshold, buffer>> pairs asked for
    Prices,                  \* share prices the vault may have
    MaxIdle,                 \* bound: no gift takes the idle balance over it
    MaxLeaves                \* bound: leaves in the tree when exploration stops

ASSUME PoolAssumption ==
    /\ Owners # {}
    /\ Levels \in 1 .. 32
    /\ RequiresMembership \in BOOLEAN
    /\ RequiresNonMembership \in BOOLEAN
    /\ AllowLists \subseteq SUBSET Owners
    /\ BlockLists \subseteq SUBSET Owners
    /\ MaximumDepositAmount \in Nat
    /\ NoteAmounts \subseteq Nat
    /\ ExtAmounts \subseteq Int
    /\ ProofSkew \subseteq Int
    /\ InvestParams \subseteq Int \X Int
    /\ \E p \in InvestParams : p[1] > 0 /\ p[2] >= 0 /\ p[2] < p[1]
    /\ Prices \subseteq Nat
    /\ Prices # {}
    /\ MaxIdle \in Nat
    /\ MaxLeaves \in Nat

VARIABLES
    notes,        \* leaf index -> note, for every leaf inserted
    nextIndex,    \* NextIndex of the tree
    nullifiers,   \* leaves whose nullifier is marked spent
    liabilities,  \* TotalLiabilities
    idle,         \* the pool's own token balance
    shares,       \* the pool's balance of vault shares
    price,        \* the vault's share price
    params,       \* <<invest_threshold, liquidity_buffer>>
    asp           \* the two current policy roots, as the sets they commit to

treeVars  == <<notes, nextIndex, nullifiers>>
vaultVars == <<price>>
adminVars == <<params, asp>>
vars == <<treeVars, liabilities, idle, shares, vaultVars, adminVars>>

Note     == [amount : NoteAmounts, owner : Owners]
AspRoots == [allowed : AllowLists, blocked : BlockLists]
Leaves   == 0 .. nextIndex - 1
Capacity == 2 ^ Levels
Insertions == nextIndex \div 2

Amount == [i \in Leaves |-> notes[i].amount]

\* The notes that can still be spent.
Unspent == Leaves \ nullifiers

\* The stroops the pool owes to the holders of notes.
NoteLiability == ValueOf(Amount, Unspent)

Threshold == params[1]
Buffer    == params[2]

UncomparedParams(p) == p[1] > 0 /\ p[2] >= 0   \* a mutation of ValidParams
ValidParams(p) == p[1] > 0 /\ p[2] >= 0 /\ p[2] < p[1]

TypeOK ==
    /\ nextIndex \in Nat
    /\ nextIndex <= Capacity
    /\ notes \in [Leaves -> Note]
    /\ nullifiers \subseteq Leaves
    /\ liabilities \in Nat
    /\ idle \in Nat
    /\ shares \in Nat
    /\ price \in Prices
    /\ params \in Int \X Int
    /\ 0 <= Buffer /\ Buffer < Threshold
    /\ asp \in AspRoots

----------------------------------------------------------------------------
(***************************************************************************)
(* The checks of internal_transact, before it changes anything.            *)
(***************************************************************************)

IsKnownRoot(root) == root \in KnownRoots(Insertions)

IsSpent(i) == i \in nullifiers

\* The keys a proof is made with: those of its inputs and, where an input is
\* a dummy of amount zero, the sender's own.
InputKeys(tx) ==
    {notes[i].owner : i \in tx.ins}
        \cup (IF Cardinality(tx.ins) < 2 THEN {tx.sender} ELSE {})

AnyAspRoots(tx) == TRUE   \* a mutation of CurrentAspRoots
CurrentAspRoots(tx) ==
    /\ RequiresNonMembership => tx.asp.blocked = asp.blocked
    /\ RequiresMembership    => tx.asp.allowed = asp.allowed

\* calculate_public_amount and the hash of the external data: the public amount
\* the proof conserves is the external amount the call names.
PublicAmountMatches(tx) == tx.pub = tx.ext

(***************************************************************************)
(* What the base circuit guarantees of a proof: the inputs are notes of    *)
(* the tree the root commits to (a note of amount zero need not be), they  *)
(* are distinct, and value is conserved.                                   *)
(***************************************************************************)
CircuitAccepts(tx) ==
    /\ tx.ins \subseteq Leaves
    /\ \A i \in tx.ins : Amount[i] > 0 => i < 2 * tx.root
    /\ ValueOf(Amount, tx.ins) + tx.pub = tx.outs[1].amount + tx.outs[2].amount

\* The policy circuits, each about the root the proof names.
AspMembership(tx)    == InputKeys(tx) \subseteq tx.asp.allowed
AspNonMembership(tx) == InputKeys(tx) \cap tx.asp.blocked = {}

\* verify_proof: the pool's flags say which roots are public inputs, and so
\* which of the circuits the proof is verified for.
VerifyProof(tx) ==
    /\ CircuitAccepts(tx)
    /\ RequiresMembership    => AspMembership(tx)
    /\ RequiresNonMembership => AspNonMembership(tx)

\* Two mutations of Accepted: one check of the contract left out of each.
AcceptedUnspent(tx) ==
    /\ IsKnownRoot(tx.root)
    /\ PublicAmountMatches(tx)
    /\ CurrentAspRoots(tx)
    /\ VerifyProof(tx)
AcceptedAmount(tx) ==
    /\ IsKnownRoot(tx.root)
    /\ \A i \in tx.ins : ~IsSpent(i)
    /\ CurrentAspRoots(tx)
    /\ VerifyProof(tx)

Accepted(tx) ==
    /\ IsKnownRoot(tx.root)
    /\ \A i \in tx.ins : ~IsSpent(i)
    /\ PublicAmountMatches(tx)
    /\ CurrentAspRoots(tx)
    /\ VerifyProof(tx)

----------------------------------------------------------------------------
(***************************************************************************)
(* The effects of a transaction on the tree and the nullifier set.         *)
(***************************************************************************)

MarkSpent(tx) == nullifiers' = nullifiers \cup tx.ins

InsertTwoLeaves(outs) ==
    /\ nextIndex + 2 <= Capacity
    /\ nextIndex' = nextIndex + 2
    /\ notes' = [i \in 0 .. nextIndex + 1 |->
                    IF i < nextIndex THEN notes[i] ELSE outs[i - nextIndex + 1]]

Settle(tx) == MarkSpent(tx) /\ InsertTwoLeaves(tx.outs)

----------------------------------------------------------------------------
(***************************************************************************)
(* The vault position.  Each operator gives the set of [idle, shares] the  *)
(* call may leave behind; no outcome means that the call returns an error. *)
(***************************************************************************)

VaultPositionValue == Worth(shares, price)
Assets == idle + VaultPositionValue

\* ensure_idle: divest for the deficit and the buffer unless idle suffices.
EnsureIdle(required) ==
    IF idle >= required
    THEN {[idle |-> idle, shares |-> shares]}
    ELSE IF shares = 0 \/ Worth(ShareProbe, price) = 0
    THEN {}
    ELSE LET deficit  == required - idle
             redeemed == SharesNeeded(deficit, Buffer, shares, price)
         IN  {[idle |-> idle + out, shares |-> shares - redeemed] :
                  out \in Payouts(redeemed, deficit, price)}

\* maybe_invest: invest all above the buffer; a failing vault is ignored.
MaybeInvest(cash) ==
    LET kept     == [idle |-> cash, shares |-> shares]
        invested == [idle   |-> Buffer,
                     shares |-> shares + SharesFor(cash - Buffer, price)]
    IN  IF cash < Threshold \/ price = 0 THEN {kept} ELSE {kept, invested}

AddLiabilities(amount) == liabilities' = liabilities + amount

KeepLiabilities(amount) == liabilities' = liabilities   \* a mutation of the next
SubLiabilities(amount) ==
    liabilities' = IF liabilities > amount THEN liabilities - amount ELSE 0

GetSurplus(cash, position) ==
    IF cash + position > liabilities THEN cash + position - liabilities ELSE 0

----------------------------------------------------------------------------
(***************************************************************************)
(* transact: one action for each sign of the external amount.              *)
(***************************************************************************)

\* A payment may name the pool itself as its payee.
Payees == {"pool", "other"}

\* What is left of cash when amount is paid out of it.
AfterPayment(cash, amount, payee) == IF payee = "pool" THEN cash ELSE cash - amount

Deposit(tx) ==
    /\ tx.ext > 0
    /\ tx.ext <= MaximumDepositAmount
    /\ Accepted(tx)
    /\ Settle(tx)
    /\ AddLiabilities(tx.ext)
    /\ \E after \in MaybeInvest(idle + tx.ext) :
           idle' = after.idle /\ shares' = after.shares
    /\ UNCHANGED <<vaultVars, adminVars>>

Transfer(tx) ==
    /\ tx.ext = 0
    /\ Accepted(tx)
    /\ Settle(tx)
    /\ UNCHANGED <<liabilities, idle, shares, vaultVars, adminVars>>

Withdraw(tx) ==
    /\ tx.ext < 0
    /\ Accepted(tx)
    /\ Settle(tx)
    /\ \E funded \in EnsureIdle(-tx.ext) :
           /\ idle' = AfterPayment(funded.idle, -tx.ext, tx.payee)
           /\ shares' = funded.shares
    /\ SubLiabilities(-tx.ext)
    /\ UNCHANGED <<vaultVars, adminVars>>

----------------------------------------------------------------------------
(***************************************************************************)
(* The administrator.                                                      *)
(***************************************************************************)

\* A mutation of CollectYield: the surplus of before the divest is paid.
CollectStaleSurplus(payee) ==
    LET surplus == GetSurplus(idle, VaultPositionValue)
    IN  /\ surplus > 0
        /\ \E funded \in EnsureIdle(surplus) :
               /\ idle' = AfterPayment(funded.idle, surplus, payee)
               /\ shares' = funded.shares
        /\ UNCHANGED <<treeVars, liabilities, vaultVars, adminVars>>

\* collect_yield: divest for the surplus, then pay what is still surplus.
CollectYield(payee) ==
    LET surplus == GetSurplus(idle, VaultPositionValue)
    IN  /\ surplus > 0
        /\ \E funded \in EnsureIdle(surplus) :
               LET left == GetSurplus(funded.idle, Worth(funded.shares, price))
                   pay  == IF left < funded.idle THEN left ELSE funded.idle
               IN  /\ idle' = AfterPayment(funded.idle, pay, payee)
                   /\ shares' = funded.shares
        /\ UNCHANGED <<treeVars, liabilities, vaultVars, adminVars>>

UpdateInvestParams(p) ==
    /\ ValidParams(p)
    /\ params' = p
    /\ UNCHANGED <<treeVars, liabilities, idle, shares, vaultVars, asp>>

\* update_asp_membership, update_asp_non_membership, or a change that the ASP
\* contracts make to their own trees: one of the two roots becomes another.
UpdateAspRoots ==
    /\ \/ \E allowed \in AllowLists : asp' = [asp EXCEPT !.allowed = allowed]
       \/ \E blocked \in BlockLists : asp' = [asp EXCEPT !.blocked = blocked]
    /\ UNCHANGED <<treeVars, liabilities, idle, shares, vaultVars, params>>

----------------------------------------------------------------------------
(***************************************************************************)
(* What happens outside the contract: the vault gains or loses value, and  *)
(* anyone may send tokens to the pool's address.                           *)
(***************************************************************************)

Reprice ==
    /\ price' \in Prices
    /\ UNCHANGED <<treeVars, liabilities, idle, shares, adminVars>>

Donate ==
    /\ idle < MaxIdle
    /\ idle' = idle + 1
    /\ UNCHANGED <<treeVars, liabilities, shares, vaultVars, adminVars>>

----------------------------------------------------------------------------
Init ==
    /\ notes = [i \in 0 .. -1 |-> 0]
    /\ nextIndex = 0
    /\ nullifiers = {}
    /\ liabilities = 0
    /\ idle = 0
    /\ shares = 0
    /\ price \in Prices
    /\ params \in {p \in InvestParams : ValidParams(p)}
    /\ asp \in AspRoots

Transact(tx) == Deposit(tx) \/ Transfer(tx) \/ Withdraw(tx)

\* The bound on the exploration: no transaction once the tree has MaxLeaves.
SmallTree == nextIndex < MaxLeaves

InputSets == {ins \in SUBSET Leaves : Cardinality(ins) <= 2}

\* The outputs into which a prover may split a total.
Outputs(total) ==
    {outs \in Note \X Note : outs[1].amount + outs[2].amount = total}

SubmitTransaction ==
    /\ SmallTree
    /\ \E root \in 0 .. Insertions, ins \in InputSets, ext \in ExtAmounts :
       \E skew \in ProofSkew, roots \in AspRoots, sender \in Owners, payee \in Payees :
       \E outs \in Outputs(ValueOf(Amount, ins) + ext + skew) :
          Transact([root |-> root, ins |-> ins, ext |-> ext, pub |-> ext + skew,
                    asp |-> roots, sender |-> sender, payee |-> payee, outs |-> outs])

Next ==
    \/ SubmitTransaction
    \/ \E payee \in Payees : CollectYield(payee)
    \/ \E p \in InvestParams : UpdateInvestParams(p)
    \/ UpdateAspRoots
    \/ Reprice
    \/ Donate

Spec == Init /\ [][Next]_vars

----------------------------------------------------------------------------
(***************************************************************************)
(* Properties.                                                             *)
(***************************************************************************)

\* TotalLiabilities is exactly what the unspent notes are worth: no sequence
\* of transactions creates or loses value, and the saturation in
\* sub_liabilities never comes into play.
NotesBacked == liabilities = NoteLiability

\* The pool implements the book of notes: a note is spent at most once
\* whatever root it is proved against, its amount never changes, and nothing
\* but a transaction changes what is owed.
Book == INSTANCE ShieldedBook WITH
            held <- [i \in Unspent |-> Amount[i]],
            used <- Leaves,
            owed <- liabilities
ImplementsBook == Book!Spec

\* ensure_idle finds the money whenever there is enough: when the idle balance
\* and the vault position together cover a payment and the vault answers, the
\* probe, the rounding up and the clamp never make the divest fall short.
ServedWhenSolvent ==
    Worth(ShareProbe, price) > 0 =>
        \A required \in 1 .. Assets : EnsureIdle(required) # {}

\* collect_yield never reaches note-backed funds: after it the pool still has
\* what it owes, less at most what the vault kept back of the divest.
CollectKeepsBacking ==
    [][(\E payee \in Payees : CollectYield(payee))
          => Assets' + VaultFee >= liabilities']_vars

\* A withdrawal that divests also refills the buffer (less what the vault kept
\* back), unless it has redeemed every share.
BufferRefilled ==
    [][liabilities' < liabilities /\ shares' < shares
          => idle' + VaultFee >= Buffer \/ shares' = 0]_vars

\* How far the pool's assets are below what it owes.
Shortfall == IF liabilities > Assets THEN liabilities - Assets ELSE 0

\* Only the vault's market hurts the holders: any step that leaves the share
\* price alone adds at most a rounding error and the vault's fee to the
\* shortfall, whoever takes it.
OnlyTheMarketHurts ==
    [][price' = price => Shortfall' <= Shortfall + price \div Unit + 1 + VaultFee]_vars

\* A note is spent only if its key satisfies the policy in force at that
\* moment, however old the proof is.
PolicyInForce ==
    [][\A i \in nullifiers' \ nullifiers :
          /\ RequiresMembership    => notes[i].owner \in asp.allowed
          /\ RequiresNonMembership => notes[i].owner \notin asp.blocked]_vars
=============================================================================
