--------------------------- MODULE VaultPricing ---------------------------
(***************************************************************************)
(* The arithmetic between the pool and the yield vault it invests in.      *)
(*                                                                         *)
(* The vault is a contract of another project, modelled from the calls the *)
(* pool makes and from the stand-in its tests use: price assets buy Unit   *)
(* shares, and every conversion rounds towards zero.                       *)
(***************************************************************************)
EXTENDS Integers

CONSTANTS
    Unit,         \* scale of a share price (10_000 basis points in the stand-in)
    ShareProbe,   \* SHARE_PROBE, the batch of shares whose price is asked for
    VaultFee      \* most assets the vault may keep back from a withdrawal

ASSUME VaultAssumption ==
    /\ Unit \in Nat \ {0}
    /\ ShareProbe \in Nat \ {0}
    /\ VaultFee \in Nat

\* get_asset_amounts_per_shares: what a number of shares is worth.
Worth(shares, price) == (shares * price) \div Unit

\* The shares a deposit is credited with.
SharesFor(amount, price) == (amount * Unit) \div price

(***************************************************************************)
(* Mutations of the two definitions below (each is a slip the code could   *)
(* have made; no specification uses them).                                 *)
(***************************************************************************)
FlooredShares(deficit, buffer, shares, price) ==
    LET needed == ((deficit + buffer) * ShareProbe) \div Worth(ShareProbe, price)
    IN  IF needed > shares THEN shares ELSE needed

UnbufferedShares(deficit, buffer, shares, price) ==
    LET per_probe == Worth(ShareProbe, price)
        needed    == (deficit * ShareProbe + per_probe - 1) \div per_probe
    IN  IF needed > shares THEN shares ELSE needed

(***************************************************************************)
(* The shares ensure_idle redeems: enough for the deficit and the buffer   *)
(* at the probed price, rounded up, and never more than the pool has.      *)
(***************************************************************************)
SharesNeeded(deficit, buffer, shares, price) ==
    LET per_probe == Worth(ShareProbe, price)
        desired   == deficit + buffer
        needed    == (desired * ShareProbe + per_probe - 1) \div per_probe
    IN  IF needed > shares THEN shares ELSE needed

(***************************************************************************)
(* What vault.withdraw may pay for redeemed shares: their worth less at    *)
(* most VaultFee, and never below the min_amounts_out it was given.        *)
(***************************************************************************)
Payouts(redeemed, min_out, price) ==
    {out \in 0 .. Worth(redeemed, price) :
        /\ out >= min_out
        /\ Worth(redeemed, price) - out <= VaultFee}
=============================================================================
