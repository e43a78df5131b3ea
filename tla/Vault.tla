-------------------------------- MODULE Vault -------------------------------
(***************************************************************************)
(* What the program promises its holders, and nothing about how: a vault   *)
(* of some value, shares in it, and lamports it owes to holders who left.  *)
(* Marinade implements it as long as no stake is slashed.                  *)
(***************************************************************************)
EXTENDS Naturals

VARIABLES
  value,      \* lamports that belong to the holders of shares
  shares,
  owed        \* lamports promised for shares that exist no more

VaultInit == value = 0 /\ shares = 0 /\ owed = 0

\* What a share is worth does not fall.
AtNoLoss == shares > 0 => value' * shares >= value * shares'

\* A deposit buys shares, a reward comes with shares for the treasury.
Gain ==
  /\ value' >= value /\ shares' >= shares
  /\ owed' = owed
  /\ AtNoLoss

\* Shares are given up for a promise, which is taken out of the value.  It may
\* be a promise of nothing: the least a holder can ask for is a setting.
Promise ==
  /\ shares' < shares
  /\ owed' >= owed
  /\ value' + owed' = value + owed
  /\ AtNoLoss

\* A promise is kept from what was put aside for it.
Pay ==
  /\ owed' < owed
  /\ UNCHANGED <<value, shares>>

\* Shares are paid out at once, or change hands for it when what is paid is
\* worth less than one.  The fee is rounded up: those who stay lose less than
\* the worth of one share.
Withdraw ==
  /\ value' < value /\ shares' <= shares
  /\ owed' = owed
  /\ value' * shares + value > value * shares'

VaultNext == Gain \/ Promise \/ Pay \/ Withdraw

VaultSpec == VaultInit /\ [][VaultNext]_<<value, shares, owed>>
=============================================================================
