------------------------------ MODULE MCShocks -----------------------------
(***************************************************************************)
(* What the program does not control: stakes are slashed, lamports are     *)
(* sent to the reserve and to stake accounts, and tokens are burnt, behind *)
(* the back of the books, between any two instructions.                    *)
(***************************************************************************)
EXTENDS MCMarinade

CONSTANTS v1, s1, s2, t1

ShocksInit ==
  Configured(With([delayed_unstake_fee |-> 1]), FALSE, [v \in {v1} |-> 1])

ShocksNext ==
  \/ \E l \in Lamports : Deposit(l)
  \/ \E t \in Ticket, m \in Lamports : OrderUnstake(t, m)
  \/ \E t \in DOMAIN tickets : Claim(t)
  \/ \E a \in DOMAIN stake_list : UpdateActive(a)
  \/ \E a \in DOMAIN stake_list : UpdateDeactivated(a)
  \/ \E v \in DOMAIN validator_list, a \in StakeAccount : StakeReserve(v, a)
  \/ \E a \in DOMAIN stake_list : DeactivateWholeStake(a)
  \/ \E a \in DOMAIN stake_list, b \in StakeAccount :
       DeactivateSplitStake(a, b)
  \/ ClockNext
  \/ \E a \in DOMAIN stake_accounts : PayStakeAccount(a, 1)
  \/ PayReserve(1)
  \/ BurnMsol(1)
  \/ SlashNext

ShocksSpec == ShocksInit /\ [][ShocksNext]_vars
============================================================================
