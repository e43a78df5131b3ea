----------------------------- MODULE MCWithdraw ----------------------------
(***************************************************************************)
(* Stake accounts in and out: users bring delegations and take parts of    *)
(* others away for mSOL, while rewards, paid lamports and merges change    *)
(* the accounts and the treasury comes and goes.                           *)
(***************************************************************************)
EXTENDS MCMarinade, TLC

CONSTANTS v1, s1, s2

\* Stakes of eight earn four at a time, and the treasury takes three quarters
\* of it: less, and its fee is rounded away before it can be too much.
WithdrawInit ==
  Configured(With([withdraw_stake_account_fee |-> 1, reward_fee |-> 3]), TRUE,
             [v \in {v1} |-> 1])

WithdrawNext ==
  \/ StakeAccountsNext
  \/ \E a \in DOMAIN stake_list : UpdateActive(a)
  \/ \E dst \in DOMAIN stake_list, src \in DOMAIN stake_list :
       MergeStakes(dst, src)
  \/ \E ready \in BOOLEAN : ChangeAuthority(ready)
  \/ \E a \in StakeAccount, l \in Lamports : UserStakes(a, v1, l)
  \/ \E a \in DOMAIN stake_accounts : PayStakeAccount(a, 4)
  \/ ClockNext

WithdrawSpec == WithdrawInit /\ [][WithdrawNext]_vars

Accounts == Permutations(StakeAccount)
============================================================================
