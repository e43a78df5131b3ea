---------------------------- MODULE MCValidators ---------------------------
(***************************************************************************)
(* The manager against the bot: validators come and go, change scores and  *)
(* lose their stake to emergency and partial unstakes, while the bot       *)
(* stakes, redelegates, merges and updates over any number of epochs.      *)
(***************************************************************************)
EXTENDS MCMarinade, TLC

CONSTANTS v1, v2, s1, s2, s3

\* v1 has the only score; v2 waits in the list with none.  Three quarters of
\* the stake may move in an epoch.
ValidatorsInit ==
  Configured(With([max_stake_moved_per_epoch |-> 3]), FALSE,
             [v \in {v1, v2} |-> IF v = v1 THEN 1 ELSE 0])

StakedNext ==
  \/ \E l \in Lamports : Deposit(l)
  \/ \E a \in DOMAIN stake_list : UpdateActive(a)
  \/ \E a \in DOMAIN stake_list : UpdateDeactivated(a)
  \/ \E v \in DOMAIN validator_list, a \in StakeAccount : StakeReserve(v, a)
  \/ \E dst \in DOMAIN stake_list, src \in DOMAIN stake_list :
       MergeStakes(dst, src)
  \/ RedelegateNext
  \/ UnstakeNext
  \/ ValidatorsNext
  \/ ClockNext

ValidatorsSpec == ValidatorsInit /\ [][StakedNext]_vars

Accounts == Permutations(StakeAccount)
============================================================================
