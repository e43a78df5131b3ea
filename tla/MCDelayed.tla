----------------------------- MODULE MCDelayed -----------------------------
(***************************************************************************)
(* Delayed unstaking: deposits, tickets and claims, with the bot that      *)
(* updates, stakes and deactivates, over any number of epochs.             *)
(***************************************************************************)
EXTENDS MCMarinade

CONSTANTS v1, s1, s2, t1, t2

DelayedInit ==
  Configured(With([delayed_unstake_fee |-> 1]), FALSE, [v \in {v1} |-> 1])

DelayedUsers ==
  \/ \E l \in Lamports : Deposit(l)
  \/ \E t \in Ticket, m \in Lamports : OrderUnstake(t, m)
  \/ \E t \in DOMAIN tickets : Claim(t)

DelayedNext == DelayedUsers \/ CrankNext \/ ClockNext

DelayedSpec == DelayedInit /\ [][DelayedNext]_vars
===========================================================================
