---------------------------- MODULE EffectLedger ----------------------------
(***************************************************************************)
(* What the effect protocol promises the reader of the effect_records      *)
(* table: a committed record already tells how its dispatch ended, it says *)
(* CONFIRMED only of a call that did act on the world, and it never        *)
(* changes again, save that an operator settles an unknown outcome once.   *)
(***************************************************************************)
CONSTANTS
  Attempt   \* the dispatch attempts of the steps

VARIABLES
  ledger,   \* the committed status of each attempt's record, if it has one
  acted     \* whether the attempt's tool call has acted on the world

ledgerVars == <<ledger, acted>>

Final == {"CONFIRMED", "FAILED"}
LedgerStatus == Final \cup {"none", "UNKNOWN_OUTCOME"}

LedgerTypeOK ==
  /\ ledger \in [Attempt -> LedgerStatus]
  /\ acted \in [Attempt -> BOOLEAN]

-----------------------------------------------------------------------------
Act(a) ==
  /\ acted' = [acted EXCEPT ![a] = TRUE]
  /\ UNCHANGED ledger

\* The first and only record of an attempt.
Record(a, status) ==
  /\ ledger[a] = "none"
  /\ status = "CONFIRMED" => acted[a]
  /\ ledger' = [ledger EXCEPT ![a] = status]
  /\ UNCHANGED acted

\* An operator's verdict, which the system cannot check.
Settle(a, status) ==
  /\ ledger[a] = "UNKNOWN_OUTCOME"
  /\ status \in Final
  /\ ledger' = [ledger EXCEPT ![a] = status]
  /\ UNCHANGED acted

LedgerInit ==
  /\ ledger = [a \in Attempt |-> "none"]
  /\ acted = [a \in Attempt |-> FALSE]

LedgerNext ==
  \E a \in Attempt :
    \/ Act(a)
    \/ \E status \in LedgerStatus \ {"none"} : Record(a, status) \/ Settle(a, status)

LedgerSpec == LedgerInit /\ [][LedgerNext]_ledgerVars
=============================================================================
