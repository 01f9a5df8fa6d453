------------------------------ MODULE Repetition ------------------------------
(***************************************************************************)
(* What an experiment is promised of one repetition, whatever runs it      *)
(* (CellExecutor in packages/runner/src/cell-executor.ts): provider turns, *)
(* each within the retry policy's bound, separated by rounds of tool calls,*)
(* within the turn ceiling the user confirmed, and then one outcome.       *)
(***************************************************************************)
EXTENDS Naturals

CONSTANTS
  Ceiling,     \* provider turns one repetition may take
  MaxRetries   \* rate-limited retries of one turn

VARIABLES
  stage,    \* what the repetition is doing
  turns,    \* provider turns begun
  retries   \* retries of the present turn

repetitionVars == <<stage, turns, retries>>

Init == stage = "unstarted" /\ turns = 0 /\ retries = 0

Begin == stage = "unstarted" /\ stage' = "turn" /\ turns' = 1 /\ retries' = 0

\* The provider answered 429 and the policy allows another attempt.
Wait == /\ stage = "turn" /\ retries < MaxRetries
        /\ stage' = "waiting"
        /\ UNCHANGED <<turns, retries>>

Retry == /\ stage = "waiting"
         /\ stage' = "turn" /\ retries' = retries + 1
         /\ UNCHANGED turns

Serve == /\ stage = "turn" /\ turns < Ceiling
         /\ stage' = "serving"
         /\ UNCHANGED <<turns, retries>>

NextTurn == /\ stage = "serving"
            /\ stage' = "turn" /\ turns' = turns + 1 /\ retries' = 0

End == /\ stage \in {"turn", "waiting", "serving"}
       /\ stage' = "ending"
       /\ UNCHANGED <<turns, retries>>

\* With a terminal run, or with none when execute rejects.
Settle == /\ stage \in {"turn", "waiting", "serving", "ending"}
          /\ stage' \in {"settled", "broken"}
          /\ UNCHANGED <<turns, retries>>

Next == Begin \/ Wait \/ Retry \/ Serve \/ NextTurn \/ End \/ Settle

Spec == Init /\ [][Next]_repetitionVars

=============================================================================
