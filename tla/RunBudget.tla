----------------------------- MODULE RunBudget -----------------------------
(***************************************************************************)
(* The clock of one optimize.ps1 -Apply -RunTerraform.  OptimizeRun leaves *)
(* the answers of Test-TimeFor open; here they come from the elapsed time  *)
(* and from the estimate of an apply, and the knobs are left out.  Seconds *)
(* are natural numbers.                                                    *)
(***************************************************************************)
EXTENDS Naturals

CONSTANTS
    Budget,         \* $BudgetMinutes * 60
    Warmup,         \* $WarmupSeconds
    Duration,       \* $Duration
    Settle, CostSettle,
    Slack,          \* 30: planning, and what a measurement takes beside hey
    FirstEstimate,  \* 90
    MaxApply        \* bound on one terraform apply

VARIABLES
    stage,
    elapsed,        \* $sw.Elapsed
    estimate,       \* $script:ApplyCostSeconds
    aux_allowed,    \* the estimate on which the current stage was admitted
    aux_slow,       \* an apply took longer than its stage allowed it
    aux_threw       \* the rollback of a rejected candidate failed

clockVars == <<stage, elapsed, estimate, aux_allowed, aux_slow, aux_threw>>

ASSUME TimesAssumption ==
    /\ Budget \in Nat /\ Warmup \in Nat /\ Duration \in Nat /\ Slack \in Nat
    /\ Settle \in Nat /\ CostSettle \in Nat
    /\ FirstEstimate \in Nat /\ MaxApply \in Nat

\* The default of 20 minutes leaves room for the unguarded first measurement.
ASSUME RoomAssumption == Warmup + Slack + Duration + Slack <= Budget

\* What a stage needs when an apply takes `apply` seconds.
PresizeNeed(apply) == apply + CostSettle + Duration + Slack

\* A defect to tell apart: the rollback is not reserved.
CandidateNeed_OneApply(apply) == apply + Settle + Duration + Slack

CandidateNeed(apply) == apply * 2 + Settle + Duration + Slack

\* A defect to tell apart: time already spent on the stage before is not seen.
TestTimeFor_Stale(need) == Warmup + need <= Budget

\* Test-TimeFor, with Get-SecondsLeft.
TestTimeFor(need) == elapsed + need <= Budget

Measurement == Duration..(Duration + Slack)

ClockInit ==
    /\ stage = "warmup"
    /\ elapsed = 0
    /\ estimate = FirstEstimate
    /\ aux_allowed = FirstEstimate
    /\ aux_slow = FALSE
    /\ aux_threw = FALSE

\* -WarmupSeconds 0 skips it.
WarmUp ==
    /\ stage = "warmup"
    /\ \E d \in Warmup..(Warmup + Slack) : elapsed' = elapsed + d
    /\ stage' = "baseline"
    /\ UNCHANGED <<estimate, aux_allowed, aux_slow, aux_threw>>

Baseline ==
    /\ stage = "baseline"
    /\ \E d \in Measurement : elapsed' = elapsed + d
    /\ stage' \in {"presize", "plan"}
    /\ UNCHANGED <<estimate, aux_allowed, aux_slow, aux_threw>>

PresizeAdmit ==
    /\ stage = "presize"
    /\ IF TestTimeFor(PresizeNeed(estimate))
       THEN stage' = "presize_apply" /\ aux_allowed' = estimate
       ELSE stage' = "plan" /\ UNCHANGED aux_allowed
    /\ UNCHANGED <<elapsed, estimate, aux_slow, aux_threw>>

\* One apply of d seconds: the clock, and whether the stage allowed for it.
Applies(d) ==
    /\ elapsed' = elapsed + d
    /\ aux_slow' = (aux_slow \/ d > aux_allowed)

\* A defect to tell apart: the time left is kept, not the time taken.
Timed_Left(d) == estimate' = Budget - elapsed'

\* Measure-Apply keeps the last measurement, not the average of line 220.
Timed(d) == estimate' = d

PresizeApply ==
    /\ stage = "presize_apply"
    /\ \E d \in 0..MaxApply : Applies(d) /\ Timed(d)
    /\ stage' = "presize_measure"
    /\ UNCHANGED <<aux_allowed, aux_threw>>

PresizeMeasure ==
    /\ stage = "presize_measure"
    /\ \E d \in Measurement : elapsed' = elapsed + CostSettle + d
    /\ stage' = "plan"
    /\ UNCHANGED <<estimate, aux_allowed, aux_slow, aux_threw>>

CandidateAdmit ==
    /\ stage = "plan"
    /\ \/ /\ TestTimeFor(CandidateNeed(estimate))
          /\ aux_allowed' = estimate
          /\ stage' = "cand_apply"
       \/ stage' = "done" /\ UNCHANGED aux_allowed
    /\ UNCHANGED <<elapsed, estimate, aux_slow, aux_threw>>

CandidateApply ==
    /\ stage = "cand_apply"
    /\ \E d \in 0..MaxApply : Applies(d) /\ Timed(d)
    /\ stage' = "cand_measure"
    /\ UNCHANGED <<aux_allowed, aux_threw>>

CandidateMeasure ==
    /\ stage = "cand_measure"
    /\ \E d \in Measurement : elapsed' = elapsed + Settle + d
    /\ stage' \in {"done", "undo_apply"}
    /\ UNCHANGED <<estimate, aux_allowed, aux_slow, aux_threw>>

\* Set-TuningMany of line 307 is not timed.
UndoApply ==
    /\ stage = "undo_apply"
    /\ \E d \in 0..MaxApply : Applies(d)
    /\ \/ stage' = "done" /\ UNCHANGED aux_threw
       \/ stage' = "finally_apply" /\ aux_threw' = TRUE
    /\ UNCHANGED <<estimate, aux_allowed>>

\* An apply of the presize stage that fails has no $pending to go back to.
PresizeThrows ==
    /\ stage = "presize_apply"
    /\ \E d \in 0..MaxApply : Applies(d)
    /\ stage' = "done"
    /\ UNCHANGED <<estimate, aux_allowed, aux_threw>>

CandidateThrows ==
    /\ stage = "cand_apply"
    /\ \E d \in 0..MaxApply : Applies(d)
    /\ stage' = "finally_apply"
    /\ UNCHANGED <<estimate, aux_allowed, aux_threw>>

\* Ctrl+C, or an exception, while the candidate is measured.
CandidateInterrupted ==
    /\ stage = "cand_measure"
    /\ \E d \in 0..(Settle + Duration + Slack) : elapsed' = elapsed + d
    /\ stage' = "finally_apply"
    /\ UNCHANGED <<estimate, aux_allowed, aux_slow, aux_threw>>

\* ... before there is a candidate to put back.
Interrupted ==
    /\ stage \in {"warmup", "baseline", "presize", "presize_measure", "plan"}
    /\ stage' = "done"
    /\ UNCHANGED <<elapsed, estimate, aux_allowed, aux_slow, aux_threw>>

FinallyApply ==
    /\ stage = "finally_apply"
    /\ \E d \in 0..MaxApply : Applies(d)
    /\ stage' = "done"
    /\ UNCHANGED <<estimate, aux_allowed, aux_threw>>

Terminated == stage = "done" /\ UNCHANGED clockVars

ClockNext ==
    \/ WarmUp \/ Baseline
    \/ PresizeAdmit \/ PresizeApply \/ PresizeMeasure \/ PresizeThrows
    \/ CandidateAdmit \/ CandidateApply \/ CandidateMeasure \/ CandidateThrows
    \/ CandidateInterrupted \/ Interrupted
    \/ UndoApply \/ FinallyApply
    \/ Terminated

ClockSpec == ClockInit /\ [][ClockNext]_clockVars

----------------------------------------------------------------------------

Pcs == {"warmup", "baseline", "presize", "presize_apply", "presize_measure", "plan",
        "cand_apply", "cand_measure", "undo_apply", "finally_apply", "done"}

\* Types of the script's clock variables.
ClockTypeOK ==
    /\ stage \in Pcs
    /\ elapsed \in Nat
    /\ estimate \in Nat
    /\ aux_allowed \in Nat
    /\ aux_slow \in BOOLEAN
    /\ aux_threw \in BOOLEAN

\* optimize.ps1:8: a run ends within its budget, with a presize, a candidate
\* and a rollback in it, as long as no apply takes longer than the last one
\* did and the rollback does not fail.
EndsInBudget == ~aux_slow /\ ~aux_threw => elapsed <= Budget

\* optimize.ps1:279: when a candidate has been measured, one more apply as
\* long as the estimate still fits.
RollbackFits ==
    stage \in {"undo_apply", "finally_apply"} /\ ~aux_slow /\ ~aux_threw
        => elapsed + aux_allowed <= Budget

\* A failed rollback is tried once more by `finally` (optimize.ps1:321), and
\* that is the only apply that the budget does not cover.
OverrunBounded == ~aux_slow => elapsed <= Budget + aux_allowed

----------------------------------------------------------------------------
\* The inductive strengthening: what each statement still has to spend.

Left ==
    CASE stage = "warmup"          -> Warmup + Slack + Duration + Slack
      [] stage = "baseline"        -> Duration + Slack
      [] stage = "presize_apply"   -> PresizeNeed(aux_allowed)
      [] stage = "presize_measure" -> CostSettle + Duration + Slack
      [] stage = "cand_apply"      -> CandidateNeed(aux_allowed)
      [] stage = "cand_measure"    -> aux_allowed + Settle + Duration + Slack
      [] stage = "undo_apply"      -> aux_allowed
      [] stage = "finally_apply"   -> IF aux_threw THEN 0 ELSE aux_allowed
      [] OTHER                  -> 0

\* Unless an apply was slow, what is left to spend fits; only the last apply
\* after a failed rollback may go beyond.
Funded ==
    ~aux_slow =>
        IF stage = "done" /\ aux_threw
        THEN elapsed <= Budget + aux_allowed
        ELSE elapsed + Left <= Budget

=============================================================================
