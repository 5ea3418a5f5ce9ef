------------------------------ MODULE MCBudget ------------------------------
(* One instance of Budget for TLC: a run that was given a ceiling and sends *)
(* a child.                                                                 *)
EXTENDS Budget

MCAskedFor ==
    {[steps |-> 0, tokens |-> 20, computed |-> FALSE, wall |-> 0, child |-> 3,
      memory |-> [setting |-> "off", host |-> 64, cgroup |-> 0, megabytes |-> 3]]}

-----------------------------------------------------------------------------
\* What budget.go and subagent.go say of a ceiling the user asked for: it "still
\* bounds total spend", and "the parent's own budget keeps counting while the child
\* runs".  So a turn begins only while everything spent on the run, by itself and
\* by its children, is within the ceiling less the reserve.
TotalSpend ==
    CostOf(journal, Len(journal)) + FoldLeft(LAMBDA sum, c : sum + c.tokens, 0, unmetered)

TotalSpendIsBounded ==
    runPhase = "act" /\ ~ settings.computed /\ settings.tokens > 0 =>
        TotalSpend <= settings.tokens - ReserveOf(settings.tokens)
=============================================================================
