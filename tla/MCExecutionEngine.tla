-------------------------- MODULE MCExecutionEngine --------------------------
EXTENDS ExecutionEngine, TLC

\* Two threads of a kind that run the same program are interchangeable.
ThreadSymmetry == Permutations(Submitter) \cup Permutations(Worker)
=============================================================================
