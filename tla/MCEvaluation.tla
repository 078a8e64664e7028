---------------------------- MODULE MCEvaluation ----------------------------
EXTENDS Evaluation, TLC

Symmetry == Permutations(Evaluators)

=============================================================================
