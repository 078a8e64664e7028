---------------------------- MODULE MCChatWorker ----------------------------
EXTENDS ChatWorker, TLC

Symmetry == Permutations(Turns) \cup Permutations(Users) \cup Permutations(Facts)
=============================================================================
