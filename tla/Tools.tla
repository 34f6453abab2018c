-------------------------------- MODULE Tools -------------------------------
(* The three builds of tools/addrindex side by side: they share no state.     *)
EXTENDS Builds, ActBuild

\* What the three builds leave in their files is of the chain they read.
AnswersOfChain == StateOfChain /\ AnswerOfState /\ ActiveIsCounted
=============================================================================
