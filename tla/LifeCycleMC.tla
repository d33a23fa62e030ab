---------------------------- MODULE LifeCycleMC ----------------------------
EXTENDS LifeCycle, TLC

\* A speed with a strange end, and one that is too fast.
SomeSpeeds  == {<<9, 6, 0, 0, Other>>, <<2, 3, 0, 4, 0, 0>>}
SomeOptions == {[speed |-> 4800, port |-> Nothing]}

ActorSymmetry == Permutations(Proc) \cup Permutations(Call)

\* Texts of up to five characters: the number a text begins with, times ten for every
\* character behind the first that is no digit.
Texts == UNION {[1..n -> {0, 1, 9, Other}] : n \in 0..5}
Scale(t) == IF Leading(t) = Len(t) THEN 1 ELSE powTen[Len(t) - (Leading(t) + 1)]
ASSUME ConversionRight == \A t \in Texts : strToNumber(t) = Decimal(t) * Scale(t)
=============================================================================
