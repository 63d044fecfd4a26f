------------------------------ MODULE MC_Inference ------------------------------
EXTENDS Inference

ThreeCases == {<<"c1", 1>>, <<"c1", 2>>, <<"c2", 1>>, <<"c3", 1>>}
Half == <<1, 4>>
Tenth == <<1, 10>>
FivePercent == <<1, 20>>
Dyadic == {1, 2, 3, 6, 64}
===============================================================================
