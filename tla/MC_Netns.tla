------------------------------ MODULE MC_Netns ------------------------------
\* Names for TLC, two of which differ only in what snprintf() cuts off.
EXTENDS Netns, TLC

MCNames == {<<"red", "">>, <<"blue", "1">>, <<"blue", "2">>}
RunSymmetry == Permutations(Runs)
=============================================================================
