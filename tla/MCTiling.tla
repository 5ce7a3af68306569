------------------------------ MODULE MCTiling ------------------------------
\* Small values of the constants of Tiling: an odd screen under a panel, on
\* which no division comes out even, and steps that reach the limits of the
\* data within two changes.
EXTENDS Tiling

MCScreen      == [x |-> 0, y |-> 23, w |-> 1367, h |-> 743]
MCChoices     == {"SingleFloat", "CompactPaper", "DoubleStack", "HorizontalStack"}
MCGapSteps    == {14, 400}
MCCountSteps  == {-1, 1}
MCFactorSteps == {-15, 60}
MCMarginSteps == {411}
=============================================================================
