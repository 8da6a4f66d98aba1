---------------------------- MODULE MCLiveMerge ----------------------------
\* Instances of LiveMerge for TLC; the .cfg file gives the constants.  Keys are
\* only compared, so all but the blank paragraph's are interchangeable.
EXTENDS LiveMerge

KeySymmetry == Permutations(Keys \ {Blank})
=============================================================================
