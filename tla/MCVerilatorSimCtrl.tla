------------------------- MODULE MCVerilatorSimCtrl -------------------------
EXTENDS VerilatorSimCtrl

\* A limit within the reset, one behind it, and one that is no number of cycles.
TermsUsed == {-1, 3, 8}
=============================================================================
