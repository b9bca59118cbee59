-------------------------- MODULE MCBoundedCompare --------------------------
EXTENDS BoundedCompare

MCAlphabet == <<"approval", "Complete">>

=============================================================================
