----------------------------- MODULE MCEncoding -----------------------------
EXTENDS Encoding

MCScalars ==
  <<[kind |-> "bool", value |-> 1], [kind |-> "int", value |-> 1],
   [kind |-> "float", value |-> 0], [kind |-> "float", value |-> NegZero],
   [kind |-> "float", value |-> NaN], [kind |-> "bytes", value |-> 1]>>

=============================================================================
