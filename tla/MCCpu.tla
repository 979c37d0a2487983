------------------------------- MODULE MCCpu -------------------------------
EXTENDS Cpu

\* Bytes of one bit, words of eight.  The regions are of different sizes, and
\* within reach of each other and of the signed offsets.
MCStart == [data |-> 16, stack |-> 40]
MCSize  == [data |-> 9, stack |-> 4]
=============================================================================
