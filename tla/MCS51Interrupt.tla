-------------------------- MODULE MCS51Interrupt --------------------------
EXTENDS S51Interrupt

\* The poll order of external #0, timer #0 and the serial line, whose flag the
\* program has to clear.
MCSources == <<"external", "timer", "serial">>

=============================================================================
