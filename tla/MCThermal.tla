----------------------------- MODULE MCThermal -----------------------------
\* Three trip points, so that the temperature can cross several at once, and
\* a socket buffer that a rise and a fall can overflow.
EXTENDS Thermal
=============================================================================
