------------------------------ MODULE MCVbMmap ------------------------------
\* The unrestricted specification: callers may do anything the API allows.
EXTENDS VbMmap
=============================================================================
