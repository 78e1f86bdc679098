---------------------------- MODULE MCLifecycle ----------------------------
\* The bounds of the model are the constants of Lifecycle themselves.
EXTENDS Lifecycle
=============================================================================
