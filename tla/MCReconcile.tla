---------------------------- MODULE MCReconcile ----------------------------
EXTENDS Reconcile
=============================================================================
