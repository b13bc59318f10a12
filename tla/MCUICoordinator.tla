--------------------------- MODULE MCUICoordinator ---------------------------
EXTENDS UICoordinator

MCCubes == {0, 1}

=============================================================================
