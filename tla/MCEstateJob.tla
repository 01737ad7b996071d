----------------------------- MODULE MCEstateJob ------------------------------
EXTENDS EstateJob
MCTimes == 1..3
=============================================================================
