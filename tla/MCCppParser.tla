---------------------------- MODULE MCCppParser ----------------------------
EXTENDS CppParser, MCPackages

CppBounds == [p \in DOMAIN RecoveryBuilt |-> 6]

=============================================================================
