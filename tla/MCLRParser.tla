----------------------------- MODULE MCLRParser -----------------------------
EXTENDS LRParserLanguage, MCPackages

=============================================================================
