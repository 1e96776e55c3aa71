----------------------------- MODULE MCTestSuite -----------------------------
EXTENDS TestSuite

\* Every way to take the tests for rows.
MCLookups == [Test -> Test \cup {None}]
=============================================================================
