------------------------------- MODULE MCChangelog -------------------------------
\* An update, whose two writes share a key, and a create, whose revert is a
\* delete.
EXTENDS Changelog
CONSTANTS update, create, delete
MCKey == [apply |-> <<update, create>>, rollback |-> <<update, delete>>]
================================================================================
