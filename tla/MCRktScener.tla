---------------------------- MODULE MCRktScener ----------------------------
EXTENDS RktScener
=============================================================================
