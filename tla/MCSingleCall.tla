---------------------------- MODULE MCSingleCall ----------------------------
EXTENDS SingleCall
=============================================================================
