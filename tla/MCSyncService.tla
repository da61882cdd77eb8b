---------------------------- MODULE MCSyncService ----------------------------
EXTENDS SyncService
CONSTANTS j1, j2, k1, k2, p1
=============================================================================
