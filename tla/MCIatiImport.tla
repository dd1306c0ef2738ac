---------------------------- MODULE MCIatiImport ----------------------------
(* Small instances of IatiImport.                                            *)
EXTENDS IatiImport, TLC

CONSTANTS j1, j2,    \* jobs
          p1         \* the process

=============================================================================
