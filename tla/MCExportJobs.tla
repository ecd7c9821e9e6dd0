---------------------------- MODULE MCExportJobs -----------------------------
(* Small instances of ExportJobs for TLC.                                  *)
EXTENDS ExportJobs
=============================================================================
