--------------------------- MODULE MCReportQueue ---------------------------
(* A small instance of the report queue for TLC.                           *)
EXTENDS ReportQueue
====
