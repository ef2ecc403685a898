----------------------------- MODULE MCTableSync -----------------------------
\* A table of three pages, two to a run of the workflow.
EXTENDS TableSync

MCRows == <<1, 2, 1>>
=============================================================================
