----------------------------- MODULE MCReports -----------------------------
EXTENDS Reports

MCHolidays == {2, 4}
=============================================================================
