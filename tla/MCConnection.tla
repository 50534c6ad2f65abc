--------------------------- MODULE MCConnection ---------------------------
(* A TLC instance of Connection: two calls, a driver that is a file driver *)
(* and one that is not, two data sources.                                  *)
EXTENDS Connection
===========================================================================
