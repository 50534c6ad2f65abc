------------------------------ MODULE MCRows ------------------------------
(* TLC instances of Rows: the bound N is given by the cfg.  At most one     *)
(* call on the driver is set to fail: the first failure ends the cursor.    *)
EXTENDS Rows

OneFailure ==
  { x \in Query : Cardinality({ b \in {"read", "scan", "cols"} :
                    \/ b = "read" /\ x.badRead # 0
                    \/ b = "scan" /\ x.badScan # 0
                    \/ b = "cols" /\ x.badCols }) <= 1 }

MCInit == Init /\ q \in OneFailure

MCSpec == MCInit /\ [][Next]_vars /\ Fairness
===========================================================================
