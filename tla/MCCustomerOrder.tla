--------------------------- MODULE MCCustomerOrder ---------------------------
(***************************************************************************)
(* One order, submitted up to twice, of any channel: so a retry leaves two *)
(* records on it.  Two transactions on its pages, and one courier for both *)
(* records, which is where couriers meet.                                  *)
(***************************************************************************)
EXTENDS CustomerOrder

CONSTANTS o1, c1, x1, x2, none
=============================================================================
