-------------------------------- MODULE MCClient --------------------------------
(***************************************************************************)
(* Five objects and one call of each kind: a listing that fits, one that is  *)
(* cut, one that starts at an offset; a lookup by filters; one object with  *)
(* and without chosen fields; the change log.                               *)
(***************************************************************************)
EXTENDS Client

Ask(kind, max, page, start) ==
    [kind |-> kind, max |-> max, page |-> page, offset |-> start, id |-> 0, fields |-> FALSE]
Detail(fields) ==
    [kind |-> "get", max |-> 1, page |-> 1, offset |-> 0, id |-> 2, fields |-> fields]

MCCalls ==
    {Ask("list", 6, 3, 0), Ask("list", 3, 2, 0), Ask("list", 6, 2, 1), Ask("find", 2, 100, 0),
     Ask("changes", 5, 3, 0), Detail(FALSE), Detail(TRUE)}
================================================================================
