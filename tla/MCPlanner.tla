-------------------------------- MODULE MCPlanner --------------------------------
EXTENDS Planner

Op(op, id, match, data) == [op |-> op, id |-> id, match |-> match, data |-> data, endpoint |-> TRUE]
CONSTANT k

Good == {Op("create", NoId, NoKey, TRUE), Op("create", NoId, k, TRUE), Op("update", 1, NoKey, TRUE),
         Op("update", NoId, k, TRUE), Op("delete", 2, NoKey, FALSE), Op("delete", NoId, k, FALSE)}
Bad == {Op("create", 1, NoKey, TRUE), Op("update", NoId, NoKey, FALSE), Op("delete", 1, k, TRUE),
        Op("update", BadId, NoKey, TRUE), Op("create", NoId, BadKey, TRUE), Op("unknown", 1, NoKey, TRUE),
        Op("not an object", NoId, NoKey, FALSE),
        [Op("delete", 2, NoKey, FALSE) EXCEPT !.endpoint = FALSE]}

Valid == {<<>>} \cup {<<o>> : o \in Good} \cup {<<o, q>> : o, q \in Good} \cup {<<o, o, o>> : o \in Good}
Mixed == {<<o, q>> : o \in Good \cup Bad, q \in Bad} \cup {<<o, q>> : o \in Bad, q \in Good}
MCSubmissions == Valid \cup Mixed
================================================================================
